------------------------- MODULE UnitsLedgerProofs -------------------------
(***************************************************************************)
(* What allocate() and splitRefund() compute, for every demand, balance    *)
(* and tier; then the ledger keeps its types and its promises for every    *)
(* set of users, reservations and payments, every catalogue, calendar and  *)
(* limit.                                                                  *)
(***************************************************************************)
EXTENDS UnitsLedger, FiniteSums

\* Lesser is the minimum.
LEMMA LesserIsLeast ==
  ASSUME NEW a \in Nat, NEW b \in Nat
  PROVE  /\ Lesser(a, b) \in Nat
         /\ Lesser(a, b) <= a /\ Lesser(a, b) <= b
         /\ Lesser(a, b) = a \/ Lesser(a, b) = b
BY DEF Lesser

\* What the free tier offers a demand is a number of units.
LEMMA UsableFreeType ==
  ASSUME NEW tier \in Tiers, NEW available \in UnitsBySource
  PROVE  UsableFree(tier, available) \in Nat /\ UsableFree(tier, available) <= available.free
BY DEF UsableFree, UnitsBySource

\* allocate() never takes more of a source than it offers, nor more than asked.
THEOREM TakenFits ==
  ASSUME NEW requested \in Nat, NEW tier \in Tiers, NEW available \in UnitsBySource
  PROVE  LET taken == Taken(requested, tier, available)
         IN  /\ taken \in UnitsBySource
             /\ taken.free <= UsableFree(tier, available)
             /\ taken.pass <= available.pass
             /\ taken.credits <= available.credits
             /\ TotalUnits(taken) <= requested
<1> DEFINE usable == UsableFree(tier, available)
           free == Lesser(requested, usable)
           pass == Lesser(requested - free, available.pass)
           credits == Lesser(requested - free - pass, available.credits)
<1>1. available.pass \in Nat /\ available.credits \in Nat
  BY DEF UnitsBySource
<1>2. usable \in Nat
  BY UsableFreeType
<1>3. free \in Nat /\ free <= requested /\ free <= usable
  BY <1>2, LesserIsLeast
<1>4. requested - free \in Nat
  BY <1>3
<1>5. pass \in Nat /\ pass <= requested - free /\ pass <= available.pass
  BY <1>1, <1>4, LesserIsLeast
<1>6. requested - free - pass \in Nat
  BY <1>4, <1>5
<1>7. credits \in Nat /\ credits <= requested - free - pass /\ credits <= available.credits
  BY <1>1, <1>6, LesserIsLeast
<1>8. Taken(requested, tier, available) = [free |-> free, pass |-> pass, credits |-> credits]
  BY DEF Taken
<1> HIDE DEF free, pass, credits
<1> QED
  BY <1>3, <1>5, <1>7, <1>8 DEF UnitsBySource, TotalUnits

\* The order of the debit: a source is touched only once those before it are used up.
THEOREM TakenInOrder ==
  ASSUME NEW requested \in Nat, NEW tier \in Tiers, NEW available \in UnitsBySource
  PROVE  LET taken == Taken(requested, tier, available)
         IN  /\ taken.pass > 0 => taken.free = UsableFree(tier, available)
             /\ taken.credits > 0 => /\ taken.free = UsableFree(tier, available)
                                     /\ taken.pass = available.pass
<1> DEFINE usable == UsableFree(tier, available)
<1>1. usable \in Nat /\ available.pass \in Nat /\ available.credits \in Nat
  BY UsableFreeType DEF UnitsBySource
<1> HIDE DEF usable
<1> QED
  BY <1>1 DEF Taken, Lesser, usable

\* allocate() refuses a demand exactly when the sources it may use fall short:
\* it never refuses a user who has enough, in whatever sources the units are.
THEOREM CoversWhenEnough ==
  ASSUME NEW requested \in Nat, NEW tier \in Tiers, NEW available \in UnitsBySource
  PROVE  Covers(requested, tier, available)
           <=> requested <= UsableFree(tier, available) + available.pass + available.credits
<1> DEFINE usable == UsableFree(tier, available)
<1>1. usable \in Nat /\ available.pass \in Nat /\ available.credits \in Nat
  BY UsableFreeType DEF UnitsBySource
<1> HIDE DEF usable
<1> QED
  BY <1>1 DEF Covers, TotalUnits, Taken, Lesser, usable

\* splitRefund() gives a source back at most what was taken from it, and gives
\* back everything that is asked, within what was reserved.
THEOREM SplitRefundFits ==
  ASSUME NEW reserved \in UnitsBySource, NEW units \in Nat
  PROVE  LET back == SplitRefund(reserved, units)
         IN  /\ back \in UnitsBySource
             /\ back.free <= reserved.free
             /\ back.pass <= reserved.pass
             /\ back.credits <= reserved.credits
             /\ units <= TotalUnits(reserved) => TotalUnits(back) = units
<1> DEFINE credits == Lesser(units, reserved.credits)
           pass == Lesser(units - credits, reserved.pass)
           free == Lesser(units - credits - pass, reserved.free)
<1>1. reserved.free \in Nat /\ reserved.pass \in Nat /\ reserved.credits \in Nat
  BY DEF UnitsBySource
<1>2. /\ credits \in Nat /\ credits <= units /\ credits <= reserved.credits
      /\ credits = units \/ credits = reserved.credits
  BY <1>1, LesserIsLeast
<1>3. units - credits \in Nat
  BY <1>2
<1>4. /\ pass \in Nat /\ pass <= units - credits /\ pass <= reserved.pass
      /\ pass = units - credits \/ pass = reserved.pass
  BY <1>1, <1>3, LesserIsLeast
<1>5. units - credits - pass \in Nat
  BY <1>3, <1>4
<1>6. /\ free \in Nat /\ free <= units - credits - pass /\ free <= reserved.free
      /\ free = units - credits - pass \/ free = reserved.free
  BY <1>1, <1>5, LesserIsLeast
<1>7. SplitRefund(reserved, units) = [free |-> free, pass |-> pass, credits |-> credits]
  BY DEF SplitRefund
<1> HIDE DEF free, pass, credits
<1> QED
  BY <1>1, <1>2, <1>4, <1>6, <1>7 DEF UnitsBySource, TotalUnits

\* What a refund leaves charged is imputed to the first sources of the debit.
THEOREM RefundLeavesFirstSources ==
  ASSUME NEW reserved \in UnitsBySource, NEW units \in Nat
  PROVE  LET net == Less(reserved, SplitRefund(reserved, units))
         IN  /\ net.pass > 0 => net.free = reserved.free
             /\ net.credits > 0 => net.free = reserved.free /\ net.pass = reserved.pass
<1>1. reserved.free \in Nat /\ reserved.pass \in Nat /\ reserved.credits \in Nat
  BY DEF UnitsBySource
<1> QED
  BY <1>1 DEF Less, SplitRefund, Lesser

\* A price in units is a number, and no price is free.
LEMMA ForCharsType ==
  ASSUME NEW chars \in Nat, NEW tier \in Tiers
  PROVE  ForChars(chars, tier) \in Nat /\ (chars > 0 => ForChars(chars, tier) > 0)
BY DEF ForChars, Weight, Tiers

-----------------------------------------------------------------------------
(* The ledger. *)

LEMMA InitTypeOK == Init => TypeOK
<1> SUFFICES ASSUME Init PROVE TypeOK
  OBVIOUS
<1>1. now \in Time
  BY LedgerAssumption DEF Init, Time
<1>2. freeUsed \in [User -> [Period -> Nat]] /\ wallet \in [User -> Nat]
  BY DEF Init
<1>3. entries \in [User -> Seq(Entry)]
  BY DEF Init
<1> QED
  BY <1>1, <1>2, <1>3 DEF Init, TypeOK

\* What the balances offer a reservation.
LEMMA AvailableType ==
  ASSUME TypeOK, NEW u \in User, NEW m \in Period, NEW pass
  PROVE  Available(u, m, pass) \in UnitsBySource
<1>1. freeUsed[u][m] \in Nat /\ wallet[u] \in Nat
  BY DEF TypeOK
<1>2. FreeLeft(u, m) \in Nat
  BY <1>1, LedgerAssumption DEF FreeLeft, Floor
<1>3. PassLeft(pass) \in Nat
  BY DEF PassLeft, Floor, TypeOK, PassRow
<1> QED
  BY <1>1, <1>2, <1>3 DEF Available, UnitsBySource

\* A pass whose use changes is still a row of its table, with the same days.
LEMMA PassRowUsed ==
  ASSUME NEW row \in PassRow, NEW n \in Nat
  PROVE  /\ [row EXCEPT !.used = n] \in PassRow
         /\ [row EXCEPT !.used = n].used = n
         /\ [row EXCEPT !.used = n].user = row.user
         /\ [row EXCEPT !.used = n].startsAt = row.startsAt
         /\ [row EXCEPT !.used = n].endsAt = row.endsAt
         /\ [row EXCEPT !.used = n].included = row.included
BY DEF PassRow

LEMMA ReserveTypeOK ==
  ASSUME TypeOK, NEW u \in User, NEW r \in ReservationId, NEW tier \in Tiers,
         NEW chars \in 1 .. MaxChars, NEW at \in Time, NEW pass \in ActivePass(u, at) \cup {NoPass},
         Reserve(u, r, tier, chars, at, pass)
  PROVE  TypeOK'
<1> DEFINE m == PeriodOf[at]
           available == Available(u, m, pass)
           taken == Taken(ForChars(chars, tier), tier, available)
           row == [user |-> u, period |-> m, tier |-> tier, chars |-> chars,
                   pass |-> IF taken.pass > 0 THEN pass ELSE NoPass, taken |-> taken,
                   refunded |-> FALSE, refundedChars |-> 0]
<1>1. m \in Period
  BY DEF Period
<1>2. chars \in Nat \ {0}
  BY LedgerAssumption
<1>3. ForChars(chars, tier) \in Nat
  BY <1>2, ForCharsType
<1>4. available \in UnitsBySource
  BY <1>1, AvailableType
<1>5. /\ taken \in UnitsBySource
      /\ taken.credits <= available.credits
  BY <1>3, <1>4, TakenFits
<1>6. taken.free \in Nat /\ taken.pass \in Nat /\ taken.credits \in Nat
  BY <1>5 DEF UnitsBySource
<1>7. taken.credits <= wallet[u]
  BY <1>5 DEF Available
<1>8. pass \in PaymentRef \cup {NoPass}
  BY DEF ActivePass, Running, PassesOf, TypeOK
<1> HIDE DEF taken, m
<1>9. row \in ReservationRow
  BY <1>1, <1>2, <1>5, <1>8 DEF ReservationRow
<1>10. Debit(u, r, tier, chars, at, pass, available) /\ UNCHANGED <<now, users, purchases>>
  BY DEF Reserve, m
<1>11. reservations' = Insert(reservations, r, row)
  BY <1>10 DEF Debit, taken, m
<1>12. DOMAIN reservations' \subseteq ReservationId
       /\ \A k \in DOMAIN reservations' : reservations'[k] \in ReservationRow
  BY <1>9, <1>11 DEF Insert, TypeOK
<1>13. freeUsed' \in [User -> [Period -> Nat]]
  <2>1. freeUsed' = [freeUsed EXCEPT ![u][m] = @ + taken.free]
    BY <1>10 DEF Debit, taken, m
  <2>2. freeUsed \in [User -> [Period -> Nat]]
    BY DEF TypeOK
  <2>3. freeUsed[u][m] + taken.free \in Nat
    BY <1>1, <1>6, <2>2
  <2>4. [freeUsed[u] EXCEPT ![m] = @ + taken.free] \in [Period -> Nat]
    BY <1>1, <2>2, <2>3
  <2> QED
    BY <2>1, <2>2, <2>4
<1>14. DOMAIN passes' \subseteq PaymentRef /\ \A p \in DOMAIN passes' : passes'[p] \in PassRow
  <2>1. passes' = [p \in DOMAIN passes |->
                     IF p = pass THEN [passes[p] EXCEPT !.used = @ + taken.pass] ELSE passes[p]]
    BY <1>10 DEF Debit, taken, m
  <2>2. ASSUME NEW p \in DOMAIN passes
        PROVE  [passes[p] EXCEPT !.used = passes[p].used + taken.pass] \in PassRow
    <3>1. passes[p] \in PassRow
      BY DEF TypeOK
    <3>2. passes[p].used + taken.pass \in Nat
      BY <1>6, <3>1 DEF PassRow
    <3> QED
      BY <3>1, <3>2, PassRowUsed
  <2> QED
    BY <2>1, <2>2 DEF TypeOK
<1>15. wallet' \in [User -> Nat]
  <2>1. wallet' = [wallet EXCEPT ![u] = @ - taken.credits]
    BY <1>10 DEF Debit, taken, m
  <2> QED
    BY <2>1, <1>6, <1>7 DEF TypeOK
<1>16. entries' \in [User -> Seq(Entry)]
  <2>1. entries' = IF taken.credits = 0 THEN entries
                   ELSE [entries EXCEPT ![u] =
                           Append(@, [kind |-> "consumption", units |-> taken.credits])]
    BY <1>10 DEF Debit, Journal, AppendEntry, taken, m
  <2>2. taken.credits # 0 => [kind |-> "consumption", units |-> taken.credits] \in Entry
    BY <1>6 DEF Entry
  <2> QED
    BY <2>1, <2>2 DEF TypeOK
<1>17. now' \in Time /\ users' \subseteq User
       /\ DOMAIN purchases' \subseteq PaymentRef
       /\ \A p \in DOMAIN purchases' : purchases'[p] \in PurchaseRow
  BY <1>10 DEF TypeOK
<1> QED
  BY <1>12, <1>13, <1>14, <1>15, <1>16, <1>17 DEF TypeOK

LEMMA RefundTypeOK ==
  ASSUME TypeOK, NEW r \in ReservationId, NEW chars \in 1 .. MaxChars, Refund(r, chars)
  PROVE  TypeOK'
<1> DEFINE row == reservations[r]
           given == Lesser(chars, row.chars)
           back == SplitRefund(row.taken, ForChars(given, row.tier))
<1>1. r \in DOMAIN reservations /\ row \in ReservationRow
  BY DEF Refund, TypeOK
<1>2. /\ row.user \in User /\ row.period \in Period /\ row.tier \in Tiers
      /\ row.taken \in UnitsBySource /\ row.chars \in Nat
  BY <1>1 DEF ReservationRow
<1>3. given \in Nat
  <2>1. chars \in Nat
    BY LedgerAssumption
  <2> QED
    BY <1>2, <2>1, LesserIsLeast
<1>4. ForChars(given, row.tier) \in Nat
  BY <1>2, <1>3, ForCharsType
<1>5. back \in UnitsBySource
  BY <1>2, <1>4, SplitRefundFits
<1>6. back.free \in Nat /\ back.pass \in Nat /\ back.credits \in Nat
  BY <1>5 DEF UnitsBySource
<1>7. GiveBack(r, row, given) /\ UNCHANGED <<now, users, purchases>>
  BY DEF Refund
<1> HIDE DEF given, back
<1>8. /\ DOMAIN reservations' \subseteq ReservationId
      /\ \A k \in DOMAIN reservations' : reservations'[k] \in ReservationRow
  <2>1. reservations' = [reservations EXCEPT ![r].refunded = TRUE, ![r].refundedChars = given]
    BY <1>7 DEF GiveBack
  <2>2. [[row EXCEPT !.refunded = TRUE] EXCEPT !.refundedChars = given] \in ReservationRow
    BY <1>1, <1>3 DEF ReservationRow
  <2> QED
    BY <1>1, <2>1, <2>2 DEF TypeOK
<1>9. freeUsed' \in [User -> [Period -> Nat]]
  <2>1. freeUsed' = [freeUsed EXCEPT ![row.user][row.period] = Floor(@, back.free)]
    BY <1>7 DEF GiveBack, RefundPeriod, back
  <2>2. freeUsed \in [User -> [Period -> Nat]]
    BY DEF TypeOK
  <2>3. Floor(freeUsed[row.user][row.period], back.free) \in Nat
    BY <1>2, <1>6, <2>2 DEF Floor
  <2>4. [freeUsed[row.user] EXCEPT ![row.period] = Floor(@, back.free)] \in [Period -> Nat]
    BY <1>2, <2>2, <2>3
  <2> QED
    BY <1>2, <2>1, <2>2, <2>4
<1>10. DOMAIN passes' \subseteq PaymentRef /\ \A p \in DOMAIN passes' : passes'[p] \in PassRow
  <2>1. passes' = [p \in DOMAIN passes |->
                     IF p = row.pass THEN [passes[p] EXCEPT !.used = Floor(@, back.pass)]
                                     ELSE passes[p]]
    BY <1>7 DEF GiveBack, back
  <2>2. ASSUME NEW p \in DOMAIN passes
        PROVE  [passes[p] EXCEPT !.used = Floor(passes[p].used, back.pass)] \in PassRow
    <3>1. passes[p] \in PassRow
      BY DEF TypeOK
    <3>2. Floor(passes[p].used, back.pass) \in Nat
      BY <1>6, <3>1 DEF PassRow, Floor
    <3> QED
      BY <3>1, <3>2, PassRowUsed
  <2> QED
    BY <2>1, <2>2 DEF TypeOK
<1>11. wallet' \in [User -> Nat]
  <2>1. wallet' = [wallet EXCEPT ![row.user] = @ + back.credits]
    BY <1>7 DEF GiveBack, back
  <2> QED
    BY <1>2, <1>6, <2>1 DEF TypeOK
<1>12. entries' \in [User -> Seq(Entry)]
  <2>1. entries' = IF back.credits = 0 THEN entries
                   ELSE [entries EXCEPT ![row.user] =
                           Append(@, [kind |-> "refund", units |-> back.credits])]
    BY <1>7 DEF GiveBack, Journal, AppendEntry, back
  <2>2. back.credits # 0 => [kind |-> "refund", units |-> back.credits] \in Entry
    BY <1>6 DEF Entry
  <2> QED
    BY <1>2, <2>1, <2>2 DEF TypeOK
<1> QED
  BY <1>7, <1>8, <1>9, <1>10, <1>11, <1>12 DEF TypeOK

\* A pass starts at an instant.
LEMMA PassStartType ==
  ASSUME TypeOK, NEW u \in User, NEW at \in Time, NEW startsAt \in PassStart(u, at)
  PROVE  startsAt \in Nat
<1>1. at \in Nat
  BY LedgerAssumption DEF Time
<1> QED
  BY <1>1 DEF PassStart, PassesOf, TypeOK, PassRow

LEMMA GrantTypeOK ==
  ASSUME TypeOK, NEW u \in User, NEW ref \in PaymentRef, NEW code \in OfferCode, NEW at \in Time,
         NEW startsAt \in PassStart(u, at), Grant(u, ref, code, at, startsAt)
  PROVE  TypeOK'
<1> DEFINE offer == Offers[code]
           pass == [user |-> u, startsAt |-> startsAt, endsAt |-> startsAt + offer.days,
                    included |-> offer.units, used |-> 0]
<1>1. offer.units \in Nat \ {0} /\ offer.days \in Nat
  BY LedgerAssumption DEF Offer
<1>2. startsAt \in Nat
  BY PassStartType
<1>3. pass \in PassRow
  BY <1>1, <1>2 DEF PassRow
<1>4. RecordPurchase(u, ref, code, startsAt) /\ UNCHANGED <<now, users, freeUsed, reservations>>
  BY DEF Grant
<1>5. DOMAIN purchases' \subseteq PaymentRef /\ \A p \in DOMAIN purchases' : purchases'[p] \in PurchaseRow
  <2>1. [user |-> u, offer |-> code] \in PurchaseRow
    BY DEF PurchaseRow
  <2> QED
    BY <1>4, <2>1 DEF RecordPurchase, Insert, TypeOK
<1>6. CASE offer.kind = "pass"
  <2>1. passes' = Insert(passes, ref, pass) /\ UNCHANGED <<wallet, entries>>
    BY <1>4, <1>6 DEF RecordPurchase
  <2>2. DOMAIN passes' \subseteq PaymentRef /\ \A p \in DOMAIN passes' : passes'[p] \in PassRow
    BY <1>3, <2>1 DEF Insert, TypeOK
  <2> QED
    BY <1>4, <1>5, <2>1, <2>2 DEF TypeOK
<1>7. CASE offer.kind # "pass"
  <2>1. /\ wallet' = [wallet EXCEPT ![u] = @ + offer.units]
        /\ entries' = [entries EXCEPT ![u] = Append(@, [kind |-> "purchase", units |-> offer.units])]
        /\ UNCHANGED passes
    BY <1>1, <1>4, <1>7 DEF RecordPurchase, Journal, AppendEntry
  <2>2. [kind |-> "purchase", units |-> offer.units] \in Entry
    BY <1>1 DEF Entry
  <2>3. wallet' \in [User -> Nat] /\ entries' \in [User -> Seq(Entry)]
    BY <1>1, <2>1, <2>2 DEF TypeOK
  <2> QED
    BY <1>4, <1>5, <2>1, <2>3 DEF TypeOK
<1> QED
  BY <1>6, <1>7

LEMMA DeleteAccountTypeOK ==
  ASSUME TypeOK, NEW u \in User, DeleteAccount(u)
  PROVE  TypeOK'
<1>1. freeUsed' \in [User -> [Period -> Nat]]
  BY DEF DeleteAccount, TypeOK
<1>2. wallet' \in [User -> Nat] /\ entries' \in [User -> Seq(Entry)]
  BY DEF DeleteAccount, TypeOK
<1>3. /\ DOMAIN passes' \subseteq PaymentRef
      /\ \A p \in DOMAIN passes' : passes'[p] \in PassRow
  BY DEF DeleteAccount, TypeOK, Keep
<1>4. /\ DOMAIN reservations' \subseteq ReservationId
      /\ \A k \in DOMAIN reservations' : reservations'[k] \in ReservationRow
  BY DEF DeleteAccount, TypeOK, Keep
<1>5. DOMAIN purchases' \subseteq PaymentRef /\ \A p \in DOMAIN purchases' : purchases'[p] \in PurchaseRow
  <2>1. ASSUME NEW p \in DOMAIN purchases
        PROVE  [purchases[p] EXCEPT !.user = Detached] \in PurchaseRow
    <3>1. purchases[p] \in PurchaseRow
      BY DEF TypeOK
    <3> QED
      BY <3>1 DEF PurchaseRow
  <2> QED
    BY <2>1 DEF DeleteAccount, TypeOK
<1>6. now' \in Time /\ users' \subseteq User
  BY DEF DeleteAccount, TypeOK
<1> QED
  BY <1>1, <1>2, <1>3, <1>4, <1>5, <1>6 DEF TypeOK

-----------------------------------------------------------------------------
(* The disjuncts of Next under names, to cite an action at a time. *)

AnyReserve ==
  \E u \in User, r \in ReservationId, tier \in Tiers, chars \in 1 .. MaxChars, at \in Time :
    \E pass \in ActivePass(u, at) \cup {NoPass} : Reserve(u, r, tier, chars, at, pass)
AnyRefund == \E r \in ReservationId, chars \in 1 .. MaxChars : Refund(r, chars)
AnyGrant ==
  \E u \in User, ref \in PaymentRef, code \in OfferCode, at \in Time :
    \E startsAt \in PassStart(u, at) : Grant(u, ref, code, at, startsAt)
AnyDeletion == \E u \in User : DeleteAccount(u)

LEMMA NextByAction ==
  [Next]_vars => AnyReserve \/ AnyRefund \/ AnyGrant \/ AnyDeletion \/ Tick \/ UNCHANGED vars
BY DEF Next, AnyReserve, AnyRefund, AnyGrant, AnyDeletion

-----------------------------------------------------------------------------
(* What each action does, as far as the invariants need it. *)

\* Nothing of a pass moves but its use, which stays within what is included.
OnlyUseMoves ==
  /\ DOMAIN passes' = DOMAIN passes
  /\ \A p \in DOMAIN passes :
       /\ passes'[p].user = passes[p].user
       /\ passes'[p].startsAt = passes[p].startsAt
       /\ passes'[p].endsAt = passes[p].endsAt
       /\ passes'[p].included = passes[p].included
       /\ passes[p].used <= passes[p].included => passes'[p].used <= passes'[p].included

\* The free tier of every month stays within its limit.
FreeStaysWithin ==
  (\A u \in User, m \in Period : freeUsed[u][m] <= FreeLimit)
    => \A u \in User, m \in Period : freeUsed'[u][m] <= FreeLimit

\* What a reservation is when it is made.
NewReservation(row) ==
  /\ TotalUnits(row.taken) = ForChars(row.chars, row.tier)
  /\ row.tier = "natural" => row.taken.free = 0
  /\ row.pass = NoPass <=> row.taken.pass = 0
  /\ row.refunded = FALSE
  /\ row.refundedChars = 0

\* A reservation takes what allocate() found, all of its price, and no more of
\* the free tier and of its pass than they had left.
LEMMA ReserveEffect ==
  ASSUME TypeOK, AnyReserve
  PROVE  /\ \E r \in ReservationId, row \in ReservationRow :
              /\ r \notin DOMAIN reservations
              /\ reservations' = Insert(reservations, r, row)
              /\ NewReservation(row)
         /\ FreeStaysWithin
         /\ OnlyUseMoves
         /\ UNCHANGED <<users, purchases>>
<1> PICK u \in User, r \in ReservationId, tier \in Tiers, chars \in 1 .. MaxChars, at \in Time :
      \E pass \in ActivePass(u, at) \cup {NoPass} : Reserve(u, r, tier, chars, at, pass)
  BY DEF AnyReserve
<1> PICK pass \in ActivePass(u, at) \cup {NoPass} : Reserve(u, r, tier, chars, at, pass)
  OBVIOUS
<1> DEFINE m == PeriodOf[at]
           available == Available(u, m, pass)
           taken == Taken(ForChars(chars, tier), tier, available)
           row == [user |-> u, period |-> m, tier |-> tier, chars |-> chars,
                   pass |-> IF taken.pass > 0 THEN pass ELSE NoPass, taken |-> taken,
                   refunded |-> FALSE, refundedChars |-> 0]
<1>1. m \in Period
  BY DEF Period
<1>2. chars \in Nat \ {0}
  BY LedgerAssumption
<1>3. ForChars(chars, tier) \in Nat
  BY <1>2, ForCharsType
<1>4. available \in UnitsBySource
  BY <1>1, AvailableType
<1>5. /\ taken \in UnitsBySource
      /\ taken.free <= UsableFree(tier, available)
      /\ taken.pass <= available.pass
  BY <1>3, <1>4, TakenFits
<1>6. taken.free \in Nat /\ taken.pass \in Nat
  BY <1>5 DEF UnitsBySource
<1>7. taken.free <= FreeLeft(u, m)
  <2>1. available.free = FreeLeft(u, m) /\ FreeLeft(u, m) \in Nat
    BY <1>4 DEF Available, UnitsBySource
  <2>2. UsableFree(tier, available) \in Nat /\ UsableFree(tier, available) <= available.free
    BY <1>4, UsableFreeType
  <2> QED
    BY <1>5, <1>6, <2>1, <2>2
<1>8. tier = "natural" => taken.free = 0
  BY <1>5, <1>6 DEF UsableFree
<1>9. taken.pass <= PassLeft(pass)
  BY <1>5 DEF Available
<1>10. pass = NoPass => taken.pass = 0
  <2>1. NoPass \notin DOMAIN passes
    BY LedgerAssumption DEF TypeOK
  <2> QED
    BY <1>6, <1>9, <2>1 DEF PassLeft
<1>11. pass \in PaymentRef \cup {NoPass}
  BY DEF ActivePass, Running, PassesOf, TypeOK
<1>12. TotalUnits(taken) = ForChars(chars, tier)
  BY DEF Reserve, Covers
<1>13. /\ Debit(u, r, tier, chars, at, pass, available)
       /\ UNCHANGED <<users, purchases>>
       /\ r \notin DOMAIN reservations
  BY DEF Reserve
<1> HIDE DEF taken, m, available
<1>14. row \in ReservationRow
  BY <1>1, <1>2, <1>5, <1>11 DEF ReservationRow
<1>15. /\ reservations' = Insert(reservations, r, row)
       /\ freeUsed' = [freeUsed EXCEPT ![u][m] = @ + taken.free]
       /\ passes' = [p \in DOMAIN passes |->
                       IF p = pass THEN [passes[p] EXCEPT !.used = @ + taken.pass] ELSE passes[p]]
  BY <1>13 DEF Debit, taken, m, available
<1>16. NewReservation(row)
  BY <1>6, <1>8, <1>10, <1>12, LedgerAssumption DEF NewReservation
<1>17. FreeStaysWithin
  <2> SUFFICES ASSUME \A v \in User, n \in Period : freeUsed[v][n] <= FreeLimit,
                      NEW v \in User, NEW n \in Period
               PROVE  freeUsed'[v][n] <= FreeLimit
    BY DEF FreeStaysWithin
  <2>1. freeUsed \in [User -> [Period -> Nat]]
    BY DEF TypeOK
  <2>2. freeUsed[u][m] + taken.free <= FreeLimit
    BY <1>1, <1>6, <1>7, <2>1, LedgerAssumption DEF FreeLeft, Floor
  <2> QED
    BY <1>1, <1>15, <2>1, <2>2
<1>18. OnlyUseMoves
  <2>1. ASSUME NEW p \in DOMAIN passes, p = pass
        PROVE  /\ passes'[p].user = passes[p].user
               /\ passes'[p].startsAt = passes[p].startsAt
               /\ passes'[p].endsAt = passes[p].endsAt
               /\ passes'[p].included = passes[p].included
               /\ passes[p].used <= passes[p].included => passes'[p].used <= passes'[p].included
    <3>1. passes[p] \in PassRow
      BY DEF TypeOK
    <3>2. passes[p].used \in Nat /\ passes[p].included \in Nat
      BY <3>1 DEF PassRow
    <3>3. passes'[p] = [passes[p] EXCEPT !.used = passes[p].used + taken.pass]
      BY <1>15, <2>1
    <3>4. passes'[p].used = passes[p].used + taken.pass /\ passes'[p].included = passes[p].included
          /\ passes'[p].user = passes[p].user /\ passes'[p].startsAt = passes[p].startsAt
          /\ passes'[p].endsAt = passes[p].endsAt
      BY <1>6, <3>1, <3>2, <3>3, PassRowUsed
    <3>5. passes[p].used <= passes[p].included
            => passes[p].used + taken.pass <= passes[p].included
      BY <1>6, <1>9, <2>1, <3>2 DEF PassLeft, Floor
    <3> QED
      BY <3>4, <3>5
  <2>2. ASSUME NEW p \in DOMAIN passes, p # pass
        PROVE  passes'[p] = passes[p]
    BY <1>15, <2>2
  <2>3. DOMAIN passes' = DOMAIN passes
    BY <1>15
  <2> QED
    BY <2>1, <2>2, <2>3 DEF OnlyUseMoves
<1> HIDE DEF row
<1> QED
  BY <1>13, <1>14, <1>15, <1>16, <1>17, <1>18

\* A refund marks its reservation, once, with what it gave back, and gives back
\* from the use of the sources.
LEMMA RefundEffect ==
  ASSUME TypeOK, AnyRefund
  PROVE  /\ \E r \in DOMAIN reservations : \E given \in 1 .. reservations[r].chars :
              /\ ~reservations[r].refunded
              /\ reservations' = [reservations EXCEPT ![r].refunded = TRUE,
                                                      ![r].refundedChars = given]
         /\ FreeStaysWithin
         /\ OnlyUseMoves
         /\ UNCHANGED <<users, purchases>>
<1> PICK r \in ReservationId, chars \in 1 .. MaxChars : Refund(r, chars)
  BY DEF AnyRefund
<1> DEFINE row == reservations[r]
           given == Lesser(chars, row.chars)
           back == SplitRefund(row.taken, ForChars(given, row.tier))
<1>1. r \in DOMAIN reservations /\ row \in ReservationRow
  BY DEF Refund, TypeOK
<1>2. /\ row.user \in User /\ row.period \in Period /\ row.tier \in Tiers
      /\ row.taken \in UnitsBySource /\ row.chars \in Nat \ {0}
  BY <1>1 DEF ReservationRow
<1>3. given \in Nat /\ given \in 1 .. row.chars
  <2>1. chars \in Nat \ {0}
    BY LedgerAssumption
  <2>2. row.chars \in Nat \ {0}
    BY <1>2
  <2> HIDE DEF row
  <2> QED
    BY <2>1, <2>2 DEF Lesser
<1>4. back \in UnitsBySource
  BY <1>2, <1>3, ForCharsType, SplitRefundFits
<1>5. back.free \in Nat /\ back.pass \in Nat
  BY <1>4 DEF UnitsBySource
<1>6. GiveBack(r, row, given) /\ UNCHANGED <<users, purchases>> /\ ~row.refunded
  BY DEF Refund
<1> HIDE DEF given, back
<1>7. /\ reservations' = [reservations EXCEPT ![r].refunded = TRUE, ![r].refundedChars = given]
      /\ freeUsed' = [freeUsed EXCEPT ![row.user][row.period] = Floor(@, back.free)]
      /\ passes' = [p \in DOMAIN passes |->
                      IF p = row.pass THEN [passes[p] EXCEPT !.used = Floor(@, back.pass)]
                                      ELSE passes[p]]
  BY <1>6 DEF GiveBack, RefundPeriod, back
<1>8. FreeStaysWithin
  <2> SUFFICES ASSUME \A v \in User, n \in Period : freeUsed[v][n] <= FreeLimit,
                      NEW v \in User, NEW n \in Period
               PROVE  freeUsed'[v][n] <= FreeLimit
    BY DEF FreeStaysWithin
  <2>1. freeUsed \in [User -> [Period -> Nat]]
    BY DEF TypeOK
  <2>2. Floor(freeUsed[row.user][row.period], back.free) <= freeUsed[row.user][row.period]
    BY <1>2, <1>5, <2>1 DEF Floor
  <2>3. Floor(freeUsed[row.user][row.period], back.free) <= FreeLimit
    <3>1. Floor(freeUsed[row.user][row.period], back.free) \in Nat
          /\ freeUsed[row.user][row.period] \in Nat
      BY <1>2, <1>5, <2>1 DEF Floor
    <3>2. freeUsed[row.user][row.period] <= FreeLimit
      BY <1>2
    <3> QED
      BY <2>2, <3>1, <3>2, LedgerAssumption
  <2> HIDE DEF row
  <2> QED
    BY <1>2, <1>7, <2>1, <2>3
<1>9. OnlyUseMoves
  <2>1. ASSUME NEW p \in DOMAIN passes, p = row.pass
        PROVE  /\ passes'[p].user = passes[p].user
               /\ passes'[p].startsAt = passes[p].startsAt
               /\ passes'[p].endsAt = passes[p].endsAt
               /\ passes'[p].included = passes[p].included
               /\ passes[p].used <= passes[p].included => passes'[p].used <= passes'[p].included
    <3>1. passes[p] \in PassRow
      BY DEF TypeOK
    <3>2. passes[p].used \in Nat /\ passes[p].included \in Nat
      BY <3>1 DEF PassRow
    <3>3. passes'[p] = [passes[p] EXCEPT !.used = Floor(passes[p].used, back.pass)]
      BY <1>7, <2>1
    <3>4. /\ Floor(passes[p].used, back.pass) \in Nat
          /\ Floor(passes[p].used, back.pass) <= passes[p].used
      BY <1>5, <3>2 DEF Floor
    <3>5. passes'[p].used = Floor(passes[p].used, back.pass)
          /\ passes'[p].included = passes[p].included
          /\ passes'[p].user = passes[p].user /\ passes'[p].startsAt = passes[p].startsAt
          /\ passes'[p].endsAt = passes[p].endsAt
      BY <3>1, <3>3, <3>4, PassRowUsed
    <3> QED
      BY <3>2, <3>4, <3>5
  <2>2. ASSUME NEW p \in DOMAIN passes, p # row.pass
        PROVE  passes'[p] = passes[p]
    BY <1>7, <2>2
  <2>3. DOMAIN passes' = DOMAIN passes
    BY <1>7
  <2> QED
    BY <2>1, <2>2, <2>3 DEF OnlyUseMoves
<1>10. \E k \in DOMAIN reservations : \E n \in 1 .. reservations[k].chars :
         /\ ~reservations[k].refunded
         /\ reservations' = [reservations EXCEPT ![k].refunded = TRUE, ![k].refundedChars = n]
  BY <1>1, <1>3, <1>6, <1>7, Zenon
<1> QED
  BY <1>6, <1>8, <1>9, <1>10

\* A purchase adds its row, and at most a pass not used yet that starts when the
\* others of the user have ended.
LEMMA GrantEffect ==
  ASSUME TypeOK, AnyGrant
  PROVE  /\ \E u \in User, ref \in PaymentRef :
              /\ ref \notin DOMAIN purchases
              /\ \E row : purchases' = Insert(purchases, ref, row)
              /\ \/ UNCHANGED passes
                 \/ \E pass \in PassRow :
                      /\ passes' = Insert(passes, ref, pass)
                      /\ pass.user = u /\ pass.used = 0
                      /\ \A p \in PassesOf(u) : passes[p].endsAt <= pass.startsAt
         /\ UNCHANGED <<users, freeUsed, reservations>>
<1> PICK u \in User, ref \in PaymentRef, code \in OfferCode, at \in Time :
      \E startsAt \in PassStart(u, at) : Grant(u, ref, code, at, startsAt)
  BY DEF AnyGrant
<1> PICK startsAt \in PassStart(u, at) : Grant(u, ref, code, at, startsAt)
  OBVIOUS
<1> DEFINE offer == Offers[code]
           pass == [user |-> u, startsAt |-> startsAt, endsAt |-> startsAt + offer.days,
                    included |-> offer.units, used |-> 0]
<1>1. offer.units \in Nat \ {0} /\ offer.days \in Nat
  BY LedgerAssumption DEF Offer
<1>2. startsAt \in Nat
  BY PassStartType
<1>3. pass \in PassRow
  BY <1>1, <1>2 DEF PassRow
<1>4. /\ RecordPurchase(u, ref, code, startsAt)
      /\ UNCHANGED <<users, freeUsed, reservations>>
      /\ ref \notin DOMAIN purchases
  BY DEF Grant
<1>5. \E row : purchases' = Insert(purchases, ref, row)
  BY <1>4 DEF RecordPurchase
<1>6. UNCHANGED passes \/ passes' = Insert(passes, ref, pass)
  BY <1>4 DEF RecordPurchase
<1>7. \A p \in PassesOf(u) : passes[p].endsAt <= startsAt
  BY DEF PassStart
<1> QED
  BY <1>3, <1>4, <1>5, <1>6, <1>7

-----------------------------------------------------------------------------
(* The inductive invariant: the promises of the ledger, and that a refund is *)
(* of no more characters than were reserved, which no property of the model  *)
(* says and the imputation of refunds rests on.                              *)

RefundBounded ==
  \A r \in DOMAIN reservations :
    /\ reservations[r].refundedChars <= reservations[r].chars
    /\ ~reservations[r].refunded => reservations[r].refundedChars = 0

IInv ==
  /\ TypeOK
  /\ NeverOverdrawn
  /\ PassesNeverOverlap
  /\ AllOrNothing
  /\ RefundBounded

LEMMA TypeOKStep == TypeOK /\ [Next]_vars => TypeOK'
<1> SUFFICES ASSUME TypeOK, [Next]_vars PROVE TypeOK'
  OBVIOUS
<1>1. CASE AnyReserve
  BY <1>1, ReserveTypeOK DEF AnyReserve
<1>2. CASE AnyRefund
  BY <1>2, RefundTypeOK DEF AnyRefund
<1>3. CASE AnyGrant
  BY <1>3, GrantTypeOK DEF AnyGrant
<1>4. CASE AnyDeletion
  BY <1>4, DeleteAccountTypeOK DEF AnyDeletion
<1>5. CASE Tick
  BY <1>5, LedgerAssumption DEF Tick, TypeOK, Time
<1>6. CASE UNCHANGED vars
  BY <1>6 DEF vars, TypeOK
<1> QED
  BY <1>1, <1>2, <1>3, <1>4, <1>5, <1>6, NextByAction

\* Every transaction leaves tables whose rows have their types: no balance
\* below zero, no entry of the journal without units.
THEOREM TypeOKInvariant == Spec => []TypeOK
<1>1. Init => TypeOK
  BY InitTypeOK
<1>2. TypeOK /\ [Next]_vars => TypeOK'
  BY TypeOKStep
<1> QED
  BY <1>1, <1>2, PTL DEF Spec

LEMMA InitInvariant == Init => IInv
<1> SUFFICES ASSUME Init PROVE IInv
  OBVIOUS
<1>1. TypeOK
  BY InitTypeOK
<1>2. NeverOverdrawn
  BY LedgerAssumption DEF Init, NeverOverdrawn
<1>3. PassesNeverOverlap /\ AllOrNothing /\ RefundBounded
  BY DEF Init, PassesNeverOverlap, AllOrNothing, RefundBounded
<1> QED
  BY <1>1, <1>2, <1>3 DEF IInv

LEMMA NeverOverdrawnStep ==
  ASSUME TypeOK, NeverOverdrawn, [Next]_vars
  PROVE  NeverOverdrawn'
<1>1. ASSUME FreeStaysWithin, OnlyUseMoves
      PROVE  NeverOverdrawn'
  BY <1>1 DEF FreeStaysWithin, OnlyUseMoves, NeverOverdrawn
<1>2. CASE AnyReserve
  BY <1>1, <1>2, ReserveEffect
<1>3. CASE AnyRefund
  BY <1>1, <1>3, RefundEffect
<1>4. CASE AnyGrant
  <2>1. UNCHANGED freeUsed
    BY <1>4, GrantEffect
  <2>2. PICK ref \in PaymentRef : UNCHANGED passes \/ \E pass \in PassRow :
                                    passes' = Insert(passes, ref, pass) /\ pass.used = 0
    BY <1>4, GrantEffect
  <2>3. ASSUME NEW pass \in PassRow, passes' = Insert(passes, ref, pass), pass.used = 0
        PROVE  \A p \in DOMAIN passes' : passes'[p].used <= passes'[p].included
    <3>1. pass.used <= pass.included
      BY <2>3 DEF PassRow
    <3>2. \A p \in DOMAIN passes' : passes'[p] = pass \/ (p \in DOMAIN passes /\ passes'[p] = passes[p])
      BY <2>3 DEF Insert
    <3> QED
      BY <3>1, <3>2 DEF NeverOverdrawn
  <2> QED
    BY <2>1, <2>2, <2>3 DEF NeverOverdrawn
<1>5. CASE AnyDeletion
  <2> PICK u \in User : DeleteAccount(u)
    BY <1>5 DEF AnyDeletion
  <2>1. \A v \in User, m \in Period : freeUsed'[v][m] <= FreeLimit
    BY LedgerAssumption DEF DeleteAccount, TypeOK, NeverOverdrawn
  <2>2. \A p \in DOMAIN passes' : p \in DOMAIN passes /\ passes'[p] = passes[p]
    BY DEF DeleteAccount, Keep
  <2> QED
    BY <2>1, <2>2 DEF NeverOverdrawn
<1>6. CASE Tick \/ UNCHANGED vars
  BY <1>6 DEF Tick, vars, NeverOverdrawn
<1> QED
  BY <1>2, <1>3, <1>4, <1>5, <1>6, NextByAction

LEMMA PassesNeverOverlapStep ==
  ASSUME TypeOK, PassesNeverOverlap, [Next]_vars
  PROVE  PassesNeverOverlap'
<1>1. ASSUME OnlyUseMoves
      PROVE  PassesNeverOverlap'
  BY <1>1 DEF OnlyUseMoves, PassesNeverOverlap, Disjoint
<1>2. CASE AnyReserve
  BY <1>1, <1>2, ReserveEffect
<1>3. CASE AnyRefund
  BY <1>1, <1>3, RefundEffect
<1>4. CASE AnyGrant
  <2>1. PICK u \in User, ref \in PaymentRef :
          UNCHANGED passes
            \/ \E pass \in PassRow :
                 /\ passes' = Insert(passes, ref, pass)
                 /\ pass.user = u
                 /\ \A p \in PassesOf(u) : passes[p].endsAt <= pass.startsAt
    BY <1>4, GrantEffect
  <2>2. ASSUME NEW pass \in PassRow, passes' = Insert(passes, ref, pass), pass.user = u,
               \A p \in PassesOf(u) : passes[p].endsAt <= pass.startsAt
        PROVE  PassesNeverOverlap'
    <3>1. \A p \in DOMAIN passes' :
            (p = ref /\ passes'[p] = pass) \/ (p \in DOMAIN passes /\ passes'[p] = passes[p])
      BY <2>2 DEF Insert
    <3>2. \A p \in DOMAIN passes : passes[p].user = pass.user => Disjoint(passes[p], pass)
                                                                 /\ Disjoint(pass, passes[p])
      BY <2>2 DEF PassesOf, Disjoint
    <3> QED
      BY <3>1, <3>2 DEF PassesNeverOverlap, Disjoint
  <2> QED
    BY <2>1, <2>2 DEF PassesNeverOverlap, Disjoint
<1>5. CASE AnyDeletion
  <2>1. \A p \in DOMAIN passes' : p \in DOMAIN passes /\ passes'[p] = passes[p]
    BY <1>5 DEF AnyDeletion, DeleteAccount, Keep
  <2> QED
    BY <2>1 DEF PassesNeverOverlap, Disjoint
<1>6. CASE Tick \/ UNCHANGED vars
  BY <1>6 DEF Tick, vars, PassesNeverOverlap, Disjoint
<1> QED
  BY <1>2, <1>3, <1>4, <1>5, <1>6, NextByAction

\* A refund rewrites nothing of a reservation but its two refund columns.
LEMMA RefundedRow ==
  ASSUME NEW row \in ReservationRow, NEW given \in 1 .. row.chars
  PROVE  LET new == [[row EXCEPT !.refunded = TRUE] EXCEPT !.refundedChars = given]
         IN  /\ new.refunded = TRUE /\ new.refundedChars = given
             /\ new.user = row.user /\ new.chars = row.chars /\ new.tier = row.tier
             /\ new.taken = row.taken /\ new.pass = row.pass
BY DEF ReservationRow

\* What every reservation is after a step: what it was, what it was and refunded,
\* or new.
LEMMA ReservationsStep ==
  ASSUME TypeOK, [Next]_vars, NEW r \in DOMAIN reservations'
  PROVE  \/ r \in DOMAIN reservations /\ reservations'[r] = reservations[r]
         \/ /\ r \in DOMAIN reservations
            /\ ~reservations[r].refunded /\ reservations'[r].refunded
            /\ reservations'[r].refundedChars \in 1 .. reservations[r].chars
            /\ reservations'[r].chars = reservations[r].chars
            /\ reservations'[r].tier = reservations[r].tier
            /\ reservations'[r].taken = reservations[r].taken
            /\ reservations'[r].pass = reservations[r].pass
         \/ r \notin DOMAIN reservations /\ NewReservation(reservations'[r])
<1>1. CASE AnyReserve
  <2> PICK k \in ReservationId, row \in ReservationRow :
        /\ k \notin DOMAIN reservations
        /\ reservations' = Insert(reservations, k, row)
        /\ NewReservation(row)
    BY <1>1, ReserveEffect
  <2> QED
    BY DEF Insert
<1>2. CASE AnyRefund
  <2> PICK k \in DOMAIN reservations : \E given \in 1 .. reservations[k].chars :
        /\ ~reservations[k].refunded
        /\ reservations' = [reservations EXCEPT ![k].refunded = TRUE,
                                                ![k].refundedChars = given]
    BY <1>2, RefundEffect
  <2> PICK given \in 1 .. reservations[k].chars :
        /\ ~reservations[k].refunded
        /\ reservations' = [reservations EXCEPT ![k].refunded = TRUE,
                                                ![k].refundedChars = given]
    OBVIOUS
  <2>1. reservations[k] \in ReservationRow
    BY DEF TypeOK
  <2>2. CASE r = k
    <3> DEFINE new == [[reservations[k] EXCEPT !.refunded = TRUE] EXCEPT !.refundedChars = given]
    <3>1. reservations'[k] = new
      OBVIOUS
    <3>2. /\ new.refunded = TRUE /\ new.refundedChars = given
          /\ new.chars = reservations[k].chars /\ new.tier = reservations[k].tier
          /\ new.taken = reservations[k].taken /\ new.pass = reservations[k].pass
      BY <2>1, RefundedRow
    <3> HIDE DEF new
    <3>3. /\ reservations'[k].refunded = TRUE /\ reservations'[k].refundedChars = given
          /\ reservations'[k].chars = reservations[k].chars
          /\ reservations'[k].tier = reservations[k].tier
          /\ reservations'[k].taken = reservations[k].taken
          /\ reservations'[k].pass = reservations[k].pass
      BY <3>1, <3>2
    <3>4. ~reservations[k].refunded
      OBVIOUS
    <3> QED
      BY <2>2, <3>3, <3>4, Zenon
  <2>3. CASE r # k
    BY <2>3
  <2> QED
    BY <2>2, <2>3
<1>3. CASE AnyGrant
  BY <1>3, GrantEffect
<1>4. CASE AnyDeletion
  BY <1>4 DEF AnyDeletion, DeleteAccount, Keep
<1>5. CASE Tick \/ UNCHANGED vars
  BY <1>5 DEF Tick, vars
<1> QED
  BY <1>1, <1>2, <1>3, <1>4, <1>5, NextByAction

LEMMA AllOrNothingStep ==
  ASSUME TypeOK, AllOrNothing, [Next]_vars
  PROVE  AllOrNothing'
<1> SUFFICES ASSUME NEW r \in DOMAIN reservations'
             PROVE  /\ TotalUnits(reservations'[r].taken)
                         = ForChars(reservations'[r].chars, reservations'[r].tier)
                    /\ reservations'[r].tier = "natural" => reservations'[r].taken.free = 0
                    /\ reservations'[r].pass = NoPass <=> reservations'[r].taken.pass = 0
  BY DEF AllOrNothing
<1> QED
  BY ReservationsStep DEF AllOrNothing, NewReservation

LEMMA RefundBoundedStep ==
  ASSUME TypeOK, RefundBounded, [Next]_vars
  PROVE  RefundBounded'
<1> SUFFICES ASSUME NEW r \in DOMAIN reservations'
             PROVE  /\ reservations'[r].refundedChars <= reservations'[r].chars
                    /\ ~reservations'[r].refunded => reservations'[r].refundedChars = 0
  BY DEF RefundBounded
<1>1. reservations'[r].chars \in Nat
  BY TypeOKStep DEF TypeOK, ReservationRow
<1>2. CASE r \in DOMAIN reservations /\ reservations'[r] = reservations[r]
  BY <1>2 DEF RefundBounded
<1>3. CASE /\ reservations'[r].refunded
           /\ reservations'[r].refundedChars \in 1 .. reservations'[r].chars
  BY <1>1, <1>3
<1>4. CASE NewReservation(reservations'[r])
  BY <1>1, <1>4 DEF NewReservation
<1> QED
  BY <1>2, <1>3, <1>4, ReservationsStep

LEMMA InductiveInvariant == IInv /\ [Next]_vars => IInv'
BY TypeOKStep, NeverOverdrawnStep, PassesNeverOverlapStep, AllOrNothingStep, RefundBoundedStep
   DEF IInv

LEMMA LedgerInvariant == Spec => []IInv
BY InitInvariant, InductiveInvariant, PTL DEF Spec


-----------------------------------------------------------------------------
(* The theorems. *)

\* No interleaving of reservations, refunds, purchases and deletions overdraws
\* the free tier of a month or a pass: no CHECK of the schema ever fails.
THEOREM NeverOverdrawnInvariant == Spec => []NeverOverdrawn
BY LedgerInvariant, PTL DEF IInv

\* Whatever the catalogue and the order of the confirmations, the passes of a
\* user follow one another.
THEOREM PassesNeverOverlapInvariant == Spec => []PassesNeverOverlap
BY LedgerInvariant, PTL DEF IInv

\* A reservation has taken exactly its price, a natural voice nothing free.
THEOREM AllOrNothingInvariant == Spec => []AllOrNothing
BY LedgerInvariant, PTL DEF IInv

\* The prices of the characters given back and of the others make up the price.
LEMMA PriceSplits ==
  ASSUME NEW chars \in Nat, NEW given \in Nat, given <= chars, NEW tier \in Tiers
  PROVE  /\ ForChars(given, tier) <= ForChars(chars, tier)
         /\ ForChars(chars, tier) - ForChars(given, tier) = ForChars(chars - given, tier)
BY DEF ForChars, Weight, Tiers

LEMMA LessTotal ==
  ASSUME NEW a \in UnitsBySource, NEW b \in UnitsBySource
  PROVE  TotalUnits(Less(a, b)) = TotalUnits(a) - TotalUnits(b)
BY DEF TotalUnits, Less, UnitsBySource

\* What stays charged after a refund is the price of what was synthesised, on
\* the first sources of the debit order: it follows from the inductive invariant
\* and from what splitRefund() computes.
THEOREM RefundKeepsEarliestSourcesInvariant == Spec => []RefundKeepsEarliestSources
<1>1. IInv => RefundKeepsEarliestSources
  <2> SUFFICES ASSUME IInv, NEW r \in DOMAIN reservations
               PROVE  LET row == reservations[r]
                          net == NetTaken(r)
                      IN  /\ TotalUnits(net) = ForChars(row.chars - row.refundedChars, row.tier)
                          /\ net.pass > 0 => net.free = row.taken.free
                          /\ net.credits > 0 => /\ net.free = row.taken.free
                                                /\ net.pass = row.taken.pass
    BY DEF RefundKeepsEarliestSources
  <2> DEFINE row == reservations[r]
             units == ForChars(row.refundedChars, row.tier)
             back == SplitRefund(row.taken, units)
  <2>1. /\ row.chars \in Nat /\ row.refundedChars \in Nat /\ row.tier \in Tiers
        /\ row.taken \in UnitsBySource
    BY DEF IInv, TypeOK, ReservationRow
  <2>2. row.refundedChars <= row.chars /\ (~row.refunded => row.refundedChars = 0)
    BY DEF IInv, RefundBounded
  <2>3. TotalUnits(row.taken) = ForChars(row.chars, row.tier)
    BY DEF IInv, AllOrNothing
  <2>4. CASE ~row.refunded
    <3>1. NetTaken(r) = row.taken
      BY <2>4 DEF NetTaken
    <3>2. row.chars - row.refundedChars = row.chars
      BY <2>1, <2>2, <2>4
    <3> QED
      BY <2>3, <3>1, <3>2
  <2>5. CASE row.refunded
    <3>1. NetTaken(r) = Less(row.taken, back)
      BY <2>5 DEF NetTaken
    <3>2. /\ units \in Nat /\ units <= TotalUnits(row.taken)
          /\ TotalUnits(row.taken) - units = ForChars(row.chars - row.refundedChars, row.tier)
      BY <2>1, <2>2, <2>3, ForCharsType, PriceSplits
    <3>3. back \in UnitsBySource /\ TotalUnits(back) = units
      BY <2>1, <3>2, SplitRefundFits
    <3>4. TotalUnits(Less(row.taken, back))
            = ForChars(row.chars - row.refundedChars, row.tier)
      BY <2>1, <3>2, <3>3, LessTotal
    <3>5. LET net == Less(row.taken, back)
          IN  /\ net.pass > 0 => net.free = row.taken.free
              /\ net.credits > 0 => net.free = row.taken.free /\ net.pass = row.taken.pass
      BY <2>1, <3>2, RefundLeavesFirstSources
    <3> QED
      BY <3>1, <3>4, <3>5
  <2> QED
    BY <2>4, <2>5
<1> QED
  BY <1>1, LedgerInvariant, PTL

\* A redelivered failure cannot give the units back again: no step refunds a
\* refunded reservation, and none rewrites a reservation otherwise.
THEOREM RefundedOnceHolds == Spec => RefundedOnce
<1>1. TypeOK /\ [Next]_vars
        => [ \A r \in DOMAIN reservations \cap DOMAIN reservations' :
               reservations[r].user \in users' =>
                 \/ reservations'[r] = reservations[r]
                 \/ /\ ~reservations[r].refunded /\ reservations'[r].refunded
                    /\ reservations'[r].refundedChars \in 1 .. reservations[r].chars
                    /\ reservations'[r].taken = reservations[r].taken ]_vars
  BY ReservationsStep
<1> QED
  BY <1>1, TypeOKInvariant, PTL DEF Spec, RefundedOnce

-----------------------------------------------------------------------------
(* The balances and the history.  What the inductive invariant adds: the     *)
(* tables are finite, a pass comes with a purchase and is never deleted      *)
(* before the reservations that use it, and those are of its user.           *)

TablesAreFinite == IsFiniteSet(DOMAIN reservations) /\ IsFiniteSet(DOMAIN purchases)

PassesArePurchased == DOMAIN passes \subseteq DOMAIN purchases

ReservedPassesExist ==
  \A r \in DOMAIN reservations :
    LET pass == reservations[r].pass
    IN  pass # NoPass => pass \in DOMAIN passes /\ passes[pass].user = reservations[r].user

History ==
  /\ TablesAreFinite
  /\ PassesArePurchased
  /\ ReservedPassesExist
  /\ BalancesMatchHistory
  /\ JournalExplainsBalance

\* What a reservation holds, by its row.
NetOf(row) ==
  IF row.refunded
  THEN Less(row.taken, SplitRefund(row.taken, ForChars(row.refundedChars, row.tier)))
  ELSE row.taken

LEMMA NetOfRow ==
  /\ HeldFree = [r \in DOMAIN reservations |-> NetOf(reservations[r]).free]
  /\ HeldPass = [r \in DOMAIN reservations |-> NetOf(reservations[r]).pass]
  /\ HeldCredits = [r \in DOMAIN reservations |-> NetOf(reservations[r]).credits]
BY DEF HeldFree, HeldPass, HeldCredits, NetTaken, NetOf

LEMMA NetOfRowNext ==
  /\ HeldFree' = [r \in DOMAIN reservations' |-> NetOf(reservations'[r]).free]
  /\ HeldPass' = [r \in DOMAIN reservations' |-> NetOf(reservations'[r]).pass]
  /\ HeldCredits' = [r \in DOMAIN reservations' |-> NetOf(reservations'[r]).credits]
BY DEF HeldFree, HeldPass, HeldCredits, NetTaken, NetOf

LEMMA NetOfType ==
  ASSUME NEW row \in ReservationRow
  PROVE  /\ NetOf(row).free \in Nat /\ NetOf(row).pass \in Nat /\ NetOf(row).credits \in Nat
         /\ row.taken.free \in Nat /\ row.taken.pass \in Nat /\ row.taken.credits \in Nat
<1> DEFINE units == ForChars(row.refundedChars, row.tier)
           back == SplitRefund(row.taken, units)
<1>1. row.taken \in UnitsBySource /\ row.refundedChars \in Nat /\ row.tier \in Tiers
  BY DEF ReservationRow
<1>2. units \in Nat
  BY <1>1, ForCharsType
<1>3. /\ back \in UnitsBySource
      /\ back.free <= row.taken.free /\ back.pass <= row.taken.pass
      /\ back.credits <= row.taken.credits
  BY <1>1, <1>2, SplitRefundFits
<1> HIDE DEF back
<1>4. /\ Less(row.taken, back).free \in Nat /\ Less(row.taken, back).pass \in Nat
      /\ Less(row.taken, back).credits \in Nat
  BY <1>1, <1>3 DEF Less, UnitsBySource
<1> QED
  BY <1>1, <1>4 DEF NetOf, back, UnitsBySource

-----------------------------------------------------------------------------
(* The journal.                                                              *)

LEMMA MovementsType ==
  ASSUME NEW journal \in Seq(Entry)
  PROVE  \A n \in DOMAIN journal : Movements(journal)[n] \in Int
<1> SUFFICES ASSUME NEW n \in DOMAIN journal PROVE Movements(journal)[n] \in Int
  OBVIOUS
<1>1. journal[n] \in Entry
  OBVIOUS
<1>2. journal[n].units \in Nat
  BY <1>1 DEF Entry
<1>3. Movements(journal)[n] = Signed(journal[n])
  BY DEF Movements
<1> QED
  BY <1>2, <1>3 DEF Signed

LEMMA BalanceAppend ==
  ASSUME NEW journal \in Seq(Entry), NEW e \in Entry
  PROVE  /\ \A n \in 0 .. Len(journal) : Balance(Append(journal, e), n) = Balance(journal, n)
         /\ Balance(Append(journal, e), Len(journal) + 1) = Balance(journal, Len(journal)) + Signed(e)
<1> DEFINE longer == Append(journal, e)
           f == Movements(journal)
           g == Movements(longer)
           len == Len(journal)
<1>0. longer \in Seq(Entry) /\ Len(longer) = len + 1 /\ len \in Nat
      /\ DOMAIN longer = 1 .. len + 1 /\ DOMAIN journal = 1 .. len
      /\ longer[len + 1] = e /\ \A i \in 1 .. len : longer[i] = journal[i]
  OBVIOUS
<1> HIDE DEF longer
<1>1. \A i \in 1 .. len : f[i] \in Int /\ g[i] = f[i]
  BY <1>0, MovementsType DEF Movements
<1>2. g[len + 1] = Signed(e) /\ g[len + 1] \in Int
  <2>1. len + 1 \in DOMAIN longer
    BY <1>0
  <2> QED
    BY <1>0, <2>1, MovementsType DEF Movements
<1>3. ASSUME NEW n \in 0 .. len
      PROVE  Balance(longer, n) = Balance(journal, n)
  <2>1. IsFiniteSet(1 .. n) /\ 1 .. n \subseteq 1 .. len
    BY <1>0, FS_Interval
  <2> HIDE DEF f, g
  <2>2. \A i \in 1 .. n : g[i] = f[i]
    BY <1>1, <2>1
  <2>3. SumFunctionOnSet(g, 1 .. n) = SumFunctionOnSet(f, 1 .. n)
    BY <2>1, <2>2, SumCongruent
  <2> QED
    BY <2>3 DEF Balance, f, g
<1>4. Balance(longer, len + 1) = Balance(journal, len) + Signed(e)
  <2>1. IsFiniteSet(1 .. len)
    BY <1>0, FS_Interval
  <2>2. len + 1 \notin 1 .. len /\ 1 .. len + 1 = (1 .. len) \cup {len + 1}
    BY <1>0
  <2> DEFINE S == 1 .. len
             last == len + 1
  <2>3. /\ IsFiniteSet(S) /\ last \notin S /\ g[last] \in Int
        /\ \A x \in S : f[x] \in Int
        /\ \A x \in S : f[x] = g[x]
    BY <1>1, <1>2, <2>1, <2>2
  <2> HIDE DEF f, g, S, last
  <2>4. SumFunctionOnSet(g, S \cup {last}) = SumFunctionOnSet(f, S) + g[last]
    BY <2>3, SumAdded
  <2> QED
    BY <1>2, <2>2, <2>4 DEF Balance, f, g, S, last
<1> QED
  BY <1>3, <1>4 DEF longer

\* The balance moves by the entry written with it and stays above zero.
LEMMA JournalStep ==
  ASSUME TypeOK, JournalExplainsBalance, NEW u \in User, NEW e \in Entry,
         entries' = [entries EXCEPT ![u] = Append(@, e)],
         wallet' = [wallet EXCEPT ![u] = @ + Signed(e)],
         wallet[u] + Signed(e) >= 0
  PROVE  JournalExplainsBalance'
<1> SUFFICES ASSUME NEW v \in User
             PROVE  /\ Balance(entries'[v], Len(entries'[v])) = wallet'[v]
                    /\ \A n \in 0 .. Len(entries'[v]) : Balance(entries'[v], n) >= 0
  BY DEF JournalExplainsBalance
<1>1. entries[u] \in Seq(Entry) /\ entries \in [User -> Seq(Entry)] /\ wallet \in [User -> Nat]
  BY DEF TypeOK
<1>2. CASE v # u
  <2>1. entries'[v] = entries[v] /\ wallet'[v] = wallet[v]
    BY <1>1, <1>2
  <2> QED
    BY <2>1 DEF JournalExplainsBalance
<1>3. CASE v = u
  <2> DEFINE journal == entries[u]
  <2>1. entries'[v] = Append(journal, e) /\ wallet'[v] = wallet[u] + Signed(e)
    BY <1>1, <1>3
  <2>2. Balance(journal, Len(journal)) = wallet[u] /\ \A n \in 0 .. Len(journal) : Balance(journal, n) >= 0
    BY DEF JournalExplainsBalance
  <2> HIDE DEF journal
  <2>3. journal \in Seq(Entry)
    BY <1>1 DEF journal
  <2>4. /\ \A n \in 0 .. Len(journal) : Balance(Append(journal, e), n) = Balance(journal, n)
        /\ Balance(Append(journal, e), Len(journal) + 1) = Balance(journal, Len(journal)) + Signed(e)
    BY <2>3, BalanceAppend
  <2>5. Len(Append(journal, e)) = Len(journal) + 1 /\ Len(journal) \in Nat
    BY <2>3
  <2>6. ASSUME NEW n \in 0 .. Len(journal) + 1
        PROVE  Balance(Append(journal, e), n) >= 0
    <3>1. n \in 0 .. Len(journal) \/ n = Len(journal) + 1
      BY <2>5
    <3> QED
      BY <2>2, <2>4, <3>1
  <2> QED
    BY <2>1, <2>2, <2>4, <2>5, <2>6
<1> QED
  BY <1>2, <1>3

-----------------------------------------------------------------------------
(* What a reservation and a refund move, counter by counter.                 *)

\* The journal explains the wallet through a movement of units by an entry of
\* this kind, written only when there are units to move.
LEMMA JournalledMove ==
  ASSUME TypeOK, JournalExplainsBalance, NEW u \in User, NEW units \in Nat,
         NEW kind \in {"purchase", "consumption", "refund"}, Journal(u, kind, units),
         wallet' = [wallet EXCEPT ![u] = IF kind = "consumption" THEN @ - units ELSE @ + units],
         kind = "consumption" => units <= wallet[u]
  PROVE  JournalExplainsBalance'
<1> DEFINE e == [kind |-> kind, units |-> units]
<1>1. wallet \in [User -> Nat] /\ wallet[u] \in Nat
  BY DEF TypeOK
<1>2. CASE units = 0
  <2>1. entries' = entries
    BY <1>2 DEF Journal
  <2>2. wallet' = wallet
    BY <1>1, <1>2
  <2> QED
    BY <2>1, <2>2 DEF JournalExplainsBalance
<1>3. CASE units # 0
  <2>1. e \in Entry
    BY <1>3 DEF Entry
  <2>2. Signed(e) = IF kind = "consumption" THEN - units ELSE units
    BY DEF Signed
  <2>3. entries' = [entries EXCEPT ![u] = Append(@, e)]
    BY <1>3 DEF Journal, AppendEntry
  <2>4. wallet' = [wallet EXCEPT ![u] = @ + Signed(e)] /\ wallet[u] + Signed(e) >= 0
    <3>1. wallet[u] + Signed(e) = IF kind = "consumption" THEN wallet[u] - units ELSE wallet[u] + units
      BY <1>1, <2>2
    <3>2. wallet[u] + Signed(e) >= 0
      BY <1>1, <3>1
    <3> QED
      BY <3>1, <3>2
  <2> HIDE DEF e
  <2> QED
    BY <2>1, <2>3, <2>4, JournalStep
<1> QED
  BY <1>2, <1>3

LEMMA ReserveMoves ==
  ASSUME TypeOK, JournalExplainsBalance, AnyReserve
  PROVE  /\ \E r \in ReservationId, row \in ReservationRow :
              /\ r \notin DOMAIN reservations
              /\ reservations' = Insert(reservations, r, row)
              /\ NetOf(row) = row.taken
              /\ freeUsed' = [freeUsed EXCEPT ![row.user][row.period] = @ + row.taken.free]
              /\ wallet' = [wallet EXCEPT ![row.user] = @ - row.taken.credits]
              /\ DOMAIN passes' = DOMAIN passes
              /\ \A p \in DOMAIN passes :
                   /\ passes'[p].user = passes[p].user
                   /\ passes'[p].used = IF p = row.pass THEN passes[p].used + row.taken.pass
                                                        ELSE passes[p].used
              /\ row.pass # NoPass
                   => row.pass \in DOMAIN passes /\ passes[row.pass].user = row.user
         /\ JournalExplainsBalance'
         /\ UNCHANGED purchases
<1> PICK u \in User, r \in ReservationId, tier \in Tiers, chars \in 1 .. MaxChars, at \in Time :
      \E pass \in ActivePass(u, at) \cup {NoPass} : Reserve(u, r, tier, chars, at, pass)
  BY DEF AnyReserve
<1> PICK pass \in ActivePass(u, at) \cup {NoPass} : Reserve(u, r, tier, chars, at, pass)
  OBVIOUS
<1> DEFINE m == PeriodOf[at]
           available == Available(u, m, pass)
           taken == Taken(ForChars(chars, tier), tier, available)
           named == IF taken.pass > 0 THEN pass ELSE NoPass
           row == [user |-> u, period |-> m, tier |-> tier, chars |-> chars,
                   pass |-> named, taken |-> taken,
                   refunded |-> FALSE, refundedChars |-> 0]
<1>1. m \in Period
  BY DEF Period
<1>2. chars \in Nat \ {0}
  BY LedgerAssumption
<1>3. ForChars(chars, tier) \in Nat
  BY <1>2, ForCharsType
<1>4. available \in UnitsBySource
  BY <1>1, AvailableType
<1>5. taken \in UnitsBySource /\ taken.credits <= available.credits
  BY <1>3, <1>4, TakenFits
<1>6. /\ taken.free \in Nat /\ taken.pass \in Nat /\ taken.credits \in Nat
      /\ taken.credits <= wallet[u]
  BY <1>5 DEF UnitsBySource, Available
<1>7. pass # NoPass => pass \in DOMAIN passes /\ passes[pass].user = u
  BY DEF ActivePass, Running, PassesOf
<1>8. pass \in PaymentRef \cup {NoPass} /\ NoPass \notin DOMAIN passes
  BY <1>7, LedgerAssumption DEF TypeOK
<1>9. /\ Debit(u, r, tier, chars, at, pass, available)
      /\ UNCHANGED purchases
      /\ r \notin DOMAIN reservations
  BY DEF Reserve
<1> HIDE DEF taken, m, available
<1>10. /\ reservations' = Insert(reservations, r, row)
       /\ freeUsed' = [freeUsed EXCEPT ![u][m] = @ + taken.free]
       /\ passes' = [p \in DOMAIN passes |->
                       IF p = pass THEN [passes[p] EXCEPT !.used = @ + taken.pass] ELSE passes[p]]
       /\ wallet' = [wallet EXCEPT ![u] = @ - taken.credits]
       /\ Journal(u, "consumption", taken.credits)
  BY <1>9 DEF Debit, taken, m, available
<1>11. ASSUME NEW p \in DOMAIN passes
       PROVE  /\ passes'[p].user = passes[p].user
              /\ passes'[p].used = IF p = named THEN passes[p].used + taken.pass
                                                ELSE passes[p].used
  <2>1. passes[p] \in PassRow
    BY DEF TypeOK
  <2>2. passes[p].used \in Nat
    BY <2>1 DEF PassRow
  <2>3. CASE p # pass
    <3>1. passes'[p] = passes[p]
      BY <1>10, <2>3
    <3> QED
      BY <1>8, <2>3, <3>1
  <2>4. CASE p = pass
    <3>1. passes'[p] = [passes[p] EXCEPT !.used = passes[p].used + taken.pass]
      BY <1>10, <2>4
    <3>2. passes'[p].used = passes[p].used + taken.pass /\ passes'[p].user = passes[p].user
      BY <1>6, <2>1, <2>2, <3>1, PassRowUsed
    <3>3. p # named => taken.pass = 0
      BY <1>6, <2>4
    <3> HIDE DEF named
    <3> QED
      BY <2>2, <3>2, <3>3
  <2> QED
    BY <2>3, <2>4
<1>12. DOMAIN passes' = DOMAIN passes
  BY <1>10
<1>13. named # NoPass => named \in DOMAIN passes /\ passes[named].user = u
  BY <1>7
<1>14. named \in PaymentRef \cup {NoPass}
  BY <1>8
<1> HIDE DEF named
<1>15. row \in ReservationRow
  BY <1>1, <1>2, <1>5, <1>14 DEF ReservationRow
<1>16. /\ row.user = u /\ row.period = m /\ row.pass = named /\ row.taken = taken
       /\ NetOf(row) = row.taken
  BY DEF NetOf
<1>17. JournalExplainsBalance'
  <2>1. wallet' = [wallet EXCEPT ![u] = IF "consumption" = "consumption" THEN @ - taken.credits
                                                                        ELSE @ + taken.credits]
    BY <1>10
  <2> QED
    BY <1>6, <1>10, <2>1, JournalledMove
<1> HIDE DEF row
<1>18. /\ r \notin DOMAIN reservations
       /\ reservations' = Insert(reservations, r, row)
       /\ NetOf(row) = row.taken
       /\ freeUsed' = [freeUsed EXCEPT ![row.user][row.period] = @ + row.taken.free]
       /\ wallet' = [wallet EXCEPT ![row.user] = @ - row.taken.credits]
       /\ DOMAIN passes' = DOMAIN passes
       /\ \A p \in DOMAIN passes :
            /\ passes'[p].user = passes[p].user
            /\ passes'[p].used = IF p = row.pass THEN passes[p].used + row.taken.pass
                                                 ELSE passes[p].used
       /\ row.pass # NoPass => row.pass \in DOMAIN passes /\ passes[row.pass].user = row.user
  BY <1>9, <1>10, <1>11, <1>12, <1>13, <1>16 DEF row
<1> QED
  BY <1>9, <1>15, <1>17, <1>18

LEMMA RefundMoves ==
  ASSUME TypeOK, JournalExplainsBalance, AnyRefund
  PROVE  /\ \E r \in DOMAIN reservations, row \in ReservationRow :
              LET old == reservations[r]
              IN  /\ reservations' = [reservations EXCEPT ![r] = row]
                  /\ row.user = old.user /\ row.period = old.period /\ row.pass = old.pass
                  /\ NetOf(old) = old.taken
                  /\ \E free \in 0 .. old.taken.free, pass \in 0 .. old.taken.pass,
                        credits \in 0 .. old.taken.credits :
                       /\ NetOf(row).free = old.taken.free - free
                       /\ NetOf(row).pass = old.taken.pass - pass
                       /\ NetOf(row).credits = old.taken.credits - credits
                       /\ freeUsed' = [freeUsed EXCEPT ![row.user][row.period] = Floor(@, free)]
                       /\ wallet' = [wallet EXCEPT ![row.user] = @ + credits]
                       /\ DOMAIN passes' = DOMAIN passes
                       /\ \A p \in DOMAIN passes :
                            /\ passes'[p].user = passes[p].user
                            /\ passes'[p].used = IF p = row.pass THEN Floor(passes[p].used, pass)
                                                                 ELSE passes[p].used
         /\ JournalExplainsBalance'
         /\ UNCHANGED purchases
<1> PICK r \in ReservationId, chars \in 1 .. MaxChars : Refund(r, chars)
  BY DEF AnyRefund
<1> DEFINE old == reservations[r]
           given == Lesser(chars, old.chars)
           back == SplitRefund(old.taken, ForChars(given, old.tier))
           row == [[old EXCEPT !.refunded = TRUE] EXCEPT !.refundedChars = given]
<1>1. r \in DOMAIN reservations /\ old \in ReservationRow
  BY DEF Refund, TypeOK
<1>2. /\ old.user \in User /\ old.period \in Period /\ old.tier \in Tiers
      /\ old.taken \in UnitsBySource /\ old.chars \in Nat
  BY <1>1 DEF ReservationRow
<1>3. given \in Nat
  <2>1. chars \in Nat
    BY LedgerAssumption
  <2> QED
    BY <1>2, <2>1, LesserIsLeast
<1>4. ForChars(given, old.tier) \in Nat
  BY <1>2, <1>3, ForCharsType
<1>5. /\ back \in UnitsBySource
      /\ back.free <= old.taken.free /\ back.pass <= old.taken.pass
      /\ back.credits <= old.taken.credits
  BY <1>2, <1>4, SplitRefundFits
<1>6. /\ back.free \in 0 .. old.taken.free /\ back.pass \in 0 .. old.taken.pass
      /\ back.credits \in 0 .. old.taken.credits
      /\ back.free \in Nat /\ back.pass \in Nat /\ back.credits \in Nat
  <2> HIDE DEF old, back
  <2> QED
    BY <1>2, <1>5 DEF UnitsBySource
<1>7. GiveBack(r, old, given) /\ UNCHANGED purchases /\ ~old.refunded
  BY DEF Refund
<1> HIDE DEF given
<1>8. /\ reservations' = [reservations EXCEPT ![r].refunded = TRUE, ![r].refundedChars = given]
      /\ freeUsed' = [freeUsed EXCEPT ![old.user][old.period] = Floor(@, back.free)]
      /\ passes' = [p \in DOMAIN passes |->
                      IF p = old.pass THEN [passes[p] EXCEPT !.used = Floor(@, back.pass)]
                                      ELSE passes[p]]
      /\ wallet' = [wallet EXCEPT ![old.user] = @ + back.credits]
      /\ Journal(old.user, "refund", back.credits)
  BY <1>7 DEF GiveBack, RefundPeriod
<1>9. reservations' = [reservations EXCEPT ![r] = row]
  BY <1>8
<1>10. row \in ReservationRow
  BY <1>1, <1>3 DEF ReservationRow
<1>11. /\ row.user = old.user /\ row.period = old.period /\ row.pass = old.pass
       /\ row.taken = old.taken /\ row.tier = old.tier
       /\ row.refunded = TRUE /\ row.refundedChars = given
  <2> HIDE DEF old
  <2> QED
    BY <1>1 DEF ReservationRow
<1>12. NetOf(old) = old.taken
  BY <1>7 DEF NetOf
<1>13. /\ NetOf(row).free = old.taken.free - back.free
       /\ NetOf(row).pass = old.taken.pass - back.pass
       /\ NetOf(row).credits = old.taken.credits - back.credits
  <2> HIDE DEF row, old
  <2> QED
    BY <1>11 DEF NetOf, Less
<1>14. ASSUME NEW p \in DOMAIN passes
       PROVE  /\ passes'[p].user = passes[p].user
              /\ passes'[p].used = IF p = row.pass THEN Floor(passes[p].used, back.pass)
                                                   ELSE passes[p].used
  <2>1. passes[p] \in PassRow
    BY DEF TypeOK
  <2>2. Floor(passes[p].used, back.pass) \in Nat
    BY <1>6, <2>1 DEF Floor, PassRow
  <2>3. CASE p # old.pass
    <3>1. passes'[p] = passes[p]
      BY <1>8, <2>3
    <3> HIDE DEF row, old
    <3> QED
      BY <1>11, <2>3, <3>1
  <2>4. CASE p = old.pass
    <3>1. passes'[p] = [passes[p] EXCEPT !.used = Floor(passes[p].used, back.pass)]
      BY <1>8, <2>4
    <3>2. passes'[p].used = Floor(passes[p].used, back.pass) /\ passes'[p].user = passes[p].user
      BY <2>1, <2>2, <3>1, PassRowUsed
    <3> HIDE DEF row, old
    <3> QED
      BY <1>11, <2>4, <3>2
  <2> QED
    BY <2>3, <2>4
<1>15. DOMAIN passes' = DOMAIN passes
  BY <1>8
<1> HIDE DEF back, row
<1>16. JournalExplainsBalance'
  <2>1. wallet' = [wallet EXCEPT ![old.user] = IF "refund" = "consumption" THEN @ - back.credits
                                                                          ELSE @ + back.credits]
    BY <1>8
  <2> HIDE DEF old
  <2>2. "refund" # "consumption"
    OBVIOUS
  <2> QED
    BY <1>2, <1>6, <1>8, <2>1, <2>2, JournalledMove
<1> HIDE DEF old
<1>17. /\ freeUsed' = [freeUsed EXCEPT ![row.user][row.period] = Floor(@, back.free)]
       /\ wallet' = [wallet EXCEPT ![row.user] = @ + back.credits]
  BY <1>8, <1>11
<1>18. /\ row.user = reservations[r].user /\ row.period = reservations[r].period
       /\ row.pass = reservations[r].pass /\ old = reservations[r]
  BY <1>11 DEF old
<1> QED
  BY <1>1, <1>6, <1>7, <1>9, <1>10, <1>12, <1>13, <1>14, <1>15, <1>16, <1>17, <1>18

-----------------------------------------------------------------------------
(* The sums over the reservations, before and after.                         *)

LEMMA HeldType ==
  ASSUME TypeOK
  PROVE  \A r \in DOMAIN reservations :
           HeldFree[r] \in Nat /\ HeldPass[r] \in Nat /\ HeldCredits[r] \in Nat
BY NetOfRow, NetOfType DEF TypeOK

LEMMA SelectionsAreFinite ==
  ASSUME TablesAreFinite
  PROVE  /\ \A u, m : IsFiniteSet(OfMonth(u, m)) /\ OfMonth(u, m) \subseteq DOMAIN reservations
         /\ \A u : IsFiniteSet(OfUser(u)) /\ OfUser(u) \subseteq DOMAIN reservations
         /\ \A p : IsFiniteSet(OfPass(p)) /\ OfPass(p) \subseteq DOMAIN reservations
         /\ \A u : /\ IsFiniteSet(CreditPurchases(u))
                   /\ CreditPurchases(u) \subseteq DOMAIN purchases
<1>1. /\ \A u, m : OfMonth(u, m) \subseteq DOMAIN reservations
      /\ \A u : OfUser(u) \subseteq DOMAIN reservations
      /\ \A p : OfPass(p) \subseteq DOMAIN reservations
      /\ \A u : CreditPurchases(u) \subseteq DOMAIN purchases
  BY DEF OfMonth, OfUser, OfPass, CreditPurchases
<1> QED
  BY <1>1, FS_Subset DEF TablesAreFinite

\* A table with one more row: a selection that leaves it out keeps its sum.
LEMMA SumOfMoreRows ==
  ASSUME NEW S, IsFiniteSet(S), NEW f, NEW g, NEW e, e \notin S,
         \A k \in S : f[k] \in Int, \A k \in S : f[k] = g[k], g[e] \in Int
  PROVE  /\ SumFunctionOnSet(f, S) \in Int
         /\ SumFunctionOnSet(g, S) = SumFunctionOnSet(f, S)
         /\ SumFunctionOnSet(g, S \cup {e}) = SumFunctionOnSet(f, S) + g[e]
<1>1. SumFunctionOnSet(f, S) \in Int
  BY SumType
<1>2. SumFunctionOnSet(f, S) = SumFunctionOnSet(g, S)
  BY SumCongruent
<1>3. SumFunctionOnSet(g, S \cup {e}) = SumFunctionOnSet(f, S) + g[e]
  BY SumAdded, SMTT(60)
<1> QED
  BY <1>1, <1>2, <1>3

\* A new reservation adds to the sums of its user, of its month and of its pass.
LEMMA ReserveSums ==
  ASSUME TypeOK, TypeOK', TablesAreFinite, NEW r, NEW row \in ReservationRow,
         r \notin DOMAIN reservations, reservations' = Insert(reservations, r, row)
  PROVE  /\ \A u, m : SumFunctionOnSet(HeldFree, OfMonth(u, m))'
                        = SumFunctionOnSet(HeldFree, OfMonth(u, m))
                          + (IF u = row.user /\ m = row.period THEN NetOf(row).free ELSE 0)
         /\ \A p : SumFunctionOnSet(HeldPass, OfPass(p))'
                     = SumFunctionOnSet(HeldPass, OfPass(p))
                       + (IF p = row.pass THEN NetOf(row).pass ELSE 0)
         /\ \A u : SumFunctionOnSet(HeldCredits, OfUser(u))'
                     = SumFunctionOnSet(HeldCredits, OfUser(u))
                       + (IF u = row.user THEN NetOf(row).credits ELSE 0)
<1>1. /\ DOMAIN reservations' = DOMAIN reservations \cup {r}
      /\ reservations'[r] = row
      /\ \A k \in DOMAIN reservations : reservations'[k] = reservations[k]
  BY DEF Insert
<1>2. /\ HeldFree'[r] = NetOf(row).free /\ HeldPass'[r] = NetOf(row).pass
      /\ HeldCredits'[r] = NetOf(row).credits
      /\ \A k \in DOMAIN reservations :
           /\ HeldFree'[k] = HeldFree[k] /\ HeldPass'[k] = HeldPass[k]
           /\ HeldCredits'[k] = HeldCredits[k]
  BY <1>1, NetOfRow, NetOfRowNext
<1>3. /\ HeldFree'[r] \in Int /\ HeldPass'[r] \in Int /\ HeldCredits'[r] \in Int
      /\ \A k \in DOMAIN reservations :
           HeldFree[k] \in Int /\ HeldPass[k] \in Int /\ HeldCredits[k] \in Int
  BY <1>2, HeldType, NetOfType
<1> DEFINE f1 == HeldFree     g1 == HeldFree'
           f2 == HeldPass     g2 == HeldPass'
           f3 == HeldCredits  g3 == HeldCredits'
           D == DOMAIN reservations
<1>4. /\ r \notin D /\ g1[r] \in Int /\ g2[r] \in Int /\ g3[r] \in Int
      /\ \A k \in D : f1[k] \in Int
      /\ \A k \in D : f2[k] \in Int
      /\ \A k \in D : f3[k] \in Int
      /\ \A k \in D : f1[k] = g1[k]
      /\ \A k \in D : f2[k] = g2[k]
      /\ \A k \in D : f3[k] = g3[k]
  BY <1>2, <1>3
<1>5. /\ \A u, m : OfMonth(u, m)' = OfMonth(u, m)
                                     \cup (IF u = row.user /\ m = row.period THEN {r} ELSE {})
      /\ \A p : OfPass(p)' = OfPass(p) \cup (IF p = row.pass THEN {r} ELSE {})
      /\ \A u : OfUser(u)' = OfUser(u) \cup (IF u = row.user THEN {r} ELSE {})
  BY <1>1 DEF OfMonth, OfPass, OfUser
<1>6. ASSUME NEW u, NEW m
      PROVE  SumFunctionOnSet(HeldFree', OfMonth(u, m)')
               = SumFunctionOnSet(HeldFree, OfMonth(u, m))
                 + (IF u = row.user /\ m = row.period THEN NetOf(row).free ELSE 0)
  <2> DEFINE S == OfMonth(u, m)
  <2>1. IsFiniteSet(S) /\ S \subseteq D
    BY SelectionsAreFinite
  <2>2. /\ SumFunctionOnSet(f1, S) \in Int
        /\ SumFunctionOnSet(g1, S) = SumFunctionOnSet(f1, S)
        /\ SumFunctionOnSet(g1, S \cup {r}) = SumFunctionOnSet(f1, S) + g1[r]
    <3>1. /\ r \notin S /\ g1[r] \in Int
          /\ \A k \in S : f1[k] \in Int
          /\ \A k \in S : f1[k] = g1[k]
      BY <1>4, <2>1
    <3> HIDE DEF S, f1, g1
    <3> QED
      BY <2>1, <3>1, SumOfMoreRows
  <2>3. CASE u = row.user /\ m = row.period
    <3>1. OfMonth(u, m)' = S \cup {r}
      BY <1>5, <2>3
    <3> QED
      BY <1>2, <2>2, <2>3, <3>1
  <2>4. CASE ~ (u = row.user /\ m = row.period)
    <3>1. OfMonth(u, m)' = S
      BY <1>5, <2>4
    <3>2. SumFunctionOnSet(f1, S) = SumFunctionOnSet(f1, S) + 0
      BY <2>2
    <3> QED
      BY <2>2, <2>4, <3>1, <3>2
  <2> QED
    BY <2>3, <2>4
<1>7. ASSUME NEW p
      PROVE  SumFunctionOnSet(HeldPass', OfPass(p)')
               = SumFunctionOnSet(HeldPass, OfPass(p))
                 + (IF p = row.pass THEN NetOf(row).pass ELSE 0)
  <2> DEFINE S == OfPass(p)
  <2>1. IsFiniteSet(S) /\ S \subseteq D
    BY SelectionsAreFinite
  <2>2. /\ SumFunctionOnSet(f2, S) \in Int
        /\ SumFunctionOnSet(g2, S) = SumFunctionOnSet(f2, S)
        /\ SumFunctionOnSet(g2, S \cup {r}) = SumFunctionOnSet(f2, S) + g2[r]
    <3>1. /\ r \notin S /\ g2[r] \in Int
          /\ \A k \in S : f2[k] \in Int
          /\ \A k \in S : f2[k] = g2[k]
      BY <1>4, <2>1
    <3> HIDE DEF S, f2, g2
    <3> QED
      BY <2>1, <3>1, SumOfMoreRows
  <2>3. CASE p = row.pass
    <3>1. OfPass(p)' = S \cup {r}
      BY <1>5, <2>3
    <3> QED
      BY <1>2, <2>2, <2>3, <3>1
  <2>4. CASE p # row.pass
    <3>1. OfPass(p)' = S
      BY <1>5, <2>4
    <3>2. SumFunctionOnSet(f2, S) = SumFunctionOnSet(f2, S) + 0
      BY <2>2
    <3> QED
      BY <2>2, <2>4, <3>1, <3>2
  <2> QED
    BY <2>3, <2>4
<1>8. ASSUME NEW u
      PROVE  SumFunctionOnSet(HeldCredits', OfUser(u)')
               = SumFunctionOnSet(HeldCredits, OfUser(u))
                 + (IF u = row.user THEN NetOf(row).credits ELSE 0)
  <2> DEFINE S == OfUser(u)
  <2>1. IsFiniteSet(S) /\ S \subseteq D
    BY SelectionsAreFinite
  <2>2. /\ SumFunctionOnSet(f3, S) \in Int
        /\ SumFunctionOnSet(g3, S) = SumFunctionOnSet(f3, S)
        /\ SumFunctionOnSet(g3, S \cup {r}) = SumFunctionOnSet(f3, S) + g3[r]
    <3>1. /\ r \notin S /\ g3[r] \in Int
          /\ \A k \in S : f3[k] \in Int
          /\ \A k \in S : f3[k] = g3[k]
      BY <1>4, <2>1
    <3> HIDE DEF S, f3, g3
    <3> QED
      BY <2>1, <3>1, SumOfMoreRows
  <2>3. CASE u = row.user
    <3>1. OfUser(u)' = S \cup {r}
      BY <1>5, <2>3
    <3> QED
      BY <1>2, <2>2, <2>3, <3>1
  <2>4. CASE u # row.user
    <3>1. OfUser(u)' = S
      BY <1>5, <2>4
    <3>2. SumFunctionOnSet(f3, S) = SumFunctionOnSet(f3, S) + 0
      BY <2>2
    <3> QED
      BY <2>2, <2>4, <3>1, <3>2
  <2> QED
    BY <2>3, <2>4
<1> QED
  BY <1>6, <1>7, <1>8

\* A refund moves the sums its reservation is counted in, by what it gives back.
LEMMA RefundSums ==
  ASSUME TypeOK, TypeOK', TablesAreFinite, NEW r \in DOMAIN reservations, NEW row \in ReservationRow,
         reservations' = [reservations EXCEPT ![r] = row],
         row.user = reservations[r].user, row.period = reservations[r].period,
         row.pass = reservations[r].pass
  PROVE  /\ \A u, m : SumFunctionOnSet(HeldFree, OfMonth(u, m))'
                        = SumFunctionOnSet(HeldFree, OfMonth(u, m))
                          + (IF u = row.user /\ m = row.period
                             THEN NetOf(row).free - HeldFree[r] ELSE 0)
         /\ \A p : SumFunctionOnSet(HeldPass, OfPass(p))'
                     = SumFunctionOnSet(HeldPass, OfPass(p))
                       + (IF p = row.pass THEN NetOf(row).pass - HeldPass[r] ELSE 0)
         /\ \A u : SumFunctionOnSet(HeldCredits, OfUser(u))'
                     = SumFunctionOnSet(HeldCredits, OfUser(u))
                       + (IF u = row.user THEN NetOf(row).credits - HeldCredits[r] ELSE 0)
<1>1. /\ DOMAIN reservations' = DOMAIN reservations
      /\ reservations'[r] = row
      /\ \A k \in DOMAIN reservations : k # r => reservations'[k] = reservations[k]
  OBVIOUS
<1>2. /\ HeldFree'[r] = NetOf(row).free /\ HeldPass'[r] = NetOf(row).pass
      /\ HeldCredits'[r] = NetOf(row).credits
      /\ \A k \in DOMAIN reservations : k # r =>
           /\ HeldFree'[k] = HeldFree[k] /\ HeldPass'[k] = HeldPass[k]
           /\ HeldCredits'[k] = HeldCredits[k]
  BY <1>1, NetOfRow, NetOfRowNext
<1>3. \A k \in DOMAIN reservations :
        /\ HeldFree[k] \in Int /\ HeldPass[k] \in Int /\ HeldCredits[k] \in Int
        /\ HeldFree'[k] \in Int /\ HeldPass'[k] \in Int /\ HeldCredits'[k] \in Int
  BY <1>1, <1>2, HeldType, NetOfType
<1>4. /\ \A u, m : /\ OfMonth(u, m)' = OfMonth(u, m)
                   /\ r \in OfMonth(u, m) <=> u = row.user /\ m = row.period
      /\ \A p : OfPass(p)' = OfPass(p) /\ (r \in OfPass(p) <=> p = row.pass)
      /\ \A u : OfUser(u)' = OfUser(u) /\ (r \in OfUser(u) <=> u = row.user)
  BY <1>1 DEF OfMonth, OfPass, OfUser
<1>5. ASSUME NEW u, NEW m
      PROVE  SumFunctionOnSet(HeldFree', OfMonth(u, m)')
               = SumFunctionOnSet(HeldFree, OfMonth(u, m))
                 + (IF u = row.user /\ m = row.period THEN NetOf(row).free - HeldFree[r] ELSE 0)
  <2> DEFINE S == OfMonth(u, m)
  <2>1. /\ IsFiniteSet(S)
        /\ \A k \in S : HeldFree[k] \in Int /\ HeldFree'[k] \in Int
                        /\ (k # r => HeldFree'[k] = HeldFree[k])
    BY <1>2, <1>3, SelectionsAreFinite
  <2>2. SumFunctionOnSet(HeldFree', S)
          = SumFunctionOnSet(HeldFree, S) + (IF r \in S THEN HeldFree'[r] - HeldFree[r] ELSE 0)
    <3> HIDE DEF S
    <3> QED
      BY <2>1, SumMoved
  <2> QED
    BY <1>2, <1>4, <2>2
<1>6. ASSUME NEW p
      PROVE  SumFunctionOnSet(HeldPass', OfPass(p)')
               = SumFunctionOnSet(HeldPass, OfPass(p))
                 + (IF p = row.pass THEN NetOf(row).pass - HeldPass[r] ELSE 0)
  <2> DEFINE S == OfPass(p)
  <2>1. /\ IsFiniteSet(S)
        /\ \A k \in S : HeldPass[k] \in Int /\ HeldPass'[k] \in Int
                        /\ (k # r => HeldPass'[k] = HeldPass[k])
    BY <1>2, <1>3, SelectionsAreFinite
  <2>2. SumFunctionOnSet(HeldPass', S)
          = SumFunctionOnSet(HeldPass, S) + (IF r \in S THEN HeldPass'[r] - HeldPass[r] ELSE 0)
    <3> HIDE DEF S
    <3> QED
      BY <2>1, SumMoved
  <2> QED
    BY <1>2, <1>4, <2>2
<1>7. ASSUME NEW u
      PROVE  SumFunctionOnSet(HeldCredits', OfUser(u)')
               = SumFunctionOnSet(HeldCredits, OfUser(u))
                 + (IF u = row.user THEN NetOf(row).credits - HeldCredits[r] ELSE 0)
  <2> DEFINE S == OfUser(u)
  <2>1. /\ IsFiniteSet(S)
        /\ \A k \in S : HeldCredits[k] \in Int /\ HeldCredits'[k] \in Int
                        /\ (k # r => HeldCredits'[k] = HeldCredits[k])
    BY <1>2, <1>3, SelectionsAreFinite
  <2>2. SumFunctionOnSet(HeldCredits', S)
          = SumFunctionOnSet(HeldCredits, S)
            + (IF r \in S THEN HeldCredits'[r] - HeldCredits[r] ELSE 0)
    <3> HIDE DEF S
    <3> QED
      BY <2>1, SumMoved
  <2> QED
    BY <1>2, <1>4, <2>2
<1> QED
  BY <1>5, <1>6, <1>7

-----------------------------------------------------------------------------
(* Every transaction keeps the counters equal to the history.                *)

LEMMA NotAPass == TypeOK => NoPass \notin DOMAIN passes
BY LedgerAssumption DEF TypeOK

LEMMA ReserveHistory ==
  ASSUME TypeOK, TypeOK', History, AnyReserve
  PROVE  History'
<1>1. JournalExplainsBalance' /\ UNCHANGED purchases
  BY ReserveMoves DEF History
<1> PICK r \in ReservationId, row \in ReservationRow :
      /\ r \notin DOMAIN reservations
      /\ reservations' = Insert(reservations, r, row)
      /\ NetOf(row) = row.taken
      /\ freeUsed' = [freeUsed EXCEPT ![row.user][row.period] = @ + row.taken.free]
      /\ wallet' = [wallet EXCEPT ![row.user] = @ - row.taken.credits]
      /\ DOMAIN passes' = DOMAIN passes
      /\ \A p \in DOMAIN passes :
           /\ passes'[p].user = passes[p].user
           /\ passes'[p].used = IF p = row.pass THEN passes[p].used + row.taken.pass
                                                ELSE passes[p].used
      /\ row.pass # NoPass => row.pass \in DOMAIN passes /\ passes[row.pass].user = row.user
  BY ReserveMoves DEF History
<1>2. /\ row.user \in User /\ row.period \in Period
      /\ row.taken.free \in Nat /\ row.taken.pass \in Nat /\ row.taken.credits \in Nat
  BY NetOfType DEF ReservationRow
<1>3. /\ DOMAIN reservations' = DOMAIN reservations \cup {r} /\ reservations'[r] = row
      /\ \A k \in DOMAIN reservations : reservations'[k] = reservations[k]
  BY DEF Insert
<1>4. TablesAreFinite'
  BY <1>1, <1>3, FS_AddElement DEF History, TablesAreFinite
<1>5. PassesArePurchased'
  BY <1>1 DEF History, PassesArePurchased
<1>6. ReservedPassesExist'
  BY <1>3 DEF History, ReservedPassesExist
<1>7. /\ \A u, m : SumFunctionOnSet(HeldFree, OfMonth(u, m))'
                     = SumFunctionOnSet(HeldFree, OfMonth(u, m))
                       + (IF u = row.user /\ m = row.period THEN row.taken.free ELSE 0)
      /\ \A p : SumFunctionOnSet(HeldPass, OfPass(p))'
                  = SumFunctionOnSet(HeldPass, OfPass(p))
                    + (IF p = row.pass THEN row.taken.pass ELSE 0)
      /\ \A u : SumFunctionOnSet(HeldCredits, OfUser(u))'
                  = SumFunctionOnSet(HeldCredits, OfUser(u))
                    + (IF u = row.user THEN row.taken.credits ELSE 0)
  BY ReserveSums DEF History
<1>8. FreeMatchesReservations'
  <2> SUFFICES ASSUME NEW u \in User, NEW m \in Period
               PROVE  freeUsed'[u][m] = SumFunctionOnSet(HeldFree, OfMonth(u, m))'
    BY DEF FreeMatchesReservations
  <2>1. freeUsed \in [User -> [Period -> Nat]] /\ freeUsed[u][m] \in Nat
    BY DEF TypeOK
  <2>2. freeUsed[u][m] = SumFunctionOnSet(HeldFree, OfMonth(u, m))
    BY DEF History, BalancesMatchHistory, FreeMatchesReservations
  <2>3. freeUsed'[u][m] = freeUsed[u][m]
                          + (IF u = row.user /\ m = row.period THEN row.taken.free ELSE 0)
    BY <1>2, <2>1
  <2> QED
    BY <1>7, <2>2, <2>3
<1>9. PassMatchesReservations'
  <2> SUFFICES ASSUME NEW p \in DOMAIN passes
               PROVE  passes'[p].used = SumFunctionOnSet(HeldPass, OfPass(p))'
    BY DEF PassMatchesReservations
  <2>1. passes[p].used \in Nat
    BY DEF TypeOK, PassRow
  <2>2. passes[p].used = SumFunctionOnSet(HeldPass, OfPass(p))
    BY DEF History, BalancesMatchHistory, PassMatchesReservations
  <2>3. passes'[p].used = passes[p].used + (IF p = row.pass THEN row.taken.pass ELSE 0)
    BY <1>2, <2>1
  <2> QED
    BY <1>7, <2>2, <2>3
<1>10. WalletMatchesHistory'
  <2> SUFFICES ASSUME NEW u \in User
               PROVE  wallet'[u] + SumFunctionOnSet(HeldCredits, OfUser(u))'
                        = SumFunctionOnSet(UnitsBought, CreditPurchases(u))'
    BY DEF WalletMatchesHistory
  <2> DEFINE heldBefore == SumFunctionOnSet(HeldCredits, OfUser(u))
             bought == SumFunctionOnSet(UnitsBought, CreditPurchases(u))
             spent == IF u = row.user THEN row.taken.credits ELSE 0
  <2>1. wallet \in [User -> Nat] /\ wallet[u] \in Nat /\ wallet'[u] \in Nat /\ spent \in Nat
    BY <1>2 DEF TypeOK
  <2>2. wallet[u] + heldBefore = bought
    BY DEF History, BalancesMatchHistory, WalletMatchesHistory
  <2>3. wallet'[u] = wallet[u] - spent
    BY <1>2, <2>1
  <2>4. SumFunctionOnSet(HeldCredits, OfUser(u))' = heldBefore + spent
    BY <1>7
  <2>5. SumFunctionOnSet(UnitsBought, CreditPurchases(u))' = bought
    BY <1>1 DEF UnitsBought, CreditPurchases
  <2>6. heldBefore \in Int
    <3>1. \A k \in OfUser(u) : HeldCredits[k] \in Int
      BY HeldType, SelectionsAreFinite DEF History
    <3> QED
      BY <3>1, SumType, SelectionsAreFinite DEF History
  <2> HIDE DEF heldBefore, bought, spent
  <2> QED
    BY <2>1, <2>2, <2>3, <2>4, <2>5, <2>6
<1> QED
  BY <1>1, <1>4, <1>5, <1>6, <1>8, <1>9, <1>10 DEF History, BalancesMatchHistory

LEMMA RefundHistory ==
  ASSUME TypeOK, TypeOK', History, AnyRefund
  PROVE  History'
<1>1. JournalExplainsBalance' /\ UNCHANGED purchases
  BY RefundMoves DEF History
<1> PICK r \in DOMAIN reservations, row \in ReservationRow :
      /\ reservations' = [reservations EXCEPT ![r] = row]
      /\ row.user = reservations[r].user /\ row.period = reservations[r].period
      /\ row.pass = reservations[r].pass
      /\ NetOf(reservations[r]) = reservations[r].taken
      /\ \E free \in 0 .. reservations[r].taken.free, pass \in 0 .. reservations[r].taken.pass,
            credits \in 0 .. reservations[r].taken.credits :
           /\ NetOf(row).free = reservations[r].taken.free - free
           /\ NetOf(row).pass = reservations[r].taken.pass - pass
           /\ NetOf(row).credits = reservations[r].taken.credits - credits
           /\ freeUsed' = [freeUsed EXCEPT ![row.user][row.period] = Floor(@, free)]
           /\ wallet' = [wallet EXCEPT ![row.user] = @ + credits]
           /\ DOMAIN passes' = DOMAIN passes
           /\ \A p \in DOMAIN passes :
                /\ passes'[p].user = passes[p].user
                /\ passes'[p].used = IF p = row.pass THEN Floor(passes[p].used, pass)
                                                     ELSE passes[p].used
  BY RefundMoves DEF History
<1> DEFINE taken == reservations[r].taken
<1> PICK free \in 0 .. taken.free, pass \in 0 .. taken.pass, credits \in 0 .. taken.credits :
      /\ NetOf(row).free = taken.free - free
      /\ NetOf(row).pass = taken.pass - pass
      /\ NetOf(row).credits = taken.credits - credits
      /\ freeUsed' = [freeUsed EXCEPT ![row.user][row.period] = Floor(@, free)]
      /\ wallet' = [wallet EXCEPT ![row.user] = @ + credits]
      /\ DOMAIN passes' = DOMAIN passes
      /\ \A p \in DOMAIN passes :
           /\ passes'[p].user = passes[p].user
           /\ passes'[p].used = IF p = row.pass THEN Floor(passes[p].used, pass)
                                                ELSE passes[p].used
  OBVIOUS
<1>2. /\ row.user \in User /\ row.period \in Period
      /\ taken.free \in Nat /\ taken.pass \in Nat /\ taken.credits \in Nat
  <2>1. reservations[r] \in ReservationRow
    BY DEF TypeOK
  <2> QED
    BY <2>1, NetOfType DEF ReservationRow
<1>3. HeldFree[r] = taken.free /\ HeldPass[r] = taken.pass /\ HeldCredits[r] = taken.credits
  BY NetOfRow
<1>4. /\ free \in Nat /\ free <= taken.free /\ pass \in Nat /\ pass <= taken.pass
      /\ credits \in Nat
      /\ NetOf(row).free - HeldFree[r] = - free
      /\ NetOf(row).pass - HeldPass[r] = - pass
      /\ NetOf(row).credits - HeldCredits[r] = - credits
  <2>1. NetOf(row).free = taken.free - free /\ NetOf(row).pass = taken.pass - pass
        /\ NetOf(row).credits = taken.credits - credits
    OBVIOUS
  <2> HIDE DEF taken
  <2> QED
    BY <1>2, <1>3, <2>1
<1> HIDE DEF taken
<1>5. /\ DOMAIN reservations' = DOMAIN reservations /\ reservations'[r] = row
      /\ \A k \in DOMAIN reservations : k # r => reservations'[k] = reservations[k]
  OBVIOUS
<1>6. TablesAreFinite'
  BY <1>1, <1>5 DEF History, TablesAreFinite
<1>7. PassesArePurchased'
  BY <1>1 DEF History, PassesArePurchased
<1>8. ReservedPassesExist'
  BY <1>5 DEF History, ReservedPassesExist
<1>9. /\ \A u, m : SumFunctionOnSet(HeldFree, OfMonth(u, m))'
                     = SumFunctionOnSet(HeldFree, OfMonth(u, m))
                       + (IF u = row.user /\ m = row.period THEN - free ELSE 0)
      /\ \A p : SumFunctionOnSet(HeldPass, OfPass(p))'
                  = SumFunctionOnSet(HeldPass, OfPass(p)) + (IF p = row.pass THEN - pass ELSE 0)
      /\ \A u : SumFunctionOnSet(HeldCredits, OfUser(u))'
                  = SumFunctionOnSet(HeldCredits, OfUser(u))
                    + (IF u = row.user THEN - credits ELSE 0)
  <2>1. /\ \A u, m : SumFunctionOnSet(HeldFree, OfMonth(u, m))'
                       = SumFunctionOnSet(HeldFree, OfMonth(u, m))
                         + (IF u = row.user /\ m = row.period
                            THEN NetOf(row).free - HeldFree[r] ELSE 0)
        /\ \A p : SumFunctionOnSet(HeldPass, OfPass(p))'
                    = SumFunctionOnSet(HeldPass, OfPass(p))
                      + (IF p = row.pass THEN NetOf(row).pass - HeldPass[r] ELSE 0)
        /\ \A u : SumFunctionOnSet(HeldCredits, OfUser(u))'
                    = SumFunctionOnSet(HeldCredits, OfUser(u))
                      + (IF u = row.user THEN NetOf(row).credits - HeldCredits[r] ELSE 0)
    <3>1. /\ reservations' = [reservations EXCEPT ![r] = row] /\ row.user = reservations[r].user
          /\ row.period = reservations[r].period /\ row.pass = reservations[r].pass
      OBVIOUS
    <3>2. TablesAreFinite
      BY DEF History
    <3> QED
      BY <3>1, <3>2, RefundSums, ZenonT(120)
  <2>2. ASSUME NEW u, NEW m
        PROVE  (IF u = row.user /\ m = row.period THEN NetOf(row).free - HeldFree[r] ELSE 0)
                 = (IF u = row.user /\ m = row.period THEN - free ELSE 0)
    BY <1>4
  <2>3. ASSUME NEW p
        PROVE  (IF p = row.pass THEN NetOf(row).pass - HeldPass[r] ELSE 0)
                 = (IF p = row.pass THEN - pass ELSE 0)
    BY <1>4
  <2>4. ASSUME NEW u
        PROVE  (IF u = row.user THEN NetOf(row).credits - HeldCredits[r] ELSE 0)
                 = (IF u = row.user THEN - credits ELSE 0)
    BY <1>4
  <2>5. ASSUME NEW u, NEW m
        PROVE  SumFunctionOnSet(HeldFree, OfMonth(u, m))'
                 = SumFunctionOnSet(HeldFree, OfMonth(u, m))
                   + (IF u = row.user /\ m = row.period THEN - free ELSE 0)
    BY <2>1, <2>2
  <2>6. ASSUME NEW p
        PROVE  SumFunctionOnSet(HeldPass, OfPass(p))'
                 = SumFunctionOnSet(HeldPass, OfPass(p)) + (IF p = row.pass THEN - pass ELSE 0)
    BY <2>1, <2>3
  <2>7. ASSUME NEW u
        PROVE  SumFunctionOnSet(HeldCredits, OfUser(u))'
                 = SumFunctionOnSet(HeldCredits, OfUser(u))
                   + (IF u = row.user THEN - credits ELSE 0)
    BY <2>1, <2>4, Zenon
  <2> QED
    BY <2>5, <2>6, <2>7
<1>10. FreeMatchesReservations'
  <2> SUFFICES ASSUME NEW u \in User, NEW m \in Period
               PROVE  freeUsed'[u][m] = SumFunctionOnSet(HeldFree, OfMonth(u, m))'
    BY DEF FreeMatchesReservations
  <2>1. freeUsed \in [User -> [Period -> Nat]] /\ freeUsed[u][m] \in Nat
    BY DEF TypeOK
  <2>2. freeUsed[u][m] = SumFunctionOnSet(HeldFree, OfMonth(u, m))
    BY DEF History, BalancesMatchHistory, FreeMatchesReservations
  <2>3. CASE u = row.user /\ m = row.period
    <3>1. taken.free <= freeUsed[u][m]
      <4>1. IsFiniteSet(OfMonth(u, m)) /\ \A k \in OfMonth(u, m) : HeldFree[k] \in Nat
        BY HeldType, SelectionsAreFinite DEF History
      <4>2. r \in OfMonth(u, m)
        BY <2>3 DEF OfMonth, OfUser
      <4>3. HeldFree[r] <= SumFunctionOnSet(HeldFree, OfMonth(u, m))
        BY <4>1, <4>2, SumBounds
      <4> QED
        BY <1>3, <2>2, <4>3
    <3>2. freeUsed'[u][m] = Floor(freeUsed[u][m], free)
      BY <1>2, <2>1, <2>3
    <3>3. freeUsed'[u][m] = freeUsed[u][m] + (- free)
      BY <1>2, <1>4, <2>1, <3>1, <3>2 DEF Floor
    <3> QED
      BY <1>9, <2>2, <2>3, <3>3
  <2>4. CASE ~ (u = row.user /\ m = row.period)
    <3>1. freeUsed'[u][m] = freeUsed[u][m] + 0
      BY <1>2, <2>1, <2>4
    <3> QED
      BY <1>9, <2>2, <2>4, <3>1
  <2> QED
    BY <2>3, <2>4
<1>11. PassMatchesReservations'
  <2> SUFFICES ASSUME NEW p \in DOMAIN passes
               PROVE  passes'[p].used = SumFunctionOnSet(HeldPass, OfPass(p))'
    BY DEF PassMatchesReservations
  <2>1. passes[p].used \in Nat
    BY DEF TypeOK, PassRow
  <2>2. passes[p].used = SumFunctionOnSet(HeldPass, OfPass(p))
    BY DEF History, BalancesMatchHistory, PassMatchesReservations
  <2>3. CASE p = row.pass
    <3>1. taken.pass <= passes[p].used
      <4>1. IsFiniteSet(OfPass(p)) /\ \A k \in OfPass(p) : HeldPass[k] \in Nat
        BY HeldType, SelectionsAreFinite DEF History
      <4>2. r \in OfPass(p)
        BY <2>3 DEF OfPass
      <4>3. HeldPass[r] <= SumFunctionOnSet(HeldPass, OfPass(p))
        BY <4>1, <4>2, SumBounds
      <4> QED
        BY <1>3, <2>2, <4>3
    <3>2. passes'[p].used = Floor(passes[p].used, pass)
      BY <2>3
    <3>3. passes'[p].used = passes[p].used + (- pass)
      BY <1>2, <1>4, <2>1, <3>1, <3>2 DEF Floor
    <3> QED
      BY <1>9, <2>2, <2>3, <3>3
  <2>4. CASE p # row.pass
    <3>1. passes'[p].used = passes[p].used + 0
      BY <2>1, <2>4
    <3> QED
      BY <1>9, <2>2, <2>4, <3>1
  <2> QED
    BY <2>3, <2>4
<1>12. WalletMatchesHistory'
  <2> SUFFICES ASSUME NEW u \in User
               PROVE  wallet'[u] + SumFunctionOnSet(HeldCredits, OfUser(u))'
                        = SumFunctionOnSet(UnitsBought, CreditPurchases(u))'
    BY DEF WalletMatchesHistory
  <2> DEFINE heldBefore == SumFunctionOnSet(HeldCredits, OfUser(u))
             bought == SumFunctionOnSet(UnitsBought, CreditPurchases(u))
             back == IF u = row.user THEN - credits ELSE 0
  <2>1. wallet \in [User -> Nat] /\ wallet[u] \in Nat /\ back \in Int
    <3>1. wallet \in [User -> Nat] /\ wallet[u] \in Nat
      BY DEF TypeOK
    <3>2. credits \in Nat /\ - credits \in Int
      BY <1>4
    <3> QED
      BY <3>1, <3>2
  <2>2. wallet[u] + heldBefore = bought
    BY DEF History, BalancesMatchHistory, WalletMatchesHistory
  <2>3. wallet'[u] = wallet[u] - back
    <3>1. wallet'[u] = IF u = row.user THEN wallet[u] + credits ELSE wallet[u]
      BY <1>2, <2>1
    <3> QED
      BY <1>4, <2>1, <3>1
  <2>4. SumFunctionOnSet(HeldCredits, OfUser(u))' = heldBefore + back
    BY <1>9
  <2>5. SumFunctionOnSet(UnitsBought, CreditPurchases(u))' = bought
    BY <1>1 DEF UnitsBought, CreditPurchases
  <2>6. heldBefore \in Int
    <3>1. \A k \in OfUser(u) : HeldCredits[k] \in Int
      BY HeldType, SelectionsAreFinite DEF History
    <3> QED
      BY <3>1, SumType, SelectionsAreFinite DEF History
  <2> HIDE DEF heldBefore, bought, back
  <2> QED
    BY <2>1, <2>2, <2>3, <2>4, <2>5, <2>6
<1> QED
  BY <1>1, <1>6, <1>7, <1>8, <1>10, <1>11, <1>12 DEF History, BalancesMatchHistory

LEMMA UnitsBoughtType ==
  ASSUME TypeOK
  PROVE  \A ref \in DOMAIN purchases :
           UnitsBought[ref] = Offers[purchases[ref].offer].units /\ UnitsBought[ref] \in Int
<1> SUFFICES ASSUME NEW ref \in DOMAIN purchases
             PROVE  /\ UnitsBought[ref] = Offers[purchases[ref].offer].units
                    /\ UnitsBought[ref] \in Int
  OBVIOUS
<1>1. purchases[ref].offer \in OfferCode
  BY DEF TypeOK, PurchaseRow
<1>2. Offers[purchases[ref].offer].units \in Nat
  BY <1>1, LedgerAssumption DEF Offer
<1> QED
  BY <1>2 DEF UnitsBought

\* The reservations and their sums stay as they are.
LEMMA SameSums ==
  ASSUME UNCHANGED reservations
  PROVE  /\ \A u, m : SumFunctionOnSet(HeldFree, OfMonth(u, m))'
                        = SumFunctionOnSet(HeldFree, OfMonth(u, m))
         /\ \A p : SumFunctionOnSet(HeldPass, OfPass(p))' = SumFunctionOnSet(HeldPass, OfPass(p))
         /\ \A u : SumFunctionOnSet(HeldCredits, OfUser(u))'
                     = SumFunctionOnSet(HeldCredits, OfUser(u))
<1>1. HeldFree' = HeldFree /\ HeldPass' = HeldPass /\ HeldCredits' = HeldCredits
  BY NetOfRow, NetOfRowNext
<1>2. /\ \A u, m : OfMonth(u, m)' = OfMonth(u, m)
      /\ \A p : OfPass(p)' = OfPass(p)
      /\ \A u : OfUser(u)' = OfUser(u)
  BY DEF OfMonth, OfPass, OfUser
<1> QED
  BY <1>1, <1>2

LEMMA GrantHistory ==
  ASSUME TypeOK, TypeOK', History, AnyGrant
  PROVE  History'
<1> PICK u \in User, ref \in PaymentRef, code \in OfferCode, at \in Time :
      \E startsAt \in PassStart(u, at) : Grant(u, ref, code, at, startsAt)
  BY DEF AnyGrant
<1> PICK startsAt \in PassStart(u, at) : Grant(u, ref, code, at, startsAt)
  OBVIOUS
<1> DEFINE offer == Offers[code]
           pass == [user |-> u, startsAt |-> startsAt, endsAt |-> startsAt + offer.days,
                    included |-> offer.units, used |-> 0]
           row == [user |-> u, offer |-> code]
<1>1. offer.units \in Nat \ {0} /\ offer.days \in Nat /\ offer.kind \in {"pass", "credits"}
  BY LedgerAssumption DEF Offer
<1>2. /\ RecordPurchase(u, ref, code, startsAt)
      /\ UNCHANGED <<freeUsed, reservations>>
      /\ ref \notin DOMAIN purchases
  BY DEF Grant
<1>3. purchases' = Insert(purchases, ref, row)
  BY <1>2 DEF RecordPurchase
<1>4. /\ DOMAIN purchases' = DOMAIN purchases \cup {ref}
      /\ purchases'[ref].user = u /\ purchases'[ref].offer = code
      /\ \A k \in DOMAIN purchases : purchases'[k] = purchases[k]
  BY <1>2, <1>3 DEF Insert
<1>5. TablesAreFinite'
  BY <1>2, <1>4, FS_AddElement DEF History, TablesAreFinite
<1>6. FreeMatchesReservations'
  BY <1>2, SameSums DEF History, BalancesMatchHistory, FreeMatchesReservations
<1>7. /\ \A k \in DOMAIN purchases : UnitsBought'[k] = UnitsBought[k] /\ UnitsBought[k] \in Int
      /\ UnitsBought'[ref] = offer.units
  <2>1. \A k \in DOMAIN purchases : UnitsBought'[k] = UnitsBought[k]
    BY <1>4 DEF UnitsBought
  <2>2. UnitsBought'[ref] = offer.units
    BY <1>4 DEF UnitsBought
  <2> QED
    BY <2>1, <2>2, UnitsBoughtType
<1>8. ref \notin DOMAIN passes /\ ref # NoPass
  BY <1>2, LedgerAssumption DEF History, PassesArePurchased
<1>9. \A v : /\ IsFiniteSet(CreditPurchases(v))
             /\ CreditPurchases(v) \subseteq DOMAIN purchases
  BY SelectionsAreFinite DEF History
<1>10. \A v : /\ ~ (v = u /\ offer.kind = "credits") => CreditPurchases(v)' = CreditPurchases(v)
              /\ v = u /\ offer.kind = "credits"
                   => CreditPurchases(v)' = CreditPurchases(v) \cup {ref}
  <2> HIDE DEF row
  <2> QED
    BY <1>2, <1>4 DEF CreditPurchases
<1>11. ASSUME NEW v
       PROVE  SumFunctionOnSet(UnitsBought, CreditPurchases(v))'
                = SumFunctionOnSet(UnitsBought, CreditPurchases(v))
                  + (IF v = u /\ offer.kind = "credits" THEN offer.units ELSE 0)
  <2> DEFINE S == CreditPurchases(v)
             f == UnitsBought
             g == UnitsBought'
  <2>1. /\ IsFiniteSet(S) /\ ref \notin S /\ g[ref] \in Int
        /\ \A k \in S : f[k] \in Int
        /\ \A k \in S : f[k] = g[k]
    BY <1>1, <1>2, <1>7, <1>9
  <2>2. /\ SumFunctionOnSet(f, S) \in Int
        /\ SumFunctionOnSet(g, S) = SumFunctionOnSet(f, S)
        /\ SumFunctionOnSet(g, S \cup {ref}) = SumFunctionOnSet(f, S) + g[ref]
    <3>1. IsFiniteSet(S) /\ ref \notin S /\ g[ref] \in Int
      BY <2>1
    <3>2. /\ \A k \in S : f[k] \in Int
          /\ \A k \in S : f[k] = g[k]
      BY <2>1
    <3> HIDE DEF S, f, g
    <3>3. SumFunctionOnSet(f, S) \in Int
      BY <3>1, <3>2, SumType
    <3>4. SumFunctionOnSet(f, S) = SumFunctionOnSet(g, S)
      BY <3>1, <3>2, SumCongruent
    <3>5. SumFunctionOnSet(g, S \cup {ref}) = SumFunctionOnSet(f, S) + g[ref]
      <4> DEFINE T == S \cup {ref}
      <4>1. IsFiniteSet(T) /\ ref \in T /\ T \ {ref} = S
        BY <3>1, FS_AddElement
      <4>2. \A k \in T : g[k] \in Int
        BY <3>1, <3>2
      <4> HIDE DEF T
      <4>3. SumFunctionOnSet(g, T) = g[ref] + SumFunctionOnSet(g, T \ {ref})
        BY <4>1, <4>2, SumRemove
      <4>4. SumFunctionOnSet(g, T) = g[ref] + SumFunctionOnSet(f, S)
        BY <3>4, <4>1, <4>3
      <4> QED
        BY <3>1, <3>3, <4>4 DEF T
    <3> QED
      BY <3>3, <3>4, <3>5
  <2>3. CASE v = u /\ offer.kind = "credits"
    <3>1. CreditPurchases(v)' = S \cup {ref}
      BY <1>10, <2>3
    <3>2. SumFunctionOnSet(g, S \cup {ref}) = SumFunctionOnSet(f, S) + offer.units
      BY <1>7, <2>2
    <3> HIDE DEF offer, S, f
    <3> QED
      BY <2>3, <3>1, <3>2 DEF S, f
  <2>4. CASE ~ (v = u /\ offer.kind = "credits")
    <3>1. CreditPurchases(v)' = S
      BY <1>10, <2>4
    <3>2. SumFunctionOnSet(f, S) = SumFunctionOnSet(f, S) + 0
      BY <2>2
    <3> QED
      BY <2>2, <2>4, <3>1, <3>2
  <2> QED
    BY <2>3, <2>4
<1>12. \A v \in User : /\ wallet[v] \in Nat
                       /\ wallet[v] + SumFunctionOnSet(HeldCredits, OfUser(v))
                            = SumFunctionOnSet(UnitsBought, CreditPurchases(v))
                       /\ SumFunctionOnSet(HeldCredits, OfUser(v))'
                            = SumFunctionOnSet(HeldCredits, OfUser(v))
                       /\ SumFunctionOnSet(HeldCredits, OfUser(v)) \in Int
  <2>1. ASSUME NEW v PROVE SumFunctionOnSet(HeldCredits, OfUser(v)) \in Int
    <3>1. IsFiniteSet(OfUser(v)) /\ \A k \in OfUser(v) : HeldCredits[k] \in Int
      BY HeldType, SelectionsAreFinite DEF History
    <3> QED
      BY <3>1, SumType
  <2> QED
    BY <1>2, <2>1, SameSums DEF TypeOK, History, BalancesMatchHistory, WalletMatchesHistory
<1>13. CASE offer.kind = "pass"
  <2>1. passes' = Insert(passes, ref, pass) /\ UNCHANGED <<wallet, entries>>
    BY <1>2, <1>13 DEF RecordPurchase
  <2>2. /\ DOMAIN passes' = DOMAIN passes \cup {ref}
        /\ passes'[ref].used = 0
        /\ \A p \in DOMAIN passes : passes'[p] = passes[p]
    BY <1>8, <2>1 DEF Insert
  <2>3. PassesArePurchased'
    BY <1>4, <2>2 DEF History, PassesArePurchased
  <2>4. ReservedPassesExist'
    BY <1>2, <2>2 DEF History, ReservedPassesExist
  <2>5. PassMatchesReservations'
    <3>1. SumFunctionOnSet(HeldPass, OfPass(ref)) = 0
      <4>1. OfPass(ref) = {}
        BY <1>8 DEF History, ReservedPassesExist, OfPass
      <4> QED
        BY <4>1, SumEmpty
    <3> QED
      BY <1>2, <2>2, <3>1, SameSums
         DEF History, BalancesMatchHistory, PassMatchesReservations
  <2>6. WalletMatchesHistory'
    <3>1. \A v \in User : SumFunctionOnSet(UnitsBought, CreditPurchases(v))'
                            = SumFunctionOnSet(UnitsBought, CreditPurchases(v)) + 0
      BY <1>11, <1>13
    <3>2. \A v \in User : SumFunctionOnSet(UnitsBought, CreditPurchases(v)) \in Int
      BY <1>12
    <3> QED
      BY <1>12, <2>1, <3>1, <3>2 DEF WalletMatchesHistory
  <2>7. JournalExplainsBalance'
    BY <2>1 DEF History, JournalExplainsBalance
  <2> QED
    BY <1>5, <1>6, <2>3, <2>4, <2>5, <2>6, <2>7 DEF History, BalancesMatchHistory
<1>14. CASE offer.kind # "pass"
  <2>1. /\ wallet' = [wallet EXCEPT ![u] = @ + offer.units]
        /\ Journal(u, "purchase", offer.units)
        /\ UNCHANGED passes
    BY <1>2, <1>14 DEF RecordPurchase
  <2>2. PassesArePurchased'
    BY <1>4, <2>1 DEF History, PassesArePurchased
  <2>3. ReservedPassesExist'
    BY <1>2, <2>1 DEF History, ReservedPassesExist
  <2>4. PassMatchesReservations'
    BY <1>2, <2>1, SameSums DEF History, BalancesMatchHistory, PassMatchesReservations
  <2>5. WalletMatchesHistory'
    <3> SUFFICES ASSUME NEW v \in User
                 PROVE  wallet'[v] + SumFunctionOnSet(HeldCredits, OfUser(v))'
                          = SumFunctionOnSet(UnitsBought, CreditPurchases(v))'
      BY DEF WalletMatchesHistory
    <3> DEFINE heldBefore == SumFunctionOnSet(HeldCredits, OfUser(v))
               bought == SumFunctionOnSet(UnitsBought, CreditPurchases(v))
               added == IF v = u THEN offer.units ELSE 0
    <3>1. SumFunctionOnSet(UnitsBought, CreditPurchases(v))' = bought + added
      <4>1. offer.kind = "credits"
        BY <1>1, <1>14
      <4> QED
        BY <1>11, <4>1
    <3>2. wallet'[v] = wallet[v] + added /\ added \in Nat
      <4>1. wallet'[v] = IF v = u THEN wallet[v] + offer.units ELSE wallet[v]
        BY <2>1 DEF TypeOK
      <4>2. wallet[v] \in Nat /\ offer.units \in Nat
        BY <1>1, <1>12
      <4>3. CASE v = u
        BY <4>1, <4>2, <4>3
      <4>4. CASE v # u
        BY <4>1, <4>2, <4>4
      <4> QED
        BY <4>3, <4>4
    <3>3. wallet[v] + heldBefore = bought /\ wallet[v] \in Nat /\ heldBefore \in Int
          /\ SumFunctionOnSet(HeldCredits, OfUser(v))' = heldBefore
      BY <1>12
    <3> HIDE DEF heldBefore, bought, added
    <3> QED
      BY <3>1, <3>2, <3>3
  <2>6. JournalExplainsBalance'
    <3>1. wallet' = [wallet EXCEPT ![u] = IF "purchase" = "consumption" THEN @ - offer.units
                                                                        ELSE @ + offer.units]
      BY <2>1
    <3>2. "purchase" # "consumption" /\ offer.units \in Nat /\ JournalExplainsBalance
      BY <1>1 DEF History
    <3> HIDE DEF offer
    <3> QED
      BY <2>1, <3>1, <3>2, JournalledMove
  <2> QED
    BY <1>5, <1>6, <2>2, <2>3, <2>4, <2>5, <2>6 DEF History, BalancesMatchHistory
<1> QED
  BY <1>13, <1>14

LEMMA DeleteHistory ==
  ASSUME TypeOK, TypeOK', History, AnyDeletion
  PROVE  History'
<1> PICK u \in User : DeleteAccount(u)
  BY DEF AnyDeletion
<1> DEFINE kept == {r \in DOMAIN reservations : reservations[r].user # u}
<1>1. /\ DOMAIN reservations' = kept
      /\ \A r \in kept : reservations'[r] = reservations[r]
  BY DEF DeleteAccount, Keep
<1>2. /\ DOMAIN passes' = {p \in DOMAIN passes : passes[p].user # u}
      /\ \A p \in DOMAIN passes' : passes'[p] = passes[p]
  BY DEF DeleteAccount, Keep, PassesOf
<1>3. /\ DOMAIN purchases' = DOMAIN purchases
      /\ \A ref \in DOMAIN purchases :
           /\ purchases'[ref].offer = purchases[ref].offer
           /\ purchases[ref].user # u => purchases'[ref].user = purchases[ref].user
           /\ purchases[ref].user = u => purchases'[ref].user = Detached
  <2>1. ASSUME NEW ref \in DOMAIN purchases, purchases[ref].user = u
        PROVE  /\ purchases'[ref].offer = purchases[ref].offer
               /\ purchases'[ref].user = Detached
    <3>1. purchases[ref] \in PurchaseRow
      BY DEF TypeOK
    <3>2. purchases'[ref] = [purchases[ref] EXCEPT !.user = Detached]
      BY <2>1 DEF DeleteAccount
    <3> QED
      BY <3>1, <3>2 DEF PurchaseRow
  <2> QED
    BY <2>1 DEF DeleteAccount
<1>4. /\ freeUsed' = [freeUsed EXCEPT ![u] = [m \in Period |-> 0]]
      /\ wallet' = [wallet EXCEPT ![u] = 0]
      /\ entries' = [entries EXCEPT ![u] = <<>>]
      /\ freeUsed \in [User -> [Period -> Nat]] /\ wallet \in [User -> Nat]
      /\ entries \in [User -> Seq(Entry)]
  BY DEF DeleteAccount, TypeOK
<1>5. TablesAreFinite'
  BY <1>1, <1>3, FS_Subset DEF History, TablesAreFinite
<1>6. PassesArePurchased'
  BY <1>2, <1>3 DEF History, PassesArePurchased
<1>7. ReservedPassesExist'
  BY <1>1, <1>2 DEF History, ReservedPassesExist
<1>8. \A r \in kept : /\ HeldFree'[r] = HeldFree[r] /\ HeldPass'[r] = HeldPass[r]
                      /\ HeldCredits'[r] = HeldCredits[r]
  BY <1>1, NetOfRow, NetOfRowNext
<1> HIDE DEF kept
<1>9. FreeMatchesReservations'
  <2> SUFFICES ASSUME NEW v \in User, NEW m \in Period
               PROVE  freeUsed'[v][m] = SumFunctionOnSet(HeldFree', OfMonth(v, m)')
    BY DEF FreeMatchesReservations
  <2>1. CASE v = u
    <3>1. OfMonth(v, m)' = {}
      BY <1>1, <2>1 DEF OfMonth, OfUser, kept
    <3>2. freeUsed'[v][m] = 0
      BY <1>4, <2>1
    <3> QED
      BY <3>1, <3>2, SumEmpty
  <2>2. CASE v # u
    <3> DEFINE S == OfMonth(v, m)
               f == HeldFree
               g == HeldFree'
    <3>1. OfMonth(v, m)' = S /\ S \subseteq kept
      BY <1>1, <2>2 DEF OfMonth, OfUser, kept
    <3>2. freeUsed'[v][m] = SumFunctionOnSet(f, S)
      BY <1>4, <2>2 DEF History, BalancesMatchHistory, FreeMatchesReservations
    <3>3. IsFiniteSet(S) /\ \A k \in S : f[k] = g[k]
      BY <1>8, <3>1, SelectionsAreFinite DEF History
    <3>4. SumFunctionOnSet(f, S) = SumFunctionOnSet(g, S)
      <4> HIDE DEF S, f, g
      <4> QED
        BY <3>3, SumCongruent
    <3> QED
      BY <3>1, <3>2, <3>4
  <2> QED
    BY <2>1, <2>2
<1>10. PassMatchesReservations'
  <2> SUFFICES ASSUME NEW p \in DOMAIN passes'
               PROVE  passes'[p].used = SumFunctionOnSet(HeldPass', OfPass(p)')
    BY DEF PassMatchesReservations
  <2> DEFINE S == OfPass(p)
             f == HeldPass
             g == HeldPass'
  <2>1. p \in DOMAIN passes /\ passes[p].user # u /\ p # NoPass
    BY <1>2, NotAPass
  <2>2. S \subseteq kept
    BY <2>1 DEF OfPass, kept, History, ReservedPassesExist
  <2>3. OfPass(p)' = S
    BY <1>1, <2>2 DEF OfPass, kept
  <2>4. passes'[p].used = SumFunctionOnSet(f, S)
    BY <1>2, <2>1 DEF History, BalancesMatchHistory, PassMatchesReservations
  <2>5. IsFiniteSet(S) /\ \A k \in S : f[k] = g[k]
    BY <1>8, <2>2, SelectionsAreFinite DEF History
  <2>6. SumFunctionOnSet(f, S) = SumFunctionOnSet(g, S)
    <3> HIDE DEF S, f, g
    <3> QED
      BY <2>5, SumCongruent
  <2> QED
    BY <2>3, <2>4, <2>6
<1>11. WalletMatchesHistory'
  <2> SUFFICES ASSUME NEW v \in User
               PROVE  wallet'[v] + SumFunctionOnSet(HeldCredits', OfUser(v)')
                        = SumFunctionOnSet(UnitsBought', CreditPurchases(v)')
    BY DEF WalletMatchesHistory
  <2>1. CASE v = u
    <3>1. OfUser(v)' = {}
      BY <1>1, <2>1 DEF OfUser, kept
    <3>2. CreditPurchases(v)' = {}
      BY <1>3, <2>1, LedgerAssumption DEF CreditPurchases
    <3>3. wallet'[v] = 0
      BY <1>4, <2>1
    <3>4. /\ SumFunctionOnSet(HeldCredits', OfUser(v)') = 0
          /\ SumFunctionOnSet(UnitsBought', CreditPurchases(v)') = 0
      BY <3>1, <3>2, SumEmpty
    <3> QED
      BY <3>3, <3>4
  <2>2. CASE v # u
    <3> DEFINE S == OfUser(v)        f == HeldCredits  g == HeldCredits'
               P == CreditPurchases(v)  b == UnitsBought  c == UnitsBought'
    <3>1. OfUser(v)' = S /\ S \subseteq kept
      BY <1>1, <2>2 DEF OfUser, kept
    <3>2. CreditPurchases(v)' = P
      BY <1>3, <2>2, LedgerAssumption DEF CreditPurchases
    <3>3. wallet'[v] + SumFunctionOnSet(f, S) = SumFunctionOnSet(b, P)
      BY <1>4, <2>2 DEF History, BalancesMatchHistory, WalletMatchesHistory
    <3>4. IsFiniteSet(S) /\ \A k \in S : f[k] = g[k]
      BY <1>8, <3>1, SelectionsAreFinite DEF History
    <3>5. IsFiniteSet(P) /\ \A k \in P : b[k] = c[k]
      <4>1. IsFiniteSet(P) /\ P \subseteq DOMAIN purchases
        BY SelectionsAreFinite DEF History
      <4> QED
        BY <1>3, <4>1 DEF UnitsBought
    <3>6. SumFunctionOnSet(f, S) = SumFunctionOnSet(g, S)
      <4> HIDE DEF S, f, g
      <4> QED
        BY <3>4, SumCongruent
    <3>7. SumFunctionOnSet(b, P) = SumFunctionOnSet(c, P)
      <4> HIDE DEF P, b, c
      <4> QED
        BY <3>5, SumCongruent
    <3> QED
      BY <3>1, <3>2, <3>3, <3>6, <3>7
  <2> QED
    BY <2>1, <2>2
<1>12. JournalExplainsBalance'
  <2> SUFFICES ASSUME NEW v \in User
               PROVE  /\ Balance(entries'[v], Len(entries'[v])) = wallet'[v]
                      /\ \A n \in 0 .. Len(entries'[v]) : Balance(entries'[v], n) >= 0
    BY DEF JournalExplainsBalance
  <2>1. CASE v # u
    BY <1>4, <2>1 DEF History, JournalExplainsBalance
  <2>2. CASE v = u
    <3>1. entries'[v] = <<>> /\ Len(entries'[v]) = 0 /\ wallet'[v] = 0
      BY <1>4, <2>2
    <3>2. Balance(<<>>, 0) = 0
      <4>1. 1 .. 0 = {}
        OBVIOUS
      <4> QED
        BY <4>1, SumEmpty DEF Balance
    <3> QED
      BY <3>1, <3>2
  <2> QED
    BY <2>1, <2>2
<1> QED
  BY <1>5, <1>6, <1>7, <1>9, <1>10, <1>11, <1>12 DEF History, BalancesMatchHistory

LEMMA HistoryStep == TypeOK /\ History /\ [Next]_vars => History'
<1> SUFFICES ASSUME TypeOK, History, [Next]_vars PROVE History'
  OBVIOUS
<1>1. TypeOK'
  BY TypeOKStep
<1>2. CASE AnyReserve
  BY <1>1, <1>2, ReserveHistory
<1>3. CASE AnyRefund
  BY <1>1, <1>3, RefundHistory
<1>4. CASE AnyGrant
  BY <1>1, <1>4, GrantHistory
<1>5. CASE AnyDeletion
  BY <1>1, <1>5, DeleteHistory
<1>6. CASE Tick \/ UNCHANGED vars
  <2>1. UNCHANGED <<freeUsed, passes, wallet, entries, reservations, purchases>>
    BY <1>6 DEF Tick, vars
  <2>2. TablesAreFinite' /\ PassesArePurchased' /\ ReservedPassesExist' /\ JournalExplainsBalance'
    BY <2>1 DEF History, TablesAreFinite, PassesArePurchased, ReservedPassesExist,
                JournalExplainsBalance
  <2>3. FreeMatchesReservations' /\ PassMatchesReservations'
    BY <2>1, SameSums DEF History, BalancesMatchHistory, FreeMatchesReservations,
                          PassMatchesReservations
  <2>4. WalletMatchesHistory'
    <3>1. UnitsBought' = UnitsBought /\ \A u : CreditPurchases(u)' = CreditPurchases(u)
      BY <2>1 DEF UnitsBought, CreditPurchases
    <3> QED
      BY <2>1, <3>1, SameSums DEF History, BalancesMatchHistory, WalletMatchesHistory
  <2> QED
    BY <2>2, <2>3, <2>4 DEF History, BalancesMatchHistory
<1> QED
  BY <1>2, <1>3, <1>4, <1>5, <1>6, NextByAction

LEMMA InitHistory == Init => History
<1> SUFFICES ASSUME Init PROVE History
  OBVIOUS
<1>1. /\ DOMAIN reservations = {} /\ DOMAIN purchases = {} /\ DOMAIN passes = {}
      /\ \A u \in User : wallet[u] = 0 /\ entries[u] = <<>>
      /\ \A u \in User, m \in Period : freeUsed[u][m] = 0
  BY DEF Init
<1>2. TablesAreFinite
  BY <1>1, FS_EmptySet DEF TablesAreFinite
<1>3. PassesArePurchased /\ ReservedPassesExist
  BY <1>1 DEF PassesArePurchased, ReservedPassesExist
<1>4. FreeMatchesReservations
  <2>1. \A u, m : OfMonth(u, m) = {}
    BY <1>1 DEF OfMonth, OfUser
  <2> QED
    BY <1>1, <2>1, SumEmpty DEF FreeMatchesReservations
<1>5. PassMatchesReservations
  BY <1>1 DEF PassMatchesReservations
<1>6. WalletMatchesHistory
  <2>1. \A u : OfUser(u) = {} /\ CreditPurchases(u) = {}
    BY <1>1 DEF OfUser, CreditPurchases
  <2>2. \A u : /\ SumFunctionOnSet(HeldCredits, OfUser(u)) = 0
               /\ SumFunctionOnSet(UnitsBought, CreditPurchases(u)) = 0
    BY <2>1, SumEmpty
  <2> QED
    BY <1>1, <2>2 DEF WalletMatchesHistory
<1>7. JournalExplainsBalance
  <2>1. Balance(<<>>, 0) = 0
    <3>1. 1 .. 0 = {}
      OBVIOUS
    <3> QED
      BY <3>1, SumEmpty DEF Balance
  <2>2. Len(<<>>) = 0
    OBVIOUS
  <2> QED
    BY <1>1, <2>1, <2>2 DEF JournalExplainsBalance
<1> QED
  BY <1>2, <1>3, <1>4, <1>5, <1>6, <1>7 DEF History, BalancesMatchHistory

LEMMA HistoryInvariant == Spec => []History
<1>1. Init => History
  BY InitHistory
<1>2. TypeOK /\ History /\ [Next]_vars => History'
  BY HistoryStep
<1> QED
  BY <1>1, <1>2, TypeOKInvariant, PTL DEF Spec

\* For any users, catalogue and calendar, the counters of the three sources are
\* what the reservations still hold and the purchases brought: the greatest(.., 0)
\* of applyToSources never hides a lost unit.
THEOREM BalancesMatchHistoryInvariant == Spec => []BalancesMatchHistory
BY HistoryInvariant, PTL DEF History

\* The journal of a user sums to the balance, and no prefix of it to a debt.
THEOREM JournalExplainsBalanceInvariant == Spec => []JournalExplainsBalance
BY HistoryInvariant, PTL DEF History

-----------------------------------------------------------------------------
(* What is given comes with a reference that was not granted before.         *)

\* A consumption or a refund is not a purchase.
LEMMA JournalKeepsBought ==
  ASSUME TypeOK, NEW u \in User, NEW kind \in {"consumption", "refund"}, NEW units \in Nat,
         Journal(u, kind, units), NEW v \in User
  PROVE  Bought(v)' = Bought(v)
<1>1. entries \in [User -> Seq(Entry)]
  BY DEF TypeOK
<1>2. CASE units = 0 \/ v # u
  <2>1. entries'[v] = entries[v]
    BY <1>1, <1>2 DEF Journal, AppendEntry
  <2> QED
    BY <2>1 DEF Bought
<1>3. CASE units # 0 /\ v = u
  <2> DEFINE journal == entries[u]
             e == [kind |-> kind, units |-> units]
  <2>1. entries'[v] = Append(journal, e)
    BY <1>1, <1>3 DEF Journal, AppendEntry
  <2>2. journal \in Seq(Entry) /\ e.kind # "purchase"
    BY <1>1
  <2> HIDE DEF journal, e
  <2>3. /\ DOMAIN Append(journal, e) = DOMAIN journal \cup {Len(journal) + 1}
        /\ \A n \in DOMAIN journal : Append(journal, e)[n] = journal[n]
        /\ Append(journal, e)[Len(journal) + 1] = e
    BY <2>2
  <2>4. {n \in DOMAIN Append(journal, e) : Append(journal, e)[n].kind = "purchase"}
          = {n \in DOMAIN journal : journal[n].kind = "purchase"}
    BY <2>2, <2>3
  <2> QED
    BY <1>3, <2>1, <2>4 DEF Bought, journal
<1> QED
  BY <1>2, <1>3

LEMMA ReserveGivesNothing ==
  ASSUME TypeOK, AnyReserve, NEW v \in User
  PROVE  Bought(v)' = Bought(v) /\ wallet'[v] <= wallet[v]
<1> PICK u \in User, r \in ReservationId, tier \in Tiers, chars \in 1 .. MaxChars, at \in Time :
      \E pass \in ActivePass(u, at) \cup {NoPass} : Reserve(u, r, tier, chars, at, pass)
  BY DEF AnyReserve
<1> PICK pass \in ActivePass(u, at) \cup {NoPass} : Reserve(u, r, tier, chars, at, pass)
  OBVIOUS
<1> DEFINE available == Available(u, PeriodOf[at], pass)
           taken == Taken(ForChars(chars, tier), tier, available)
<1>1. PeriodOf[at] \in Period /\ chars \in Nat
  BY LedgerAssumption DEF Period
<1>2. available \in UnitsBySource /\ ForChars(chars, tier) \in Nat
  BY <1>1, AvailableType, ForCharsType
<1>3. taken \in UnitsBySource
  BY <1>2, TakenFits
<1>4. taken.credits \in Nat
  BY <1>3 DEF UnitsBySource
<1>5. Debit(u, r, tier, chars, at, pass, available)
  BY DEF Reserve
<1>6. /\ wallet' = [wallet EXCEPT ![u] = @ - taken.credits]
      /\ Journal(u, "consumption", taken.credits)
  BY <1>5 DEF Debit
<1> HIDE DEF taken
<1>7. wallet \in [User -> Nat]
  BY DEF TypeOK
<1> QED
  BY <1>4, <1>6, <1>7, JournalKeepsBought

LEMMA RefundGivesBack ==
  ASSUME TypeOK, AnyRefund, NEW v \in User
  PROVE  Bought(v)' = Bought(v) /\ (wallet'[v] <= wallet[v] \/ RefundedNow(v))
<1> PICK r \in ReservationId, chars \in 1 .. MaxChars : Refund(r, chars)
  BY DEF AnyRefund
<1> DEFINE row == reservations[r]
           given == Lesser(chars, row.chars)
           back == SplitRefund(row.taken, ForChars(given, row.tier))
<1>1. r \in DOMAIN reservations /\ row \in ReservationRow
  BY DEF Refund, TypeOK
<1>2. /\ row.user \in User /\ row.tier \in Tiers /\ row.taken \in UnitsBySource
      /\ row.chars \in Nat
  BY <1>1 DEF ReservationRow
<1>3. chars \in Nat
  BY LedgerAssumption
<1>4. given \in Nat
  <2> HIDE DEF row
  <2> QED
    BY <1>2, <1>3, LesserIsLeast
<1>5. back \in UnitsBySource
  BY <1>2, <1>4, ForCharsType, SplitRefundFits
<1>6. back.credits \in Nat
  BY <1>5 DEF UnitsBySource
<1>7. GiveBack(r, row, given) /\ ~row.refunded
  BY DEF Refund
<1> HIDE DEF given
<1>8. /\ wallet' = [wallet EXCEPT ![row.user] = @ + back.credits]
      /\ Journal(row.user, "refund", back.credits)
      /\ reservations' = [reservations EXCEPT ![r].refunded = TRUE, ![r].refundedChars = given]
  BY <1>7 DEF GiveBack
<1>9. reservations'[r].refunded
  <2>1. reservations'[r] = [[row EXCEPT !.refunded = TRUE] EXCEPT !.refundedChars = given]
    BY <1>1, <1>8
  <2> HIDE DEF row
  <2> QED
    BY <1>1, <2>1 DEF ReservationRow
<1>10. v = row.user => RefundedNow(v)
  BY <1>1, <1>7, <1>9 DEF RefundedNow
<1>11. wallet \in [User -> Nat]
  BY DEF TypeOK
<1> HIDE DEF back, row
<1>12. v # row.user => wallet'[v] = wallet[v]
  BY <1>2, <1>8, <1>11
<1>13. Bought(v)' = Bought(v)
  BY <1>2, <1>6, <1>8, JournalKeepsBought
<1> QED
  BY <1>10, <1>11, <1>12, <1>13

LEMMA DeletionGivesNothing ==
  ASSUME TypeOK, AnyDeletion, NEW v \in User
  PROVE  Bought(v)' \subseteq Bought(v) /\ wallet'[v] <= wallet[v]
<1> PICK u \in User : DeleteAccount(u)
  BY DEF AnyDeletion
<1>1. entries \in [User -> Seq(Entry)] /\ wallet \in [User -> Nat]
  BY DEF TypeOK
<1>2. entries'[v] = IF v = u THEN <<>> ELSE entries[v]
  BY <1>1 DEF DeleteAccount
<1>3. wallet'[v] = IF v = u THEN 0 ELSE wallet[v]
  BY <1>1 DEF DeleteAccount
<1> QED
  BY <1>1, <1>2, <1>3 DEF Bought

\* A new reference gives its offer, once; no other step gives anything.
LEMMA GrantGives ==
  ASSUME TypeOK, History, AnyGrant
  PROVE  /\ \A ref \in DOMAIN purchases : ref \in DOMAIN purchases' /\ purchases'[ref] = purchases[ref]
         /\ \A ref \in DOMAIN purchases' \ DOMAIN purchases : Given(ref)
         /\ \A p \in DOMAIN passes' :
              IF p \in DOMAIN passes THEN SameGrant(passes[p], passes'[p])
                                     ELSE p \in DOMAIN purchases' \ DOMAIN purchases
         /\ \A v \in User :
              GivenNow(v) \/ (Bought(v)' \subseteq Bought(v) /\ wallet'[v] <= wallet[v])
<1> PICK u \in User, ref \in PaymentRef, code \in OfferCode, at \in Time :
      \E startsAt \in PassStart(u, at) : Grant(u, ref, code, at, startsAt)
  BY DEF AnyGrant
<1> PICK startsAt \in PassStart(u, at) : Grant(u, ref, code, at, startsAt)
  OBVIOUS
<1> DEFINE offer == Offers[code]
           pass == [user |-> u, startsAt |-> startsAt, endsAt |-> startsAt + offer.days,
                    included |-> offer.units, used |-> 0]
           row == [user |-> u, offer |-> code]
<1>1. offer.units \in Nat \ {0} /\ offer.kind \in {"pass", "credits"}
  BY LedgerAssumption DEF Offer
<1>2. RecordPurchase(u, ref, code, startsAt) /\ ref \notin DOMAIN purchases
  BY DEF Grant
<1>3. purchases' = Insert(purchases, ref, row)
  BY <1>2 DEF RecordPurchase
<1>4. /\ DOMAIN purchases' = DOMAIN purchases \cup {ref}
      /\ purchases'[ref].user = u /\ purchases'[ref].offer = code
      /\ \A k \in DOMAIN purchases : purchases'[k] = purchases[k]
  BY <1>2, <1>3 DEF Insert
<1>5. ref \notin DOMAIN passes
  BY <1>2 DEF History, PassesArePurchased
<1>6. entries \in [User -> Seq(Entry)] /\ wallet \in [User -> Nat]
  BY DEF TypeOK
<1>7. CASE offer.kind = "pass"
  <2>1. passes' = Insert(passes, ref, pass) /\ UNCHANGED <<wallet, entries>>
    BY <1>2, <1>7 DEF RecordPurchase
  <2>2. DOMAIN passes' = DOMAIN passes \cup {ref} /\ passes'[ref] = pass
        /\ \A p \in DOMAIN passes : passes'[p] = passes[p]
    BY <1>5, <2>1 DEF Insert
  <2>3. Given(ref)
    BY <1>4, <1>7, <2>2 DEF Given
  <2>4. \A v \in User : Bought(v)' = Bought(v) /\ wallet'[v] <= wallet[v]
    BY <1>6, <2>1 DEF Bought
  <2> HIDE DEF pass
  <2>5. \A p \in DOMAIN passes' :
          IF p \in DOMAIN passes THEN SameGrant(passes[p], passes'[p]) ELSE p = ref
    BY <2>2 DEF SameGrant
  <2> QED
    BY <1>2, <1>4, <2>3, <2>4, <2>5
<1>8. CASE offer.kind = "credits"
  <2>1. /\ wallet' = [wallet EXCEPT ![u] = @ + offer.units]
        /\ entries' = [entries EXCEPT ![u] = Append(@, [kind |-> "purchase", units |-> offer.units])]
        /\ UNCHANGED passes
    BY <1>1, <1>2, <1>8 DEF RecordPurchase, Journal, AppendEntry
  <2>2. Given(ref)
    BY <1>4, <1>6, <1>8, <2>1 DEF Given
  <2>3. GivenNow(u)
    BY <1>2, <1>4, <1>8 DEF GivenNow
  <2>4. \A v \in User : v # u => Bought(v)' = Bought(v) /\ wallet'[v] <= wallet[v]
    <3>1. \A v \in User : v # u => entries'[v] = entries[v] /\ wallet'[v] = wallet[v]
      BY <1>6, <2>1
    <3> QED
      BY <1>6, <3>1 DEF Bought
  <2>5. \A p \in DOMAIN passes' : p \in DOMAIN passes /\ SameGrant(passes[p], passes'[p])
    BY <2>1 DEF SameGrant
  <2> QED
    BY <1>2, <1>4, <2>2, <2>3, <2>4, <2>5
<1> QED
  BY <1>1, <1>7, <1>8

\* A payment is honoured once and for ever: its offer comes with its reference,
\* which no step withdraws or rewrites, and nothing is given for it again.
THEOREM GrantedForeverHolds == Spec => GrantedForever
<1> DEFINE Kept == \A ref \in DOMAIN purchases :
                     /\ ref \in DOMAIN purchases'
                     /\ purchases'[ref] = purchases[ref]
                          \/ (purchases'[ref] = [purchases[ref] EXCEPT !.user = Detached]
                              /\ purchases[ref].user \notin users')
           Gives == \A ref \in DOMAIN purchases' \ DOMAIN purchases : Given(ref)
           Passes == \A p \in DOMAIN passes' :
                       IF p \in DOMAIN passes THEN SameGrant(passes[p], passes'[p])
                                              ELSE p \in DOMAIN purchases' \ DOMAIN purchases
           Credits == \A u \in User :
                        GivenNow(u) \/ (/\ Bought(u)' \subseteq Bought(u)
                                        /\ wallet'[u] <= wallet[u] \/ RefundedNow(u))
<1>1. TypeOK /\ History /\ [Next]_vars => [Kept /\ Gives /\ Passes /\ Credits]_vars
  <2> SUFFICES ASSUME TypeOK, History, [Next]_vars
               PROVE  (Kept /\ Gives /\ Passes /\ Credits) \/ UNCHANGED vars
    OBVIOUS
  <2>1. CASE AnyReserve \/ AnyRefund
    <3>1. OnlyUseMoves /\ UNCHANGED purchases
      BY <2>1, ReserveEffect, RefundEffect
    <3>2. Passes
      BY <3>1 DEF OnlyUseMoves, SameGrant
    <3>3. \A u \in User : Bought(u)' = Bought(u) /\ (wallet'[u] <= wallet[u] \/ RefundedNow(u))
      BY <2>1, ReserveGivesNothing, RefundGivesBack
    <3> QED
      BY <3>1, <3>2, <3>3
  <2>2. CASE AnyGrant
    BY <2>2, GrantGives
  <2>3. CASE AnyDeletion
    <3> PICK u \in User : DeleteAccount(u)
      BY <2>3 DEF AnyDeletion
    <3>1. /\ DOMAIN purchases' = DOMAIN purchases
          /\ \A k \in DOMAIN purchases :
               /\ purchases[k].user # u => purchases'[k] = purchases[k]
               /\ purchases[k].user = u => purchases'[k] = [purchases[k] EXCEPT !.user = Detached]
      BY DEF DeleteAccount
    <3>2. /\ u \notin users' /\ DOMAIN passes' \subseteq DOMAIN passes
          /\ \A p \in DOMAIN passes' : passes'[p] = passes[p]
      BY DEF DeleteAccount, Keep
    <3>3. Kept /\ Gives
      BY <3>1, <3>2
    <3>4. Passes
      BY <3>2 DEF SameGrant
    <3>5. Credits
      BY <2>3, DeletionGivesNothing
    <3> QED
      BY <3>3, <3>4, <3>5
  <2>4. CASE Tick
    <3>1. UNCHANGED <<users, passes, wallet, entries, purchases>>
      BY <2>4 DEF Tick
    <3>2. wallet \in [User -> Nat]
      BY DEF TypeOK
    <3> QED
      BY <3>1, <3>2 DEF SameGrant, Bought
  <2> QED
    BY <2>1, <2>2, <2>3, <2>4, NextByAction
<1> QED
  BY <1>1, TypeOKInvariant, HistoryInvariant, PTL DEF Spec, GrantedForever
=============================================================================
