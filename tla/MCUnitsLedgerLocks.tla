------------------------- MODULE MCUnitsLedgerLocks -------------------------
(* Two connections on one account. *)
EXTENDS UnitsLedgerLocks, TLC

CONSTANTS u1, r1, r2, p1, p2, t1, t2, none, gone

MCOffers == [pass |-> [kind |-> "pass", units |-> 2, days |-> 2],
             credits |-> [kind |-> "credits", units |-> 2, days |-> 0]]

MCPeriodOf == [t \in 0 .. 1 |-> 0]

MCDemands == {[tier |-> "standard", chars |-> 3], [tier |-> "natural", chars |-> 1]}

MCSymmetry ==
  Permutations(Tx) \cup Permutations(ReservationId) \cup Permutations(PaymentRef)
=============================================================================
