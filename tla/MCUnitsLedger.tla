--------------------------- MODULE MCUnitsLedger ---------------------------
(* A small catalogue and calendar for UnitsLedger. *)
EXTENDS UnitsLedger, TLC

CONSTANTS u1, u2, r1, r2, p1, p2, none, gone

MCOffers == [pass |-> [kind |-> "pass", units |-> 2, days |-> 2],
             credits |-> [kind |-> "credits", units |-> 4, days |-> 0]]

\* Two instants a month.
MCPeriodOf == [t \in 0 .. 3 |-> t \div 2]

\* Users, conversions and payments are interchangeable.
MCSymmetry ==
  Permutations(User) \cup Permutations(ReservationId) \cup Permutations(PaymentRef)
=============================================================================
