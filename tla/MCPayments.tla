----------------------------- MODULE MCPayments -----------------------------
(* One user: a request, perhaps sent twice, and one with a bad phone. *)
EXTENDS Payments, TLC

CONSTANTS alice, key1, key2, phone1, phone2

First == [user |-> alice, key |-> key1, phone |-> phone1]
BadPhone == [user |-> alice, key |-> key2, phone |-> phone2]

MCIntents == {First, BadPhone}

MCSymmetry == Permutations(PaymentId) \cup Permutations(Client)
=============================================================================
