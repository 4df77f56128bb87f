--------------------------- MODULE UnitAllocation ---------------------------
(***************************************************************************)
(* The pure functions of the billing domain: how a demand of units is cut  *)
(* over the three sources of a user, and how a refund is cut over what a   *)
(* reservation took.  Units and characters are natural numbers.            *)
(***************************************************************************)
EXTENDS Naturals

\* The three sources of units (QuotaSource) and the voice tiers (VoiceTier).
Sources == {"free", "pass", "credits"}
Tiers == {"standard", "natural"}

UnitsBySource == [free : Nat, pass : Nat, credits : Nat]

Nothing == [free |-> 0, pass |-> 0, credits |-> 0]

Lesser(a, b) == IF a <= b THEN a ELSE b

\* VOICE_TIER_WEIGHTS and Units.forChars.
Weight(tier) == IF tier = "standard" THEN 1 ELSE 4
ForChars(chars, tier) == chars * Weight(tier)

TotalUnits(units) == units.free + units.pass + units.credits

\* The free tier only pays for standard voices.
UsableFreeForAnyTier(tier, available) == available.free        \* fault: tier unread
UsableFree(tier, available) == IF tier = "standard" THEN available.free ELSE 0

\* What the loop over DEBIT_ORDER takes: free, then pass, then credits.
Taken(requested, tier, available) ==
  LET free    == Lesser(requested, UsableFree(tier, available))
      pass    == Lesser(requested - free, available.pass)
      credits == Lesser(requested - free - pass, available.credits)
  IN  [free |-> free, pass |-> pass, credits |-> credits]

\* allocate() answers ok exactly when nothing is missing after the loop.
Covers(requested, tier, available) ==
  TotalUnits(Taken(requested, tier, available)) = requested

\* splitRefund: the loop over REFUND_ORDER, credits first and free last.
SplitRefundInDebitOrder(reserved, units) ==                    \* fault: the other order
  Taken(units, "standard", reserved)
SplitRefund(reserved, units) ==
  LET credits == Lesser(units, reserved.credits)
      pass    == Lesser(units - credits, reserved.pass)
      free    == Lesser(units - credits - pass, reserved.free)
  IN  [free |-> free, pass |-> pass, credits |-> credits]

\* Source by source, what is left of a once b is removed.
Less(a, b) == [free |-> a.free - b.free, pass |-> a.pass - b.pass,
               credits |-> a.credits - b.credits]
=============================================================================
