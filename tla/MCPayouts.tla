------------------------------ MODULE MCPayouts -------------------------------
(* Small instances of Payouts: two submissions of one payout, sharing the       *)
(* pending account with a card hold of 3.                                       *)
EXTENDS Payouts, TLC

CONSTANTS a, r1, r2, w1, w2

\* Two submissions of one payout.
MCForOne == (r1 :> a) @@ (r2 :> a)

MCAmountOf == (r1 :> 2) @@ (r2 :> 2)

MCFeeOf == (r1 :> 1) @@ (r2 :> 1)

=============================================================================
