----------------------------- MODULE MCPurchases ------------------------------
(* A small instance of Purchases: two submissions of one purchase, sharing the  *)
(* pending account with a payout of 3.                                          *)
EXTENDS Purchases, TLC

CONSTANTS k1, a, r1, r2, w1, w2

\* Two submissions of one purchase.
MCFor == (r1 :> a) @@ (r2 :> a)

MCAmountOf == (r1 :> 2) @@ (r2 :> 2)

MCKeyOf == a :> k1
=============================================================================
