------------------------------- MODULE MCLedger -------------------------------
(* Small instances of Ledger: two customers' wallets, a float in two          *)
(* currencies, and the intents that make posts collide.                       *)
EXTENDS Ledger

CONSTANTS w1, w2, fN, fU, k1, k2, k3

MCCurrencyOf == [a \in {w1, w2, fN, fU} |-> IF a = fU THEN "USD" ELSE "NGN"]

Move(k, from, to, n) ==
    [key |-> k, kind |-> "plain", target |-> NoKey,
     legs |-> <<[account |-> from, amount |-> 0 - n], [account |-> to, amount |-> n]>>]

\* Two fundings, a retry with another amount, a transfer, a reversal that must
\* name the first and locks the same balance rows in the opposite order, a
\* reversal that names nothing, and an entry whose currencies mask each other
\* (+1 kobo against -1 cent).
MCIntents ==
    { Move(k1, fN, w1, 2),
      Move(k1, fN, w1, 1),
      Move(k3, w1, w2, 1),
      Move(k3, fN, w1, 1),
      Move(k3, fU, w1, 1),
      [Move(k2, w1, fN, 2) EXCEPT !.kind = "must_name", !.target = k1],
      [Move(k3, w1, fN, 1) EXCEPT !.kind = "must_name"] }
=============================================================================
