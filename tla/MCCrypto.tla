------------------------------- MODULE MCCrypto --------------------------------
(* Two submissions of one withdrawal of 1 whose fee is 1, beside a deposit of 2;  *)
(* the sweeps die once between them.                                              *)
EXTENDS CryptoAccount, TLC

CONSTANTS w1, r1, r2, d1, h1

MCAmountOf == [w \in Withdrawals |-> 1]

MCValueOf == [d \in Deposits |-> 2]

=============================================================================
