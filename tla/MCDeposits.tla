------------------------------ MODULE MCDeposits ------------------------------
(* An account on each of the three rails and an arrival on one of them, all   *)
(* above the ceiling while it is low; two deliveries at a time.  The sweep     *)
(* reads two accounts, so the third one's turn comes when one before it is     *)
(* closed, and the second one's rail is not among those it can ask.            *)
EXTENDS Deposits, TLC

CONSTANTS onPaystack, onKora, onBitnob, h1, h2

MCRailOf ==
    [d \in Deposits |-> IF d = onKora THEN "kora"
                       ELSE IF d = onBitnob THEN "bitnob" ELSE "paystack"]

MCIdOf == [d \in Deposits |-> IF d = onBitnob THEN 1 ELSE IF d = onPaystack THEN 2 ELSE 3]

=============================================================================
