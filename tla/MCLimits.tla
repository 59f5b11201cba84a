------------------------------- MODULE MCLimits -------------------------------
(* Small instances of Limits: two transfers to two people, and a purchase.       *)
EXTENDS Limits, TLC

CONSTANTS t1, t2, b1, h1, h2, ann, ben

MCScopeOf == [r \in Requests |-> IF r = b1 THEN "purchase" ELSE "transfer"]
MCAmount == [r \in Requests |-> IF r = t1 THEN 1 ELSE 2]
MCPayee == [r \in Requests |-> IF r = b1 THEN Nobody ELSE IF r = t1 THEN ann ELSE ben]
MCCountHourly == [s \in Scopes |-> IF s = "transfer" THEN 1 ELSE 2]

Symmetry == Permutations(Handlers)

=============================================================================
