------------------------------- MODULE MCPending -------------------------------
(* A charge of 2 and a charge of 1 on one card, and a gift card of 2.  The first *)
(* charge is told of by a settlement above it, one below it, and an expiry, and   *)
(* its authorization by a second event; the other by a settlement and a refund.    *)
(* A settlement and an expiry name no authorization.                              *)
EXTENDS PendingAccount, TLC

CONSTANTS ca, cb, h1, h2, d1, d2, g, authA, overA, underA, expiryA, authB, settleB, refundB,
    againA, looseSettle, looseExpiry

MCKindOf ==
    [e \in {authA, authB, againA} |-> "authorization"]
    @@ [e \in {overA, underA, settleB, looseSettle} |-> "settlement"]
    @@ [e \in {expiryA, looseExpiry} |-> "expiry"] @@ (refundB :> "refund")

MCAuthOf ==
    [e \in {authA, overA, underA, expiryA, againA} |-> ca]
    @@ [e \in {authB, settleB, refundB} |-> cb]
    @@ [e \in {looseSettle, looseExpiry} |-> Unnamed]

MCAmountOf ==
    (authA :> 2) @@ (overA :> 3) @@ (expiryA :> 3)
    @@ [e \in {underA, authB, settleB, refundB, againA, looseSettle, looseExpiry} |-> 1]

MCPayoutOf == g :> 2

MCSymmetry == Permutations({h1, h2}) \cup Permutations({d1, d2})

=============================================================================
