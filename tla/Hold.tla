--------------------------------- MODULE Hold ---------------------------------
(***************************************************************************)
(* What a flow that holds a customer's money promises, whatever its provider *)
(* does: the money is taken from the wallet once, waits in pending, and then *)
(* either is spent or comes back, once and in full, from wherever it is.     *)
(* Bank payouts and catalogue purchases are checked to implement this.       *)
(***************************************************************************)
EXTENDS Integers

CONSTANTS Holds

VARIABLES
    stage,     \* where each hold is
    amount,    \* what it holds
    wallet,    \* the customer's spendable balance
    pending,   \* the customer's pending balance, other holds included
    gone       \* what has left to the provider, the fees and the tax

Init ==
    /\ stage = [h \in Holds |-> "none"]
    /\ amount = [h \in Holds |-> 0]
    /\ wallet \in Nat
    /\ pending \in Nat
    /\ gone = 0

Reserve(h) ==
    /\ stage[h] = "none"
    /\ stage' = [stage EXCEPT ![h] = "held"]
    /\ \E n \in 1..wallet :
          /\ amount' = [amount EXCEPT ![h] = n]
          /\ wallet' = wallet - n
          /\ pending' = pending + n
    /\ UNCHANGED gone

Spend(h) ==
    /\ stage[h] = "held"
    /\ stage' = [stage EXCEPT ![h] = "spent"]
    /\ pending' = pending - amount[h]
    /\ gone' = gone + amount[h]
    /\ UNCHANGED <<amount, wallet>>

Return(h) ==
    /\ stage[h] \in {"held", "spent"}
    /\ stage' = [stage EXCEPT ![h] = "returned"]
    /\ wallet' = wallet + amount[h]
    /\ pending' = pending - IF stage[h] = "held" THEN amount[h] ELSE 0
    /\ gone' = gone - IF stage[h] = "spent" THEN amount[h] ELSE 0
    /\ UNCHANGED amount

Next == \E h \in Holds : Reserve(h) \/ Spend(h) \/ Return(h)

Spec == Init /\ [][Next]_<<stage, amount, wallet, pending, gone>>
=============================================================================
