----------------------------- MODULE AtomicLedger -----------------------------
(***************************************************************************)
(* What the ledger promises its callers: a balanced entry under a fresh key  *)
(* is written all at once, or not at all, and moves exactly its own legs;    *)
(* customer accounts end it covered.  Ledger.tla, which writes the legs one  *)
(* statement at a time under row locks, is checked to implement this.        *)
(***************************************************************************)
EXTENDS Integers, Sequences, FiniteSets, Functions

CONSTANTS Accounts, Customer, Currencies, CurrencyOf, Intents

VARIABLES journal, balance

\* The sum of those of the legs that the set names.
SumOf(legs, S) == SumFunctionOnSet([n \in DOMAIN legs |-> legs[n].amount], S)

\* What the legs do to one account.
Effect(legs, a) == SumOf(legs, {n \in DOMAIN legs : legs[n].account = a})

Init ==
    /\ journal = <<>>
    /\ balance = [a \in Accounts |-> 0]

\* One entry, atomically.
PostEntry(i) ==
    /\ \A n \in DOMAIN journal : journal[n].key # i.key
    /\ \A c \in Currencies :
          SumOf(i.legs, {n \in DOMAIN i.legs : CurrencyOf[i.legs[n].account] = c}) = 0
    /\ journal' = Append(journal, [key |-> i.key, legs |-> i.legs])
    /\ balance' = [a \in Accounts |-> balance[a] + Effect(i.legs, a)]
    /\ \A a \in Customer : balance'[a] >= 0

Next == \E i \in Intents : PostEntry(i)

Spec == Init /\ [][Next]_<<journal, balance>>
=============================================================================
