----------------------------- MODULE CryptoAccount -----------------------------
(***************************************************************************)
(* Deposits and withdrawals of one crypto asset of one customer, over the     *)
(* wallet and the one pending account they share.  A withdrawal waiting for   *)
(* the chain and a deposit waiting for it lie in the same balance, and the    *)
(* overdraft guard cannot tell one from the other.                            *)
(***************************************************************************)
EXTENDS Integers, FiniteSets, Functions

CONSTANTS
    Withdrawals, Requests, AmountOf, Fees, FeesMove, Batch, NoOne, OpeningWallet,
    Deposits, Handlers, ValueOf, Swept, Nothing, Sweeper, MaxDeaths

VARIABLES
    wallet, pending, deaths,
    row, rows, posted, held, port, denied, wire, refused, pc, of, fee,
    chain, entries, noted, at, about

Out == INSTANCE CryptoWithdrawals

In == INSTANCE CryptoDeposits

ASSUME CryptoAccountAssumption ==
    /\ Out!Assumption
    /\ In!Assumption
    /\ IsFiniteSet(Withdrawals)
    /\ IsFiniteSet(Deposits)

outVars == <<row, rows, posted, held, port, denied, wire, refused, pc, of, fee>>
inVars == <<chain, entries, noted, at, about>>
vars == <<wallet, pending, deaths,
          row, rows, posted, held, port, denied, wire, refused, pc, of, fee,
          chain, entries, noted, at, about>>

Init == pending = 0 /\ deaths = MaxDeaths /\ Out!Init /\ In!Init

Next ==
    \/ Out!Next /\ UNCHANGED inVars
    \/ In!Next /\ UNCHANGED outVars

Spec == Init /\ [][Next]_vars

FairSpec == Spec /\ Out!Fairness /\ In!Fairness

-----------------------------------------------------------------------------
(* Properties. *)

\* What lies in pending for a withdrawal reserved and neither settled nor given
\* back, and for a deposit seen and not confirmed.
HeldFor(w) == IF posted[w] = {"reserve"} THEN held[w] ELSE 0

MaturingOf(d) == IF entries[d] = {"seen"} THEN ValueOf[d] ELSE 0

Leaving == [w \in Withdrawals |-> HeldFor(w)]

Arriving == [d \in Deposits |-> MaturingOf(d)]

\* The pending account is what it holds for withdrawals still open and deposits
\* still maturing: no settlement, return or confirmation was paid out of
\* somebody else's money, whatever the provider said in between.
PendingIsTheHolds ==
    pending = SumFunctionOnSet(Leaving, Withdrawals) + SumFunctionOnSet(Arriving, Deposits)

\* A withdrawal is given back only when the provider refused it, never got it, or
\* said that it failed: never on a silence, and never on its refusal of a second
\* message about one it had taken.
GivenBackOnItsWord == \A w \in Withdrawals : "reverse" \in posted[w] => w \in denied

\* What the provider has decided is learned, though every answer to the request
\* was lost, of the oldest open withdrawals; and a deposit the chain has buried
\* becomes spendable, though neither of its events ever came.
AnswersAreLearned ==
    /\ \A w \in Withdrawals :
          port[w] \in {"confirmed", "failed"} /\ w \in Out!Window
              ~> row[w].status \in {"confirmed", "failed"}
    /\ \A d \in Deposits :
          chain[d] = "deep" /\ d \in Swept ~> "confirmed" \in entries[d]

-----------------------------------------------------------------------------
\* The inductive invariant of the account the two share.
AccountInv ==
    /\ Out!IInv /\ In!IInv
    /\ Out!IdleIsFree /\ Out!OneQuote /\ Out!RowTellsEntries
    /\ PendingIsTheHolds
=============================================================================
