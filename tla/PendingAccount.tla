---------------------------- MODULE PendingAccount -----------------------------
(***************************************************************************)
(* Card holds and gift card holds on the customer's one pending account per  *)
(* currency.  Neither part knows of the other, and the overdraft guard only  *)
(* refuses when the account as a whole runs dry: a part that takes more than *)
(* its own hold is paid for by somebody else's.                              *)
(***************************************************************************)
EXTENDS Integers, FiniteSets, Functions

CONSTANTS
    Auths, Events, Handlers, KindOf, AuthOf, AmountOf, Unnamed, NoEvent, OpeningCard,
    Submissions, Desks, PayoutOf, Nothing

VARIABLES
    pending,
    card, float, hold, opening, closing, drawn, posted, event, read,
    wallet, inventory, status, due, entries, desk, batch

Cards == INSTANCE CardHolds

Gifts == INSTANCE GiftCards

ASSUME PendingAccountAssumption ==
    /\ Cards!Assumption
    /\ Gifts!Assumption
    /\ IsFiniteSet(Auths) /\ IsFiniteSet(Events)
    /\ IsFiniteSet(Submissions)

cardVars == <<card, float, hold, opening, closing, drawn, posted, event, read>>
giftVars == <<wallet, inventory, status, due, entries, desk, batch>>
vars == <<pending, card, float, hold, opening, closing, drawn, posted, event, read,
          wallet, inventory, status, due, entries, desk, batch>>

Init == pending = 0 /\ Cards!Init /\ Gifts!Init

Next ==
    \/ Cards!Next /\ UNCHANGED giftVars
    \/ Gifts!Next /\ UNCHANGED cardVars

Spec == Init /\ [][Next]_vars

-----------------------------------------------------------------------------
(* Properties. *)

\* The type of every variable of both parts.
TypeOK == Cards!TypeOK /\ Gifts!TypeOK

\* What a charge has in pending: its hold while that is open, and what a
\* settlement below the hold left behind.
LeftOf(a) ==
    CASE Cards!Outcome(a) = "none"    -> hold[a]
      [] Cards!Outcome(a) = "settled" -> hold[a] - drawn[a]
      [] OTHER                        -> 0

\* What a gift card has there: its payout, from the approval to the decision.
HeldFor(s) == IF status[s] = "approved" THEN PayoutOf[s] ELSE 0

\* What an event moved that belongs to no hold: a settlement or an expiry that
\* names none, and an authorization told of again under another event id, whose
\* amount is held while the row keeps the first's.
StrayOf(e) ==
    IF e \notin posted THEN 0
    ELSE IF KindOf[e] = "authorization" THEN IF opening[AuthOf[e]] = e THEN 0 ELSE AmountOf[e]
    ELSE IF KindOf[e] # "refund" /\ AuthOf[e] = Unnamed THEN -AmountOf[e]
    ELSE 0

InCharges == [a \in Auths |-> LeftOf(a)]

Strays == [e \in Events |-> StrayOf(e)]

InCards == [s \in Submissions |-> HeldFor(s)]

\* The pending account is what its charges and gift cards have in it, more or less
\* what went past every hold: an event that names its charge, a release and a
\* clawback are never paid out of a hold of the other kind or of another charge,
\* in whatever order, how often and how much at once they come.
PendingIsTheHolds ==
    pending = SumFunctionOnSet(InCharges, Auths) + SumFunctionOnSet(Strays, Events)
                + SumFunctionOnSet(InCards, Submissions)

\* What events that name a charge took out of pending is the charge's own hold.
EachHoldPaysItself == Cards!EachHoldPaysItself

\* A charge is settled or has expired, by one event that names it, for good.
ClosedByOneEvent == Cards!ClosedByOneEvent

\* A gift card's status says which entries it has.
StatusTellsLedger == Gifts!StatusTellsLedger

-----------------------------------------------------------------------------
\* The inductive invariant of the two parts, and of the account they share.
IInv == Cards!IInv /\ Gifts!IInv

AccountInv == IInv /\ PendingIsTheHolds
=============================================================================
