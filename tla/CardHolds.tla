------------------------------- MODULE CardHolds -------------------------------
(***************************************************************************)
(* The card events of one customer: WebhookService.handle                    *)
(* (apps/api/src/cards/webhook.service.ts) and toLedgerIntent                *)
(* (packages/providers/src/bitnob/webhooks.ts).                              *)
(*                                                                          *)
(* An event is one event_id of the issuer; it can be delivered in any order, *)
(* any number of times, and to two handlers at once.  A handler reads the    *)
(* hold an event resolves before its transaction and posts on what it read.  *)
(* A settlement or an expiry that names no authorization is matched to none:  *)
(* it posts what its payload says out of the account all holds share.        *)
(* Declines, which move no money, are left out.                              *)
(***************************************************************************)
EXTENDS Integers, FiniteSetsExt

CONSTANTS
    Auths,        \* authorizations, by the issuer's transaction id
    Events,       \* event ids
    Handlers,     \* runs of the webhook
    KindOf,       \* event -> what it tells
    AuthOf,       \* event -> the authorization it is or names, or Unnamed
    AmountOf,     \* event -> the amount in its payload
    Unnamed, NoEvent,
    OpeningCard   \* the balance of customer_card

VARIABLES
    card, pending, float,   \* the balances the entries move
    hold,      \* card_authorizations: the amount, 0 without a row
    opening,   \* card_authorizations: the event whose entry the row has
    closing,   \* card_settlements: the event whose entry closed the hold
    drawn,     \* what entries of events that name it took out of pending
    posted,    \* events whose key has an entry
    event,     \* handler -> the event it is at, NoEvent when idle
    read       \* handler -> the outcome of the hold as it read it

Kinds == {"authorization", "settlement", "expiry", "refund"}

Assumption ==
    /\ KindOf \in [Events -> Kinds]
    /\ AuthOf \in [Events -> Auths \cup {Unnamed}]
    /\ \A e \in Events : KindOf[e] = "authorization" => AuthOf[e] # Unnamed
    /\ Unnamed \notin Auths
    /\ AmountOf \in [Events -> Nat \ {0}]
    /\ NoEvent \notin Events
    /\ OpeningCard \in Nat

rows == <<hold, opening, closing>>
vars == <<card, pending, float, hold, opening, closing, drawn, posted, event, read>>

Outcomes == {"none", "settled", "expired"}

\* How a hold was closed, from its card_settlements row.
Outcome(a) ==
    IF closing[a] = NoEvent THEN "none"
    ELSE IF KindOf[closing[a]] = "settlement" THEN "settled" ELSE "expired"

Init ==
    /\ card = OpeningCard
    /\ pending \in Nat
    /\ float = 0
    /\ hold = [a \in Auths |-> 0]
    /\ opening = [a \in Auths |-> NoEvent]
    /\ closing = [a \in Auths |-> NoEvent]
    /\ drawn = [a \in Auths |-> 0]
    /\ posted = {}
    /\ event = [h \in Handlers |-> NoEvent]
    /\ read = [h \in Handlers |-> "none"]

\* It resolves a hold, and says which.
Resolves(e) == KindOf[e] \in {"settlement", "expiry"} /\ AuthOf[e] # Unnamed

\* Whether an event goes on to post.  One that resolves a hold we have no row
\* for is refused; one whose hold is closed is acknowledged, unless it is a
\* settlement of a hold that expired; one that names no hold always goes on.
GoesOn(e, outcome) ==
    Resolves(e) => /\ hold[AuthOf[e]] > 0
                   /\ \/ outcome = "none"
                      \/ KindOf[e] = "settlement" /\ outcome = "expired"

\* handle, up to the post: #holdOf reads without a lock.
Receive(h, e) ==
    /\ event[h] = NoEvent
    /\ GoesOn(e, Outcome(AuthOf[e]))
    /\ event' = [event EXCEPT ![h] = e]
    /\ read' = [read EXCEPT ![h] = IF Resolves(e) THEN Outcome(AuthOf[e]) ELSE "none"]
    /\ UNCHANGED <<card, pending, float, rows, drawn, posted>>

\* The handler answers, or throws for the issuer to deliver again.
Leave(h) ==
    /\ event' = [event EXCEPT ![h] = NoEvent]
    /\ read' = [read EXCEPT ![h] = "none"]

Lesser(m, n) == IF m < n THEN m ELSE n

\* The first entry of an event: its key is free.
Enters(h, k) ==
    /\ event[h] # NoEvent
    /\ KindOf[event[h]] = k
    /\ event[h] \notin posted
    /\ posted' = posted \cup {event[h]}
    /\ Leave(h)

\* An authorization: card -> pending, and its row on the same transaction,
\* ON CONFLICT DO NOTHING.
Authorize(h) ==
    LET e == event[h]  a == AuthOf[e]  n == AmountOf[e] IN
    /\ Enters(h, "authorization")
    /\ card >= n
    /\ card' = card - n
    /\ pending' = pending + n
    /\ hold' = [hold EXCEPT ![a] = IF @ = 0 THEN n ELSE @]
    /\ opening' = [opening EXCEPT ![a] = IF @ = NoEvent THEN e ELSE @]
    /\ UNCHANGED <<float, closing, drawn>>

\* Faulty variant: the whole settlement is taken from pending.
SettleWhole(h) ==
    LET e == event[h]  a == AuthOf[e]  n == AmountOf[e] IN
    /\ Enters(h, "settlement") /\ Resolves(e)
    /\ read[h] = "none" /\ closing[a] = NoEvent
    /\ pending >= n
    /\ pending' = pending - n
    /\ float' = float + n
    /\ drawn' = [drawn EXCEPT ![a] = @ + n]
    /\ closing' = [closing EXCEPT ![a] = e]
    /\ UNCHANGED <<card, hold, opening>>

\* A settlement of a hold read open, checked again under the row lock: the hold
\* pays, and the card pays what exceeds it.
Settle(h) ==
    LET e == event[h]
        a == AuthOf[e]
        n == AmountOf[e]
        paid == Lesser(n, hold[a])
    IN
    /\ Enters(h, "settlement") /\ Resolves(e)
    /\ read[h] = "none" /\ closing[a] = NoEvent
    /\ pending >= paid /\ card >= n - paid
    /\ pending' = pending - paid
    /\ card' = card - (n - paid)
    /\ float' = float + n
    /\ drawn' = [drawn EXCEPT ![a] = @ + paid]
    /\ closing' = [closing EXCEPT ![a] = e]
    /\ UNCHANGED <<hold, opening>>

\* A settlement of a hold read expired takes the spend off the card.  No lock
\* and no row: nothing is left to close.
SettleLate(h) ==
    LET n == AmountOf[event[h]] IN
    /\ Enters(h, "settlement")
    /\ read[h] = "expired"
    /\ card >= n
    /\ card' = card - n
    /\ float' = float + n
    /\ UNCHANGED <<pending, rows, drawn>>

\* Faulty variant: the hold read open is not looked at again under the lock; the
\* row of an earlier outcome stays.
ExpireUnlocked(h) ==
    LET e == event[h]  a == AuthOf[e] IN
    /\ Enters(h, "expiry") /\ Resolves(e)
    /\ pending >= hold[a]
    /\ pending' = pending - hold[a]
    /\ card' = card + hold[a]
    /\ drawn' = [drawn EXCEPT ![a] = @ + hold[a]]
    /\ closing' = [closing EXCEPT ![a] = IF @ = NoEvent THEN e ELSE @]
    /\ UNCHANGED <<float, hold, opening>>

\* An expiry gives back what the hold held, whatever the payload says.
Expire(h) ==
    LET e == event[h]  a == AuthOf[e] IN
    /\ Enters(h, "expiry") /\ Resolves(e)
    /\ closing[a] = NoEvent
    /\ pending >= hold[a]
    /\ pending' = pending - hold[a]
    /\ card' = card + hold[a]
    /\ drawn' = [drawn EXCEPT ![a] = @ + hold[a]]
    /\ closing' = [closing EXCEPT ![a] = e]
    /\ UNCHANGED <<float, hold, opening>>

\* A settlement that names no authorization: its payload's amount out of pending,
\* no lock and no row.  The overdraft guard decides.
SettleUnnamed(h) ==
    LET n == AmountOf[event[h]] IN
    /\ Enters(h, "settlement") /\ ~Resolves(event[h])
    /\ pending >= n
    /\ pending' = pending - n
    /\ float' = float + n
    /\ UNCHANGED <<card, rows, drawn>>

\* An expiry that names none.
ExpireUnnamed(h) ==
    LET n == AmountOf[event[h]] IN
    /\ Enters(h, "expiry") /\ ~Resolves(event[h])
    /\ pending >= n
    /\ pending' = pending - n
    /\ card' = card + n
    /\ UNCHANGED <<float, rows, drawn>>

\* A refund is paid whatever it answers.
Refund(h) ==
    LET n == AmountOf[event[h]] IN
    /\ Enters(h, "refund")
    /\ card' = card + n
    /\ float' = float - n
    /\ UNCHANGED <<pending, rows, drawn>>

\* The handler ends without an entry of its own: a replayed key, a hold that
\* moved under the lock, an account that cannot cover it, the process's death.
EndWithout(h) ==
    /\ event[h] # NoEvent
    /\ Leave(h)
    /\ UNCHANGED <<card, pending, float, rows, drawn, posted>>

Next ==
    \E h \in Handlers :
        \/ \E e \in Events : Receive(h, e)
        \/ Authorize(h) \/ Settle(h) \/ SettleLate(h) \/ Expire(h) \/ Refund(h)
        \/ SettleUnnamed(h) \/ ExpireUnnamed(h)
        \/ EndWithout(h)

Spec == Init /\ [][Next]_vars

-----------------------------------------------------------------------------
(* Properties. *)

\* The type of every variable.
TypeOK ==
    /\ card \in Nat /\ pending \in Nat /\ float \in Int
    /\ hold \in [Auths -> Nat]
    /\ opening \in [Auths -> Events \cup {NoEvent}]
    /\ closing \in [Auths -> Events \cup {NoEvent}]
    /\ drawn \in [Auths -> Nat]
    /\ posted \subseteq Events
    /\ event \in [Handlers -> Events \cup {NoEvent}]
    /\ read \in [Handlers -> Outcomes]

\* No event that names its charge is paid for out of another hold: what such
\* events took out of the shared pending account is nothing while the hold they
\* name is open, at most the hold once it is settled, and all of it once it has
\* expired.
EachHoldPaysItself ==
    \A a \in Auths :
        CASE Outcome(a) = "none"    -> drawn[a] = 0
          [] Outcome(a) = "settled" -> drawn[a] = Lesser(AmountOf[closing[a]], hold[a])
          [] OTHER                  -> drawn[a] = hold[a]

Expiries(a) == {e \in posted : AuthOf[e] = a /\ KindOf[e] = "expiry"}

Settlements(a) == {e \in posted : AuthOf[e] = a /\ KindOf[e] = "settlement"}

\* A hold is closed by one event that names it and stays so: at most one of these
\* expiries is posted, and a settlement besides the one that closed it only after
\* an expiry.
ClosedByOneEvent ==
    \A a \in Auths :
        CASE Outcome(a) = "none"    -> Expiries(a) \cup Settlements(a) = {}
          [] Outcome(a) = "settled" -> Expiries(a) = {} /\ Settlements(a) = {closing[a]}
          [] OTHER                  -> Expiries(a) = {closing[a]}

\* A closed hold has a row and the event that closed it, and a handler that read
\* 'expired' is at a settlement of a hold that is.
ReadsAreLasting ==
    /\ \A a \in Auths : closing[a] # NoEvent =>
           Resolves(closing[a]) /\ AuthOf[closing[a]] = a /\ hold[a] > 0
    /\ \A h \in Handlers :
          /\ event[h] = NoEvent => read[h] = "none"
          /\ event[h] # NoEvent /\ Resolves(event[h]) => hold[AuthOf[event[h]]] > 0
          /\ event[h] # NoEvent /\ read[h] = "expired"
                => /\ KindOf[event[h]] = "settlement" /\ Resolves(event[h])
                   /\ Outcome(AuthOf[event[h]]) = "expired"

\* A row was written with the entry of an authorization, the first there was.
RowsHaveEntries ==
    \A a \in Auths :
        /\ opening[a] = NoEvent <=> hold[a] = 0
        /\ opening[a] # NoEvent => opening[a] \in posted /\ hold[a] = AmountOf[opening[a]]

\* The inductive invariant of this part.
IInv == TypeOK /\ EachHoldPaysItself /\ ClosedByOneEvent /\ ReadsAreLasting /\ RowsHaveEntries
=============================================================================
