------------------------------- MODULE Deposits --------------------------------
(***************************************************************************)
(* Money arriving on customers' account numbers: the webhooks of three       *)
(* rails (apps/api/src/funding/deposit-webhook.service.ts,                   *)
(* paystack-webhook.service.ts and kora-deposit.service.ts), the sweep that  *)
(* looks for lost ones (deposit-reconciliation.service.ts) and the staff who *)
(* attribute what is held in suspense (admin.service.ts, attributeDeposit).  *)
(*                                                                          *)
(* A rail tells of an arrival never, once or many times.  A handler decides  *)
(* between the customer's wallet and suspense on what it reads, posts, and   *)
(* writes the deposits row in a transaction of its own.                      *)
(***************************************************************************)
EXTENDS Integers, FiniteSets

CONSTANTS
    Deposits,    \* arrivals, by the provider's reference, each on an account of its own
    IdOf,        \* deposit -> the id of that account
    Window,      \* how many active accounts the sweep reads (500)
    Handlers,    \* runs of the webhooks
    RailOf,      \* deposit -> its rail
    Asked,       \* the rails this deployment can ask what arrived
    Large,       \* deposits above the lower of two ceilings
    MaxArrivals, \* bound: how many of the deposits arrive
    Nothing

Rails == {"bitnob", "paystack", "kora"}

ASSUME DepositsAssumption ==
    /\ RailOf \in [Deposits -> Rails]
    /\ IdOf \in [Deposits -> Nat]
    /\ Window \in Nat \ {0}
    /\ Asked \subseteq Rails
    /\ IsFiniteSet(Deposits) /\ MaxArrivals \in Nat
    /\ Nothing \notin Deposits

VARIABLES
    arrived,     \* deposits the rail knows of
    account,     \* virtual_accounts: the status of the account each lands on
    ceiling,     \* the deposit ceiling of the settings
    entry,       \* what the entry under <provider>:<reference> credits
    heldEntry,   \* what the entry under bitnob:<event id> credits
    row,         \* deposits.status, "absent" without a row
    attributed,  \* deposits whose attribution has an entry
    tried,       \* the resolutions somebody posted on, history
    pc, about, plan,      \* each handler
    sweeping,    \* what the accounts the sweep read have still to be asked about
    spc, swept   \* the sweep, and the deposit it is at

booked == <<entry, heldEntry, row, attributed, tried>>
world == <<arrived, account, ceiling>>
handler == <<pc, about, plan>>
sweep == <<sweeping, spc, swept>>
vars == <<arrived, account, ceiling, entry, heldEntry, row, attributed, tried,
          pc, about, plan, sweeping, spc, swept>>

Init ==
    /\ arrived = {}
    /\ account = [d \in Deposits |-> "active"]
    /\ ceiling = "low"
    /\ entry = [d \in Deposits |-> "none"]
    /\ heldEntry = [d \in Deposits |-> "none"]
    /\ row = [d \in Deposits |-> "absent"]
    /\ attributed = {}
    /\ tried = [d \in Deposits |-> {}]
    /\ pc = [h \in Handlers |-> "idle"]
    /\ about = [h \in Handlers |-> Nothing]
    /\ plan = [h \in Handlers |-> "none"]
    /\ sweeping = {}
    /\ spc = "idle"
    /\ swept = Nothing

-----------------------------------------------------------------------------
(* The world. *)

\* The rail receives the money.
Arrive(d) ==
    /\ d \notin arrived
    /\ Cardinality(arrived) < MaxArrivals
    /\ arrived' = arrived \cup {d}
    /\ UNCHANGED <<account, ceiling, booked, handler, sweep>>

Close(d) ==
    /\ account[d] = "active"
    /\ account' = [account EXCEPT ![d] = "closed"]
    /\ UNCHANGED <<arrived, ceiling, booked, handler, sweep>>

\* Staff change the setting, whenever they like.
MoveCeiling ==
    /\ ceiling' = IF ceiling = "low" THEN "high" ELSE "low"
    /\ UNCHANGED <<arrived, account, booked, handler, sweep>>

-----------------------------------------------------------------------------
(* The webhooks. *)

Above(d) == d \in Large /\ ceiling = "low"

\* Where a delivery takes the money: the ceiling is asked first on two of the
\* rails, the account first on the third, and either holds it in suspense.
Resolution(d) ==
    IF RailOf[d] = "kora" /\ account[d] = "closed" THEN "unattributed"
    ELSE IF Above(d) THEN "above"
    ELSE IF account[d] = "closed" THEN "unattributed"
    ELSE "credit"

\* handle and credit, up to the post.
Deliver(h, d) ==
    /\ pc[h] = "idle"
    /\ d \in arrived
    /\ pc' = [pc EXCEPT ![h] = "post"]
    /\ about' = [about EXCEPT ![h] = d]
    /\ plan' = [plan EXCEPT ![h] = Resolution(d)]
    /\ UNCHANGED <<world, booked, sweep>>

\* The handler answers.
Ends(h) ==
    /\ pc' = [pc EXCEPT ![h] = "idle"]
    /\ about' = [about EXCEPT ![h] = Nothing]
    /\ plan' = [plan EXCEPT ![h] = "none"]

Credits(p) == IF p = "credit" THEN "wallet" ELSE "suspense"

\* On this rail money held above the ceiling has a key of its own.
UsesEventKey(d, p) == RailOf[d] = "bitnob" /\ p = "above"

\* #record of two of the rails takes a replay for a row already written.
LeavesReplaysAlone(d, p) == RailOf[d] # "kora" /\ p # "above"

Tries(d, p) == tried' = [tried EXCEPT ![d] = @ \cup {p}]

\* Faulty variant: the row follows the reading of the delivery, which may not be
\* the one whose entry was posted.
PostAlwaysWrites(h) ==
    LET d == about[h] IN
    /\ pc[h] = "post"
    /\ entry' = [entry EXCEPT ![d] = IF @ = "none" THEN Credits(plan[h]) ELSE @]
    /\ Tries(d, plan[h])
    /\ pc' = [pc EXCEPT ![h] = "row"]
    /\ UNCHANGED <<world, heldEntry, row, attributed, about, plan, sweep>>

\* The ledger post: provider_float -> wallet or suspense, once per key.
Post(h) ==
    LET d == about[h]
        p == plan[h]
        replay == IF UsesEventKey(d, p) THEN heldEntry[d] # "none" ELSE entry[d] # "none"
    IN
    /\ pc[h] = "post"
    /\ IF replay
       THEN UNCHANGED <<entry, heldEntry>>
       ELSE IF UsesEventKey(d, p)
       THEN heldEntry' = [heldEntry EXCEPT ![d] = "suspense"] /\ UNCHANGED entry
       ELSE entry' = [entry EXCEPT ![d] = Credits(p)] /\ UNCHANGED heldEntry
    /\ Tries(d, p)
    /\ IF replay /\ LeavesReplaysAlone(d, p)
       THEN Ends(h)
       ELSE pc' = [pc EXCEPT ![h] = "row"] /\ UNCHANGED <<about, plan>>
    /\ UNCHANGED <<world, row, attributed, sweep>>

Written(p) == IF p = "credit" THEN "credited" ELSE "suspense"

\* The deposits row, ON CONFLICT DO NOTHING.
InsertRow(h) ==
    /\ pc[h] = "row"
    /\ row' = [row EXCEPT ![about[h]] = IF @ = "absent" THEN Written(plan[h]) ELSE @]
    /\ Ends(h)
    /\ UNCHANGED <<world, entry, heldEntry, attributed, tried, sweep>>

\* The process dies, at any step.
Die(h) ==
    /\ pc[h] # "idle"
    /\ Ends(h)
    /\ UNCHANGED <<world, booked, sweep>>

-----------------------------------------------------------------------------
(* The sweep, under its advisory lock. *)

\* The active accounts with the lowest ids; an account after them is not read
\* until one before it is closed.
Read ==
    LET active == {d \in Deposits : account[d] = "active"} IN
    {d \in active : Cardinality({c \in active : IdOf[c] < IdOf[d]}) < Window}

\* Faulty variant: the accounts of the default rail only.
SweepDefaultRail ==
    /\ spc = "idle"
    /\ sweeping' = {d \in Read : RailOf[d] = "bitnob"}
    /\ spc' = "look"
    /\ UNCHANGED <<world, booked, handler, swept>>

\* #sweepLocked reads the accounts it will ask about.
SweepStart ==
    /\ spc = "idle"
    /\ sweeping' = Read
    /\ spc' = "look"
    /\ UNCHANGED <<world, booked, handler, swept>>

\* #canAsk, #reconcile: an account on a rail this deployment does not have is
\* skipped; a deposit with a row is known; one above the ceiling is left to the
\* webhook.
SweepLook(d) ==
    /\ spc = "look" /\ d \in sweeping
    /\ sweeping' = sweeping \ {d}
    /\ IF RailOf[d] \in Asked /\ d \in arrived /\ row[d] = "absent" /\ ~Above(d)
       THEN spc' = "post" /\ swept' = d
       ELSE UNCHANGED <<spc, swept>>
    /\ UNCHANGED <<world, booked, handler>>

\* The same key as the webhook's.
SweepPost ==
    /\ spc = "post"
    /\ entry' = [entry EXCEPT ![swept] = IF @ = "none" THEN "wallet" ELSE @]
    /\ Tries(swept, "credit")
    /\ spc' = "row"
    /\ UNCHANGED <<world, heldEntry, row, attributed, handler, sweeping, swept>>

\* The row says 'credited', after a replay too.
SweepRow ==
    /\ spc = "row"
    /\ row' = [row EXCEPT ![swept] = IF @ = "absent" THEN "credited" ELSE @]
    /\ spc' = "look"
    /\ swept' = Nothing
    /\ UNCHANGED <<world, entry, heldEntry, attributed, tried, handler, sweeping>>

\* The sweep is done, or dies; the interval starts another.
SweepEnd ==
    /\ spc # "idle"
    /\ sweeping' = {}
    /\ spc' = "idle"
    /\ swept' = Nothing
    /\ UNCHANGED <<world, booked, handler>>

-----------------------------------------------------------------------------
(* Attribution. *)

\* Faulty variant: the row moves after the entry, unguarded, and not at all
\* when the process dies in between.
AttributeApart(d) ==
    /\ row[d] = "suspense"
    /\ attributed' = attributed \cup {d}
    /\ \E s \in {"suspense", "credited"} : row' = [row EXCEPT ![d] = s]
    /\ UNCHANGED <<world, entry, heldEntry, tried, handler, sweep>>

\* attributeDeposit: suspense -> wallet for a row still in suspense under the
\* lock, entry and row together.
Attribute(d) ==
    /\ row[d] = "suspense"
    /\ attributed' = attributed \cup {d}
    /\ row' = [row EXCEPT ![d] = "credited"]
    /\ UNCHANGED <<world, entry, heldEntry, tried, handler, sweep>>

HandlerStep(h) == Post(h) \/ InsertRow(h) \/ Die(h)

SweepStep == SweepStart \/ (\E d \in Deposits : SweepLook(d)) \/ SweepPost \/ SweepRow

Next ==
    \/ \E d \in Deposits : Arrive(d) \/ Close(d) \/ Attribute(d)
    \/ MoveCeiling
    \/ \E h \in Handlers : HandlerStep(h) \/ (\E d \in Deposits : Deliver(h, d))
    \/ SweepStep
    \/ SweepEnd

Spec == Init /\ [][Next]_vars

\* The sweep's interval goes on: a sweep that dies is followed by another, and
\* not every one dies before the same deposit or at its post.
Fairness ==
    /\ WF_vars(SweepStart)
    /\ \A d \in Deposits : SF_vars(SweepLook(d))
    /\ SF_vars(SweepPost)
    /\ SF_vars(SweepRow)
    /\ WF_vars(SweepEnd /\ sweeping = {} /\ spc = "look")

FairSpec == Spec /\ Fairness

-----------------------------------------------------------------------------
(* Properties. *)

\* The arrival was read both ways where a reading is not checked against the
\* entry: the ceiling moved between two posts or, on the third rail, where the
\* row is written after a replay too, the account was closed between them.
ReadApart(d) ==
    \/ {"credit", "above"} \subseteq tried[d]
    \/ RailOf[d] = "kora" /\ {"credit", "unattributed"} \subseteq tried[d]

\* The customer is credited at most once for an arrival, by a webhook, the sweep
\* or a member of staff, wherever one of them died, whatever the order of two
\* deliveries and however often accounts are closed, unless the arrival was read
\* apart.
CreditedOnce == \A d \in Deposits : entry[d] = "wallet" /\ d \in attributed => ReadApart(d)

\* What the staff see in suspense is there: a row in suspense has an entry that
\* put the money there, which nobody has taken out since; unless the arrival was
\* read apart on a rail that keeps one key for both readings.
SuspenseIsThere ==
    \A d \in Deposits : row[d] = "suspense" =>
        /\ d \notin attributed
        /\ "suspense" \in {entry[d], heldEntry[d]} \/ (ReadApart(d) /\ RailOf[d] # "bitnob")

\* A lost webhook is noticed: an arrival within the ceiling on an account that
\* stays open, and stays among the first the sweep reads, on a rail this deployment
\* can ask, has a row in the end, though no webhook may ever come, and though the
\* ones that came died before they wrote it.
ArrivalIsBooked ==
    \A d \in Deposits :
        d \in arrived /\ RailOf[d] \in Asked ~> (row[d] # "absent" \/ d \notin Read \/ Above(d))
=============================================================================
