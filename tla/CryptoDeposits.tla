---------------------------- MODULE CryptoDeposits -----------------------------
(***************************************************************************)
(* Crypto arriving for one customer and asset: the webhook                    *)
(* (apps/api/src/crypto/crypto-webhook.service.ts with handleCryptoDeposit of *)
(* packages/providers/src/bitnob/crypto-webhooks.ts) and the sweep that looks *)
(* for lost events (crypto-deposit-reconciliation.service.ts), with the       *)
(* transition trigger of packages/ledger/sql/007_crypto.sql.                  *)
(*                                                                          *)
(* A deposit is told of twice, when it is seen and when the chain has buried  *)
(* it; each event comes never, once or many times, in any order.  It is held  *)
(* in the pending account in between.                                         *)
(***************************************************************************)
EXTENDS Integers

CONSTANTS
    Deposits,    \* by the provider's id
    Handlers,    \* runs of the webhook
    Sweeper,
    ValueOf,     \* deposit -> its amount
    Swept,       \* deposits to the first five hundred addresses
    Nothing

VARIABLES
    wallet, pending,   \* the customer's balances the entries move
    deaths,      \* how often a sweep may still die
    chain,       \* each deposit: "none", "seen", "deep" past the threshold
    entries,     \* deposit -> its keys that have an entry
    noted,       \* crypto_deposits.status, "absent" without a row
    at, about    \* each run of the webhook, and the sweep

Runs == Handlers \cup {Sweeper}

Assumption ==
    /\ Sweeper \notin Handlers
    /\ ValueOf \in [Deposits -> Nat \ {0}]
    /\ Swept \subseteq Deposits
    /\ Nothing \notin Deposits

vars == <<wallet, pending, deaths, chain, entries, noted, at, about>>

Init ==
    /\ wallet \in Nat
    /\ pending \in Nat
    /\ deaths \in Nat
    /\ chain = [d \in Deposits |-> "none"]
    /\ entries = [d \in Deposits |-> {}]
    /\ noted = [d \in Deposits |-> "absent"]
    /\ at = [x \in Runs |-> "idle"]
    /\ about = [x \in Runs |-> Nothing]

\* The chain.
Deepen(d) ==
    /\ chain[d] # "deep"
    /\ chain' = [chain EXCEPT ![d] = IF @ = "none" THEN "seen" ELSE "deep"]
    /\ UNCHANGED <<deaths, wallet, pending, entries, noted, at, about>>

Begins(x, place, d) ==
    /\ at[x] = "idle"
    /\ at' = [at EXCEPT ![x] = place]
    /\ about' = [about EXCEPT ![x] = d]
    /\ UNCHANGED <<deaths, wallet, pending, chain, entries, noted>>

Ends(x) ==
    /\ at' = [at EXCEPT ![x] = "idle"]
    /\ about' = [about EXCEPT ![x] = Nothing]

\* handle of a 'seen' event, which may come late.
DeliverSeen(h, d) == chain[d] # "none" /\ Begins(h, "hold", d)

\* #recordConfirmed reads the row first: before it was seen the event is thrown
\* back, after it was confirmed it is acknowledged.
DeliverConfirmed(h, d) ==
    chain[d] = "deep" /\ noted[d] = "seen" /\ Begins(h, "confirm", d)

\* #reconcile of the sweep, for one address among those it reads.
Sweep(d) ==
    /\ d \in Swept
    /\ \/ chain[d] # "none" /\ noted[d] = "absent" /\ Begins(Sweeper, "hold", d)
       \/ chain[d] = "deep" /\ noted[d] = "seen" /\ Begins(Sweeper, "confirm", d)

\* Faulty variant: the sweep, too, takes a replay for a row already written.
HoldReplayEnds(x) ==
    LET d == about[x] IN
    /\ at[x] = "hold"
    /\ IF "seen" \in entries[d]
       THEN UNCHANGED <<pending, entries>> /\ Ends(x)
       ELSE /\ pending' = pending + ValueOf[d]
            /\ entries' = [entries EXCEPT ![d] = @ \cup {"seen"}]
            /\ at' = [at EXCEPT ![x] = "note"]
            /\ UNCHANGED about
    /\ UNCHANGED <<deaths, wallet, chain, noted>>

\* The entry that holds it: provider -> pending, once per deposit.  The webhook
\* takes a replay for a row already written; the sweep goes on.
Hold(x) ==
    LET d == about[x] IN
    /\ at[x] = "hold"
    /\ IF "seen" \in entries[d]
       THEN UNCHANGED <<pending, entries>>
       ELSE /\ pending' = pending + ValueOf[d]
            /\ entries' = [entries EXCEPT ![d] = @ \cup {"seen"}]
    /\ IF "seen" \in entries[d] /\ x # Sweeper
       THEN Ends(x)
       ELSE at' = [at EXCEPT ![x] = "note"] /\ UNCHANGED about
    /\ UNCHANGED <<deaths, wallet, chain, noted>>

\* The row, ON CONFLICT DO NOTHING.
Note(x) ==
    /\ at[x] = "note"
    /\ noted' = [noted EXCEPT ![about[x]] = IF @ = "absent" THEN "seen" ELSE @]
    /\ Ends(x)
    /\ UNCHANGED <<deaths, wallet, pending, chain, entries>>

\* The entry that frees it: pending -> wallet, once per deposit.
Confirm(x) ==
    LET d == about[x] IN
    /\ at[x] = "confirm"
    /\ IF "confirmed" \in entries[d]
       THEN UNCHANGED <<wallet, pending, entries>>
       ELSE /\ pending >= ValueOf[d]
            /\ pending' = pending - ValueOf[d]
            /\ wallet' = wallet + ValueOf[d]
            /\ entries' = [entries EXCEPT ![d] = @ \cup {"confirmed"}]
    /\ at' = [at EXCEPT ![x] = "finish"]
    /\ UNCHANGED <<deaths, chain, noted, about>>

\* The row follows, guarded by its status.
Finish(x) ==
    /\ at[x] = "finish"
    /\ noted' = [noted EXCEPT ![about[x]] = IF @ = "seen" THEN "confirmed" ELSE @]
    /\ Ends(x)
    /\ UNCHANGED <<deaths, wallet, pending, chain, entries>>

\* A process dies at any step.
Dies(x) ==
    /\ at[x] # "idle"
    /\ deaths' = IF x = Sweeper THEN deaths - 1 ELSE deaths
    /\ deaths' >= 0
    /\ Ends(x)
    /\ UNCHANGED <<wallet, pending, chain, entries, noted>>

RunStep(x) == Hold(x) \/ Note(x) \/ Confirm(x) \/ Finish(x)

Next ==
    \/ \E d \in Deposits : Deepen(d) \/ Sweep(d)
    \/ \E h \in Handlers, d \in Deposits : DeliverSeen(h, d) \/ DeliverConfirmed(h, d)
    \/ \E x \in Runs : RunStep(x) \/ Dies(x)

\* The interval goes on, and asks about one address after the other.
Fairness ==
    /\ \A d \in Deposits : SF_vars(Sweep(d))
    /\ WF_vars(RunStep(Sweeper))
-----------------------------------------------------------------------------
(* The invariant behind SpendableOnceHeld. *)

Shape ==
    /\ entries \in [Deposits -> SUBSET {"seen", "confirmed"}]
    /\ noted \in [Deposits -> {"absent", "seen", "confirmed"}]
    /\ chain \in [Deposits -> {"none", "seen", "deep"}]
    /\ at \in [Runs -> {"idle", "hold", "note", "confirm", "finish"}]
    /\ about \in [Runs -> Deposits \cup {Nothing}]
    /\ \A x \in Runs : at[x] # "idle" => about[x] \in Deposits

\* The row, and whoever is about to write it, follow the entry.
RowFollowsEntry ==
    /\ \A d \in Deposits : noted[d] # "absent" => "seen" \in entries[d]
    /\ \A x \in Runs : at[x] = "note" => "seen" \in entries[about[x]]

\* Whoever is about to free a deposit has seen it held and deep.
ConfirmsWhatIsHeld ==
    \A x \in Runs : at[x] = "confirm" =>
        chain[about[x]] = "deep" /\ "seen" \in entries[about[x]]

\* A deposit is spendable only after it was held and the chain has buried it.
SpendableOnceHeld ==
    \A d \in Deposits : "confirmed" \in entries[d] =>
        chain[d] = "deep" /\ "seen" \in entries[d]

IInv == Shape /\ RowFollowsEntry /\ ConfirmsWhatIsHeld /\ SpendableOnceHeld
=============================================================================
