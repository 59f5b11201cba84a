------------------------------- MODULE GiftCards -------------------------------
(***************************************************************************)
(* Gift cards sold to the platform by one customer: GiftCardService and      *)
(* GiftCardHoldService (apps/api/src/giftcards), with the transition trigger *)
(* of packages/ledger/sql/005_giftcards.sql.                                 *)
(*                                                                          *)
(* Reviewers and the release sweep look at a submission, or at a batch of    *)
(* due ones, and act later; what they decide is checked again under the      *)
(* lock of the submission's row, on the transaction of the entry.            *)
(***************************************************************************)
EXTENDS Integers, FiniteSetsExt

CONSTANTS
    Submissions,
    Desks,      \* reviewers at work
    PayoutOf,   \* submission -> the payout fixed when it was made
    Nothing     \* no submission

VARIABLES
    wallet, pending, inventory,   \* the balances the entries move
    status,    \* giftcard_submissions.status, "absent" before the insert
    due,       \* submissions whose hold_until has passed
    entries,   \* submission -> the keys that have an entry
    desk,      \* reviewer -> what it is about to do, and to which submission
    batch      \* what the sweep has still to release

Statuses == {"absent", "pending_review", "approved", "rejected", "released", "clawed_back"}

Keys == {"approve", "clawback", "release"}

Decisions == {"none", "approve", "reject", "clawback"}

Assumption ==
    /\ PayoutOf \in [Submissions -> Nat \ {0}]
    /\ Nothing \notin Submissions

vars == <<wallet, pending, inventory, status, due, entries, desk, batch>>

Away == [choice |-> "none", about |-> Nothing]

Init ==
    /\ wallet = 0
    /\ pending \in Nat
    /\ inventory = 0
    /\ status = [s \in Submissions |-> "absent"]
    /\ due = {}
    /\ entries = [s \in Submissions |-> {}]
    /\ desk = [d \in Desks |-> Away]
    /\ batch = {}

\* submit: one row per key of the customer, and no entry.
Submit(s) ==
    /\ status[s] = "absent"
    /\ status' = [status EXCEPT ![s] = "pending_review"]
    /\ UNCHANGED <<wallet, pending, inventory, due, entries, desk, batch>>

\* The status each choice needs, where it is read first and under the lock.
Needs(choice) == IF choice = "clawback" THEN "approved" ELSE "pending_review"

\* approve, reject and clawback, up to their transaction.
Look(d, choice, s) ==
    /\ desk[d] = Away
    /\ choice # "none"
    /\ status[s] = Needs(choice)
    /\ desk' = [desk EXCEPT ![d] = [choice |-> choice, about |-> s]]
    /\ UNCHANGED <<wallet, pending, inventory, status, due, entries, batch>>

Acts(d, choice) ==
    /\ desk[d].choice = choice
    /\ desk' = [desk EXCEPT ![d] = Away]

\* approve: inventory -> pending under the lock, status and entry together.
Approve(d) ==
    LET s == desk[d].about IN
    /\ Acts(d, "approve")
    /\ status[s] = "pending_review"
    /\ pending' = pending + PayoutOf[s]
    /\ inventory' = inventory - PayoutOf[s]
    /\ entries' = [entries EXCEPT ![s] = @ \cup {"approve"}]
    /\ status' = [status EXCEPT ![s] = "approved"]
    /\ UNCHANGED <<wallet, due, batch>>

\* reject: an UPDATE guarded by the status; no entry.
Reject(d) ==
    LET s == desk[d].about IN
    /\ Acts(d, "reject")
    /\ status[s] = "pending_review"
    /\ status' = [status EXCEPT ![s] = "rejected"]
    /\ UNCHANGED <<wallet, pending, inventory, due, entries, batch>>

\* Faulty variant: the reversal is posted on the status that was read.
ClawbackUnlocked(d) ==
    LET s == desk[d].about IN
    /\ Acts(d, "clawback")
    /\ pending >= PayoutOf[s]
    /\ pending' = pending - PayoutOf[s]
    /\ inventory' = inventory + PayoutOf[s]
    /\ entries' = [entries EXCEPT ![s] = @ \cup {"clawback"}]
    /\ status' = [status EXCEPT ![s] = IF @ = "approved" THEN "clawed_back" ELSE @]
    /\ UNCHANGED <<wallet, due, batch>>

\* clawback: the approval is reversed out of pending, status and entry together.
Clawback(d) ==
    LET s == desk[d].about IN
    /\ Acts(d, "clawback")
    /\ status[s] = "approved"
    /\ pending >= PayoutOf[s]
    /\ pending' = pending - PayoutOf[s]
    /\ inventory' = inventory + PayoutOf[s]
    /\ entries' = [entries EXCEPT ![s] = @ \cup {"clawback"}]
    /\ status' = [status EXCEPT ![s] = "clawed_back"]
    /\ UNCHANGED <<wallet, due, batch>>

\* The lock finds another status, the limits or the guard refuse, the process dies.
WalkAway(d) ==
    /\ desk[d] # Away
    /\ desk' = [desk EXCEPT ![d] = Away]
    /\ UNCHANGED <<wallet, pending, inventory, status, due, entries, batch>>

\* hold_until passes.  The hold is set when the submission is approved.
Mature(s) ==
    /\ status[s] = "approved"
    /\ s \notin due
    /\ due' = due \cup {s}
    /\ UNCHANGED <<wallet, pending, inventory, status, entries, desk, batch>>

\* #sweepLocked reads giftcard_holds_due; the advisory lock admits one sweep.
SweepReads ==
    /\ batch = {}
    /\ batch' = {s \in due : status[s] = "approved"}
    /\ batch' # {}
    /\ UNCHANGED <<wallet, pending, inventory, status, due, entries, desk>>

\* Faulty variant: the money moves and the guarded UPDATE follows.
ReleaseUnlocked(s) ==
    /\ s \in batch
    /\ pending >= PayoutOf[s]
    /\ pending' = pending - PayoutOf[s]
    /\ wallet' = wallet + PayoutOf[s]
    /\ entries' = [entries EXCEPT ![s] = @ \cup {"release"}]
    /\ status' = [status EXCEPT ![s] = IF @ = "approved" THEN "released" ELSE @]
    /\ batch' = batch \ {s}
    /\ UNCHANGED <<inventory, due, desk>>

\* #release: pending -> wallet under the lock; the trigger lets only a due hold
\* through and rolls the entry back otherwise.
Release(s) ==
    /\ s \in batch
    /\ status[s] = "approved" /\ s \in due
    /\ pending >= PayoutOf[s]
    /\ pending' = pending - PayoutOf[s]
    /\ wallet' = wallet + PayoutOf[s]
    /\ entries' = [entries EXCEPT ![s] = @ \cup {"release"}]
    /\ status' = [status EXCEPT ![s] = "released"]
    /\ batch' = batch \ {s}
    /\ UNCHANGED <<inventory, due, desk>>

\* HoldDecided, an error, or the death of the sweep: the hold stays as it is.
ReleaseSkips(s) ==
    /\ s \in batch
    /\ batch' = batch \ {s}
    /\ UNCHANGED <<wallet, pending, inventory, status, due, entries, desk>>

Next ==
    \/ \E s \in Submissions : Submit(s) \/ Mature(s) \/ Release(s) \/ ReleaseSkips(s)
    \/ \E d \in Desks, s \in Submissions, choice \in Decisions : Look(d, choice, s)
    \/ \E d \in Desks : Approve(d) \/ Reject(d) \/ Clawback(d) \/ WalkAway(d)
    \/ SweepReads

Spec == Init /\ [][Next]_vars

-----------------------------------------------------------------------------
(* Properties. *)

\* The type of every variable.
TypeOK ==
    /\ wallet \in Nat /\ pending \in Nat /\ inventory \in Int
    /\ status \in [Submissions -> Statuses]
    /\ due \subseteq Submissions
    /\ entries \in [Submissions -> SUBSET Keys]
    /\ desk \in [Desks -> [choice : Decisions, about : Submissions \cup {Nothing}]]
    /\ batch \subseteq Submissions

\* The status says what was posted: an approved card is held, a released one was
\* paid and never taken back, a clawed back one taken back and never paid,
\* whichever of the reviewers and the sweep came first.
StatusTellsLedger ==
    \A s \in Submissions :
        CASE status[s] = "approved"    -> entries[s] = {"approve"}
          [] status[s] = "released"    -> entries[s] = {"approve", "release"} /\ s \in due
          [] status[s] = "clawed_back" -> entries[s] = {"approve", "clawback"}
          [] OTHER                     -> entries[s] = {}

\* A desk at work has a submission in its hands.
DeskHasACard == \A d \in Desks : desk[d].choice # "none" => desk[d].about \in Submissions

\* The inductive invariant of this part.
IInv == TypeOK /\ StatusTellsLedger /\ DeskHasACard
=============================================================================
