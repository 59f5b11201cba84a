------------------------------- MODULE Payouts --------------------------------
(***************************************************************************)
(* Bank payouts of one customer: PayoutService (apps/api/src/payouts), its   *)
(* reconciliation sweep, the transfer.* webhooks and the staff recovery      *)
(* screen (apps/api/src/admin/recovery.service.ts), against a payment rail   *)
(* whose answers can be lost.                                                *)
(*                                                                          *)
(* A payout is named by its reference, derived from the customer and the     *)
(* idempotency key.  A request is one submission of the send form; a worker  *)
(* is one run of a webhook, a sweep or a button.  Both work from a snapshot  *)
(* of the payout row and are interleaved at every database transaction and   *)
(* every call of the rail.  One ledger post, with its precondition under the *)
(* row lock and its onEntry, is one step (Ledger.tla shows that it is).      *)
(***************************************************************************)
EXTENDS Integers, FiniteSets, Functions

CONSTANTS
    Payouts,
    Requests,       \* submissions of the form
    Workers,        \* runs of the webhook, the sweep and the buttons
    Nobody,         \* the sender of a message whose sender no longer listens
    For,            \* request -> the payout it is a submission of
    AmountOf,       \* request -> the amount in its body
    FeeOf,          \* request -> the fee the settings put on it, tax included
    Roles,          \* what the workers do in this deployment
    OpeningWallet,  \* the customer's balance before the first payout
    OtherHolds      \* what card and gift card holds keep in pending

Procs == Requests \cup Workers

AllRoles == {"webhook", "sweep", "list", "recover", "refund", "resend", "delivered"}

ASSUME PayoutsAssumption ==
    /\ Requests \cap Workers = {}
    /\ Nobody \notin Procs
    /\ Payouts # {} /\ IsFiniteSet(Payouts)
    /\ For \in [Requests -> Payouts]
    /\ AmountOf \in [Requests -> Nat \ {0}]
    /\ FeeOf \in [Requests -> Nat]
    /\ Roles \subseteq AllRoles
    /\ OpeningWallet \in Nat
    /\ OtherHolds \in Nat

VARIABLES
    row,      \* bank_payouts: status ("absent" before the insert), amount, fee
    posted,   \* the ledger entries under the payout's three keys
    held,     \* the amount of the reserve entry
    undid,    \* which entry the reversal names
    wallet, pending, float, fees,   \* the balances the entries move
    rail,     \* what the provider holds under our reference
    wire,     \* transfer requests on their way to the provider
    pc, role, about, snap, verdict, seen, tries   \* each process

books == <<wallet, pending, float, fees>>
ledger == <<posted, held, undid, books>>
local == <<role, about, snap, verdict, seen, tries>>
vars == <<row, posted, held, undid, wallet, pending, float, fees, rail, wire,
          pc, role, about, snap, verdict, seen, tries>>

Absent == [status |-> "absent", amount |-> 0, fee |-> 0]

Total(p) == row[p].amount + row[p].fee

Settled(p) == "settle" \in posted[p]

Home(x) == IF x \in Requests THEN For[x] ELSE CHOOSE p \in Payouts : TRUE

Unread == [status |-> "absent", settled |-> FALSE]

\* The columns of the row that decisions read: its status and settle_entry_id.
Snapshot(p) == [status |-> row[p].status, settled |-> row[p].status # "absent" /\ Settled(p)]

Goto(x, place) == pc' = [pc EXCEPT ![x] = place]

\* The handler returns or throws: a request is over, a worker may run again.
Finish(x) ==
    /\ Goto(x, IF x \in Requests THEN "done" ELSE "idle")
    /\ role' = [role EXCEPT ![x] = IF x \in Requests THEN "request" ELSE "none"]
    /\ about' = [about EXCEPT ![x] = Home(x)]
    /\ snap' = [snap EXCEPT ![x] = Unread]
    /\ verdict' = [verdict EXCEPT ![x] = "none"]
    /\ seen' = [seen EXCEPT ![x] = FALSE]
    /\ tries' = [tries EXCEPT ![x] = 0]

-----------------------------------------------------------------------------
Init ==
    /\ row = [p \in Payouts |-> Absent]
    /\ posted = [p \in Payouts |-> {}]
    /\ held = [p \in Payouts |-> 0]
    /\ undid = [p \in Payouts |-> "none"]
    /\ wallet = OpeningWallet
    /\ pending = OtherHolds
    /\ float = 0
    /\ fees = 0
    /\ rail = [p \in Payouts |-> "none"]
    /\ wire = {}
    /\ pc = [x \in Procs |-> "idle"]
    /\ role = [x \in Procs |-> IF x \in Requests THEN "request" ELSE "none"]
    /\ about = [x \in Procs |-> Home(x)]
    /\ snap = [x \in Procs |-> Unread]
    /\ verdict = [x \in Procs |-> "none"]
    /\ seen = [x \in Procs |-> FALSE]
    /\ tries = [x \in Procs |-> 0]

-----------------------------------------------------------------------------
(* PayoutService.send *)

\* #byKey: a key already used answers with its row.
Submit(r) ==
    /\ pc[r] = "idle"
    /\ IF row[For[r]].status # "absent"
       THEN Finish(r)
       ELSE Goto(r, "reserve") /\ UNCHANGED local
    /\ UNCHANGED <<row, ledger, rail, wire>>

\* A check before the money is held refuses: the service is off, the
\* destination or the amount is not payable, the wallet will not cover it, no
\* rail serves it, the daily limit or the platform's float is used up.
Decline(r) ==
    /\ pc[r] = "reserve"
    /\ Finish(r)
    /\ UNCHANGED <<row, ledger, rail, wire>>

\* Faulty variant: the hold is taken without the overdraft guard.
ReserveUncovered(r) ==
    LET n == AmountOf[r] + FeeOf[r] IN
    /\ pc[r] = "reserve"
    /\ posted' = [posted EXCEPT ![For[r]] = @ \cup {"reserve"}]
    /\ held' = [held EXCEPT ![For[r]] = n]
    /\ wallet' = wallet - n
    /\ pending' = pending + n
    /\ Goto(r, "insert")
    /\ UNCHANGED <<row, undid, float, fees, rail, wire, local>>

\* #reserve, the post: wallet -> pending under the payout's own key.  A replay
\* answers with the entry already there, whatever it holds.
Reserve(r) ==
    LET p == For[r]
        n == AmountOf[r] + FeeOf[r]
    IN
    /\ pc[r] = "reserve"
    /\ IF "reserve" \in posted[p]
       THEN Goto(r, "insert") /\ UNCHANGED <<ledger, local>>
       ELSE IF wallet < n
       THEN Finish(r) /\ UNCHANGED ledger
       ELSE /\ posted' = [posted EXCEPT ![p] = @ \cup {"reserve"}]
            /\ held' = [held EXCEPT ![p] = n]
            /\ wallet' = wallet - n
            /\ pending' = pending + n
            /\ Goto(r, "insert")
            /\ UNCHANGED <<undid, float, fees, local>>
    /\ UNCHANGED <<row, rail, wire>>

\* Faulty variant: the submission that lost the insert sends as well.
InsertRowBothSend(r) ==
    /\ pc[r] = "insert"
    /\ row' = [row EXCEPT ![For[r]] =
                 IF @.status = "absent"
                 THEN [status |-> "reserved", amount |-> AmountOf[r], fee |-> FeeOf[r]]
                 ELSE @]
    /\ snap' = [snap EXCEPT ![r] = [status |-> "reserved", settled |-> FALSE]]
    /\ Goto(r, "send")
    /\ UNCHANGED <<ledger, rail, wire, role, about, verdict, seen, tries>>

\* #reserve, the row: ON CONFLICT DO NOTHING.  Only the request that wrote the
\* row goes on to send; the other answers with the row as it stands.
InsertRow(r) ==
    LET p == For[r] IN
    /\ pc[r] = "insert"
    /\ IF row[p].status = "absent"
       THEN /\ row' = [row EXCEPT ![p] =
                         [status |-> "reserved", amount |-> AmountOf[r], fee |-> FeeOf[r]]]
            /\ snap' = [snap EXCEPT ![r] = [status |-> "reserved", settled |-> FALSE]]
            /\ Goto(r, "send")
            /\ UNCHANGED <<role, about, verdict, seen, tries>>
       ELSE Finish(r) /\ UNCHANGED row
    /\ UNCHANGED <<ledger, rail, wire>>

\* port.send / port.sendVia: the transfer request leaves.
Dispatch(x) ==
    /\ pc[x] = "send"
    /\ wire' = wire \cup {[from |-> x, payout |-> about[x], again |-> x \in Workers]}
    /\ Goto(x, "wait")
    /\ UNCHANGED <<row, ledger, rail, local>>

\* A message whose sender stopped waiting is still on its way.
Orphaned(x) ==
    {[m EXCEPT !.from = IF m.from = x THEN Nobody ELSE m.from] : m \in wire}

\* Timeout, reset connection, 5xx, unreadable answer: the outcome is unknown
\* and nothing is decided.
GiveUp(x) ==
    /\ pc[x] = "wait"
    /\ wire' = Orphaned(x)
    /\ Finish(x)
    /\ UNCHANGED <<row, ledger, rail>>

\* Where applyReceipt goes for this snapshot and this answer.
AfterAnswer(s, v) ==
    IF v = "failed" THEN "reverse"
    ELSE IF s.status = "reserved" THEN "settle"
    ELSE IF v = "completed" THEN "complete"
    ELSE "finish"

\* The answer to a send.  A refusal (providerDidNothing) fails the payout of the
\* request and leaves the one of a resend held; a receipt is applied to the
\* row as reloaded.
Answered(x) ==
    LET s == Snapshot(about[x]) IN
    /\ pc[x] = "answered"
    /\ IF verdict[x] = "rejected"
       THEN IF x \in Requests THEN Goto(x, "reverse") /\ UNCHANGED local ELSE Finish(x)
       ELSE /\ snap' = [snap EXCEPT ![x] = s]
            /\ Goto(x, AfterAnswer(s, verdict[x]))
            /\ UNCHANGED <<role, about, verdict, seen, tries>>
    /\ UNCHANGED <<row, ledger, rail, wire>>

-----------------------------------------------------------------------------
(* Deciding a payout: #settle, applyReceipt's completion, fail and #reverse. *)

\* Faulty variant: the decision of the snapshot is posted without the row lock.
SettleUnlocked(x) ==
    LET p == about[x] IN
    /\ pc[x] = "settle"
    /\ posted' = [posted EXCEPT ![p] = @ \cup {"settle"}]
    /\ pending' = pending - Total(p)
    /\ float' = float + row[p].amount
    /\ fees' = fees + row[p].fee
    /\ row' = [row EXCEPT ![p].status = IF @ = "reserved" THEN "sent" ELSE @]
    /\ Goto(x, IF verdict[x] = "completed" THEN "complete" ELSE "finish")
    /\ UNCHANGED <<held, undid, wallet, rail, wire, local>>

\* #settle: one transaction under the row lock.  A payout somebody else has
\* decided is left alone; a hold the pending account cannot cover throws.
Settle(x) ==
    LET p == about[x]
        undecided == row[p].status = "reserved" /\ "reverse" \notin posted[p]
        covered == pending >= Total(p)
    IN
    /\ pc[x] = "settle"
    /\ IF undecided /\ covered
       THEN /\ posted' = [posted EXCEPT ![p] = @ \cup {"settle"}]
            /\ pending' = pending - Total(p)
            /\ float' = float + row[p].amount
            /\ fees' = fees + row[p].fee
            /\ row' = [row EXCEPT ![p].status = "sent"]
            /\ UNCHANGED <<held, undid, wallet>>
       ELSE UNCHANGED <<row, ledger>>
    /\ Goto(x, IF verdict[x] = "completed" /\ (undecided => covered)
               THEN "complete" ELSE "finish")
    /\ UNCHANGED <<rail, wire, local>>

\* applyReceipt: a completed transfer completes a payout that is sent.
Complete(x) ==
    LET p == about[x] IN
    /\ pc[x] = "complete"
    /\ row' = [row EXCEPT ![p].status = IF @ = "sent" THEN "completed" ELSE @]
    /\ Goto(x, "finish")
    /\ UNCHANGED <<ledger, rail, wire, local>>

\* #reverse reads the settlement, from its snapshot or else from the ledger.
ReadSettlement(x) ==
    /\ pc[x] = "reverse"
    /\ seen' = [seen EXCEPT ![x] = snap[x].settled \/ Settled(about[x])]
    /\ Goto(x, "reversing")
    /\ UNCHANGED <<row, ledger, rail, wire, role, about, snap, verdict, tries>>

\* What the reversal can post: back out of the float, or out of pending.
Reversible(p) == Settled(p) \/ pending >= Total(p)

\* Faulty variant: the shape chosen from the snapshot is not checked again.
ReverseUnchecked(x) ==
    LET p == about[x] IN
    /\ pc[x] = "reversing"
    /\ IF row[p].status \in {"reserved", "sent"} /\ (seen[x] \/ pending >= Total(p))
       THEN /\ posted' = [posted EXCEPT ![p] = @ \cup {"reverse"}]
            /\ undid' = [undid EXCEPT ![p] = IF seen[x] THEN "settle" ELSE "reserve"]
            /\ wallet' = wallet + Total(p)
            /\ pending' = pending - IF seen[x] THEN 0 ELSE Total(p)
            /\ float' = float - IF seen[x] THEN row[p].amount ELSE 0
            /\ fees' = fees - IF seen[x] THEN row[p].fee ELSE 0
            /\ row' = [row EXCEPT ![p].status = "failed"]
            /\ UNCHANGED held
       ELSE UNCHANGED <<row, ledger>>
    /\ Goto(x, "finish")
    /\ UNCHANGED <<rail, wire, local>>

\* Faulty variant: a payout that was sent is taken back out of pending.
ReverseFromPending(x) ==
    LET p == about[x] IN
    /\ pc[x] = "reversing"
    /\ IF row[p].status \in {"reserved", "sent"} /\ pending >= Total(p)
       THEN /\ posted' = [posted EXCEPT ![p] = @ \cup {"reverse"}]
            /\ undid' = [undid EXCEPT ![p] = IF Settled(p) THEN "settle" ELSE "reserve"]
            /\ wallet' = wallet + Total(p)
            /\ pending' = pending - Total(p)
            /\ row' = [row EXCEPT ![p].status = "failed"]
            /\ UNCHANGED <<held, float, fees>>
       ELSE UNCHANGED <<row, ledger>>
    /\ Goto(x, "finish")
    /\ UNCHANGED <<rail, wire, local>>

\* #reverse, one transaction under the row lock: a decided payout is left
\* alone, one whose settlement moved is read again (fail tries three times),
\* and the money comes back from where it now is.
Reverse(x) ==
    LET p == about[x] IN
    /\ pc[x] = "reversing"
    /\ IF row[p].status \notin {"reserved", "sent"}
       THEN Goto(x, "finish") /\ UNCHANGED <<row, ledger, local>>
       ELSE IF Settled(p) # seen[x]
       THEN /\ tries' = [tries EXCEPT ![x] = @ + 1]
            /\ snap' = [snap EXCEPT ![x] = Snapshot(p)]
            /\ Goto(x, IF tries[x] < 2 THEN "reverse" ELSE "finish")
            /\ UNCHANGED <<row, ledger, role, about, verdict, seen>>
       ELSE IF ~Reversible(p)
       THEN Goto(x, "finish") /\ UNCHANGED <<row, ledger, local>>
       ELSE /\ posted' = [posted EXCEPT ![p] = @ \cup {"reverse"}]
            /\ undid' = [undid EXCEPT ![p] = IF seen[x] THEN "settle" ELSE "reserve"]
            /\ wallet' = wallet + Total(p)
            /\ pending' = pending - IF seen[x] THEN 0 ELSE Total(p)
            /\ float' = float - IF seen[x] THEN row[p].amount ELSE 0
            /\ fees' = fees - IF seen[x] THEN row[p].fee ELSE 0
            /\ row' = [row EXCEPT ![p].status = "failed"]
            /\ Goto(x, "finish")
            /\ UNCHANGED <<held, local>>
    /\ UNCHANGED <<rail, wire>>

Return(x) ==
    /\ pc[x] = "finish"
    /\ Finish(x)
    /\ UNCHANGED <<row, ledger, rail, wire>>

-----------------------------------------------------------------------------
(* The webhook, the sweep and the recovery screen. *)

\* The sweep's grace period and the screen's half hour: by then the request
\* that created the payout has its answer or has given up, and what it sent
\* has reached the rail or never will.
Aged(p) ==
    /\ \A r \in Requests : For[r] = p => pc[r] \notin {"send", "wait"}
    /\ \A m \in wire : m.payout = p => m.again

\* Faulty variant: a payout that was sent is asked about only when a rail rings.
TakesHeldOnly(k, p) ==
    CASE k = "webhook" -> row[p].status \in {"reserved", "sent"} /\ rail[p] # "none"
      [] OTHER         -> row[p].status = "reserved" /\ Aged(p)

\* Whether a run of this kind takes up the payout, in the state it is in now.
\* A rail rings about transfers it has; the sweep holds its advisory lock; a
\* button needs a held payout, and a person who marks one delivered has seen
\* the transfer on the provider's dashboard.
Takes(k, p) ==
    CASE k = "webhook"   -> row[p].status \in {"reserved", "sent"} /\ rail[p] # "none"
      [] k = "sweep"     -> row[p].status \in {"reserved", "sent"} /\ Aged(p)
                            /\ \A w \in Workers : role[w] # "sweep"
      [] k = "list"      -> row[p].status \in {"reserved", "sent"} /\ Aged(p)
      [] k = "delivered" -> row[p].status = "reserved" /\ Aged(p)
                            /\ rail[p] \in {"sent", "completed"}
      [] OTHER           -> row[p].status = "reserved" /\ Aged(p)

\* resolveByReference, #claim, list and #held: a run takes up a payout.
Start(w, k, p) ==
    /\ pc[w] = "idle"
    /\ Takes(k, p)
    /\ role' = [role EXCEPT ![w] = k]
    /\ about' = [about EXCEPT ![w] = p]
    /\ Goto(w, "read")
    /\ UNCHANGED <<row, ledger, rail, wire, snap, verdict, seen, tries>>

\* The row is read; everything after works from this snapshot.  markDelivered
\* asks nobody: it settles a payout that is still held.
ReadRow(w) ==
    LET s == Snapshot(about[w]) IN
    /\ pc[w] = "read"
    /\ snap' = [snap EXCEPT ![w] = s]
    /\ verdict' = [verdict EXCEPT ![w] = IF role[w] = "delivered" THEN "sent" ELSE @]
    /\ Goto(w, IF role[w] # "delivered" THEN "ask"
               ELSE IF s.status = "reserved" THEN "settle" ELSE "finish")
    /\ UNCHANGED <<row, ledger, rail, wire, role, about, seen, tries>>

\* confirmWithRail: what the rail can say about a payout, by id or by our
\* reference.  "never_sent" is believed only for a payout that is held in the
\* snapshot; every refusal, outage or foreign answer is "unknown".
Verdicts(s, p) ==
    {"unknown"} \cup
    IF rail[p] # "none" THEN {rail[p]}
    ELSE IF s.status = "reserved" THEN {"never_sent"} ELSE {}

\* What each caller of confirmWithRail does with the verdict.
AfterVerdict(k, s, v) ==
    CASE k = "refund" -> IF v \in {"sent", "completed"} THEN "finish" ELSE "reverse"
      [] k = "resend" -> IF v \in {"sent", "completed"} THEN AfterAnswer(s, v)
                         ELSE IF v = "failed" \/ s.status # "reserved" THEN "finish" ELSE "send"
      [] OTHER        -> IF v = "unknown" THEN "finish"
                         ELSE IF v = "never_sent" THEN "reverse" ELSE AfterAnswer(s, v)

\* Asking the rail and reading its answer.
Ask(w) ==
    /\ pc[w] = "ask"
    /\ \E v \in Verdicts(snap[w], about[w]) :
          /\ verdict' = [verdict EXCEPT ![w] = v]
          /\ Goto(w, AfterVerdict(role[w], snap[w], v))
    /\ UNCHANGED <<row, ledger, rail, wire, role, about, snap, seen, tries>>

-----------------------------------------------------------------------------
(* The rail and the network, and the death of a process. *)

\* The answer reaches the sender if it still waits.
Tell(m, v) ==
    IF m.from = Nobody THEN UNCHANGED <<pc, verdict>>
    ELSE Goto(m.from, "answered") /\ verdict' = [verdict EXCEPT ![m.from] = v]

\* The rail accepts a transfer under a reference it has not seen.
RailAccept(m) ==
    /\ rail[m.payout] = "none"
    /\ \E v \in {"sent", "completed", "failed"} :
          /\ rail' = [rail EXCEPT ![m.payout] = v]
          /\ Tell(m, v)
    /\ wire' = wire \ {m}
    /\ UNCHANGED <<row, ledger, role, about, snap, seen, tries>>

\* It refuses the transfer, as a duplicate or for want of funds, or the
\* connection was never made: ProviderRejectedError, ProviderNotSentError.
RailRefuse(m) ==
    /\ wire' = wire \ {m}
    /\ Tell(m, "rejected")
    /\ UNCHANGED <<row, ledger, rail, role, about, snap, seen, tries>>

\* The bank pays the beneficiary, or returns the transfer.
RailDecide(p) ==
    /\ rail[p] = "sent"
    /\ \E v \in {"completed", "failed"} : rail' = [rail EXCEPT ![p] = v]
    /\ UNCHANGED <<row, ledger, wire, pc, local>>

\* The process dies between two steps.
Crash(x) ==
    /\ pc[x] \notin {"idle", "done"}
    /\ wire' = Orphaned(x)
    /\ Finish(x)
    /\ UNCHANGED <<row, ledger, rail>>

RequestStep(r) == Submit(r) \/ Decline(r) \/ Reserve(r) \/ InsertRow(r)

WorkerStep(w) ==
    \/ \E k \in Roles, p \in Payouts : Start(w, k, p)
    \/ ReadRow(w)
    \/ Ask(w)

CommonStep(x) ==
    \/ Dispatch(x) \/ GiveUp(x) \/ Answered(x)
    \/ Settle(x) \/ Complete(x) \/ ReadSettlement(x) \/ Reverse(x)
    \/ Return(x)

RailStep ==
    \/ \E m \in wire : RailAccept(m) \/ RailRefuse(m)
    \/ \E p \in Payouts : RailDecide(p)

Next ==
    \/ \E r \in Requests : RequestStep(r)
    \/ \E w \in Workers : WorkerStep(w)
    \/ \E x \in Procs : CommonStep(x) \/ Crash(x)
    \/ RailStep

Spec == Init /\ [][Next]_vars

\* The rail gives an answer about the payout.
AskAnswered(w) == Ask(w) /\ verdict'[w] # "unknown"

\* Requests run; the rail handles what reaches it and decides its transfers;
\* the sweep runs again and again, neither dying at the same statement nor
\* finding the rail mute for ever.
Fairness ==
    /\ \A r \in Requests : WF_vars(RequestStep(r) \/ CommonStep(r))
    /\ WF_vars(RailStep)
    /\ \A w \in Workers :
          /\ \A p \in Payouts : SF_vars(Start(w, "sweep", p))
          /\ SF_vars(ReadRow(w))
          /\ SF_vars(AskAnswered(w))
          /\ SF_vars(Settle(w)) /\ SF_vars(Complete(w))
          /\ SF_vars(ReadSettlement(w)) /\ SF_vars(Reverse(w))
          /\ WF_vars(Return(w))

FairSpec == Spec /\ Fairness

-----------------------------------------------------------------------------
(* Properties. *)

Statuses == {"absent", "reserved", "sent", "completed", "failed"}

Places == {"idle", "reserve", "insert", "send", "wait", "answered", "settle", "complete",
           "reverse", "reversing", "finish", "read", "ask", "done"}

\* The type of every variable.
TypeOK ==
    /\ row \in [Payouts -> [status : Statuses, amount : Nat, fee : Nat]]
    /\ posted \in [Payouts -> SUBSET {"reserve", "settle", "reverse"}]
    /\ held \in [Payouts -> Nat]
    /\ undid \in [Payouts -> {"none", "reserve", "settle"}]
    /\ wallet \in Nat /\ pending \in Nat /\ float \in Int /\ fees \in Int
    /\ rail \in [Payouts -> {"none", "sent", "completed", "failed"}]
    /\ wire \subseteq [from : Procs \cup {Nobody}, payout : Payouts, again : BOOLEAN]
    /\ pc \in [Procs -> Places]
    /\ role \in [Procs -> AllRoles \cup {"request", "none"}]
    /\ about \in [Procs -> Payouts]
    /\ snap \in [Procs -> [status : Statuses, settled : BOOLEAN]]
    /\ verdict \in [Procs -> {"none", "sent", "completed", "failed", "never_sent", "unknown",
                              "rejected"}]
    /\ seen \in [Procs -> BOOLEAN]
    /\ tries \in [Procs -> Nat]

\* The row says what the ledger did, whatever snapshots the deciders held: a
\* held payout has only its reserve, a sent one its settlement, and a failed
\* one the reversal of the entry that last moved its money.
RowTellsLedger ==
    \A p \in Payouts :
        CASE row[p].status = "absent"   -> posted[p] \subseteq {"reserve"}
          [] row[p].status = "reserved" -> posted[p] = {"reserve"}
          [] row[p].status = "failed"   -> /\ {"reserve", "reverse"} \subseteq posted[p]
                                           /\ undid[p] = IF Settled(p) THEN "settle" ELSE "reserve"
          [] OTHER                      -> posted[p] = {"reserve", "settle"}

\* What a payout has in pending, and what it has taken out of the wallet.
Holding(p) == IF posted[p] = {"reserve"} THEN held[p] ELSE 0

TakenBy(p) == IF "reverse" \in posted[p] THEN 0 ELSE held[p]

Holdings == [p \in Payouts |-> Holding(p)]

Takings == [p \in Payouts |-> TakenBy(p)]

\* The customer's pending account is exactly the holds still open, and the
\* wallet is short of exactly what is held or spent: no path takes another
\* hold's money or credits the wallet from nowhere.
BooksMatchHolds ==
    /\ pending = OtherHolds + SumFunctionOnSet(Holdings, Payouts)
    /\ wallet = OpeningWallet - SumFunctionOnSet(Takings, Payouts)
    /\ wallet + pending + float + fees = OpeningWallet + OtherHolds

\* The business does not pay twice: a payout given back to the customer was not
\* paid by the rail, and one recorded as completed was.
PaidOrReturned ==
    \A p \in Payouts :
        /\ "reverse" \in posted[p] => rail[p] \in {"none", "failed"}
        /\ row[p].status = "completed" => rail[p] = "completed"

\* assert_bank_payout_transition is never tripped: a decision is final and the
\* row only moves forward.
DecisionIsFinal ==
    [][\A p \in Payouts : row[p].status # row'[p].status =>
          <<row[p].status, row'[p].status>> \in
            {<<"absent", "reserved">>, <<"reserved", "sent">>, <<"reserved", "failed">>,
             <<"sent", "completed">>, <<"sent", "failed">>}]_vars

\* Each payout is a hold: none, held, spent, returned.
HoldStage ==
    [p \in Payouts |-> IF "reverse" \in posted[p] THEN "returned"
                       ELSE IF Settled(p) THEN "spent"
                       ELSE IF "reserve" \in posted[p] THEN "held" ELSE "none"]

AsHold == INSTANCE Hold WITH Holds <- Payouts, stage <- HoldStage, amount <- held,
                             gone <- float + fees

\* The payout flow implements Hold: under every interleaving the money leaves
\* the wallet once, and is spent or comes back once, in full.
ImplementsHold == AsHold!Spec

\* No payout is left undecided: with the sweep running, a held or sent payout is
\* in the end completed or given back, though requests and sweeps may die.
HeldIsDecided ==
    \A p \in Payouts :
        row[p].status \in {"reserved", "sent"} ~> row[p].status \in {"completed", "failed"}

\* The row's amounts are those the reserve entry really holds.
RowMatchesReserve ==
    \A p \in Payouts : row[p].status # "absent" => Total(p) = held[p]

-----------------------------------------------------------------------------
(* The inductive invariants behind these properties. *)

\* A request writes its row only when the hold is posted.
InsertAfterReserve == \A r \in Requests : pc[r] = "insert" => "reserve" \in posted[For[r]]

BooksInv == TypeOK /\ RowTellsLedger /\ InsertAfterReserve

\* Submissions of one payout carry the same amount and were priced alike.
SameBody ==
    \A r, s \in Requests : For[r] = For[s] => AmountOf[r] = AmountOf[s] /\ FeeOf[r] = FeeOf[s]

HoldIsBody ==
    \A r \in Requests : "reserve" \in posted[For[r]] => held[For[r]] = AmountOf[r] + FeeOf[r]

HoldInv == BooksInv /\ HoldIsBody /\ RowMatchesReserve

\* Nothing of the payout is on its way to the rail, nor about to be.
Quiet(p) ==
    /\ \A r \in Requests : pc[r] = "send" => For[r] # p
    /\ \A m \in wire : m.payout # p

\* The rail did not pay the payout and never will.
Over(p) == Quiet(p) /\ rail[p] \in {"none", "failed"} /\ row[p].status # "absent"

\* A payout has one sender, and the rail has not seen it before.
OneSender ==
    /\ \A r, s \in Requests : pc[r] = "send" /\ pc[s] = "send" /\ For[r] = For[s] => r = s
    /\ \A r \in Requests : pc[r] = "send" => rail[For[r]] = "none"
    /\ \A r \in Requests, m \in wire : pc[r] = "send" => For[r] # m.payout
    /\ \A m, n \in wire : m.payout = n.payout => m = n
    /\ \A m \in wire : rail[m.payout] = "none"

\* Whatever happens to a payout happens after its row was written.
Works(x) == pc[x] \notin {"idle", "done", "reserve", "insert"}

RowIsFirst ==
    /\ \A x \in Procs : Works(x) => row[about[x]].status # "absent"
    /\ \A m \in wire : row[m.payout].status # "absent"
    /\ \A p \in Payouts : rail[p] # "none" => row[p].status # "absent"

\* Only requests send; a message names its sender while the sender waits.
RequestsSend ==
    /\ \A r \in Requests : about[r] = For[r] /\ pc[r] \notin {"read", "ask"}
    /\ \A m \in wire : ~m.again /\ m.from \notin Workers
    /\ \A m \in wire : m.from \in Requests => pc[m.from] = "wait" /\ For[m.from] = m.payout
    /\ \A w \in Workers : pc[w] \notin {"reserve", "insert", "send", "wait", "answered"}
    /\ \A w \in Workers : role[w] \notin {"refund", "resend"}

\* Who is about to decide has what the decision needs from the rail.
OnAnAnswer(x) ==
    /\ pc[x] \in {"reverse", "reversing"} => Over(about[x])
    /\ pc[x] = "answered" /\ verdict[x] \in {"rejected", "failed"} => Over(about[x])
    /\ pc[x] \in {"answered", "settle"} /\ verdict[x] = "completed"
           => rail[about[x]] = "completed"
    /\ pc[x] = "complete" => rail[about[x]] = "completed"
    /\ pc[x] \in {"read", "ask"}
           => IF role[x] = "webhook" THEN rail[about[x]] # "none" ELSE Quiet(about[x])

DecidesOnAnAnswer == \A x \in Procs : OnAnAnswer(x)

ReturnedIsOver == \A p \in Payouts : "reverse" \in posted[p] => Over(p)

CompletedIsPaid == \A p \in Payouts : row[p].status = "completed" => rail[p] = "completed"

RailInv ==
    /\ BooksInv
    /\ OneSender /\ RowIsFirst /\ RequestsSend /\ DecidesOnAnAnswer
    /\ ReturnedIsOver /\ CompletedIsPaid
=============================================================================
