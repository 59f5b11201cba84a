--------------------------- MODULE CryptoWithdrawals ---------------------------
(***************************************************************************)
(* Crypto leaving the platform for one customer and asset: withdraw and       *)
(* applyReceipt of CryptoService (apps/api/src/crypto/crypto.service.ts) and  *)
(* the sweep of crypto-reconciliation.service.ts, with the transition trigger *)
(* of packages/ledger/sql/007_crypto.sql.                                     *)
(*                                                                          *)
(* A request reserves amount and fee, writes the row, and sends if it wrote   *)
(* it; its answer may be lost.  The sweep asks about the oldest open rows.    *)
(* Both act on a receipt they got earlier.  The provider may say 'failed' and *)
(* 'confirmed' of one withdrawal later.                                       *)
(***************************************************************************)
EXTENDS Integers, Sequences

CONSTANTS
    Withdrawals,   \* by the customer's idempotency key
    Requests,      \* submissions
    AmountOf,      \* withdrawal -> what the destination receives
    Fees,          \* what the network may charge
    FeesMove,      \* whether two quotes for one withdrawal may differ
    Batch,         \* open rows the sweep reads, oldest first
    Sweeper,
    NoOne,         \* no withdrawal
    OpeningWallet

VARIABLES
    wallet, pending,   \* the customer's balances the entries move
    deaths,     \* how often a sweep may still die
    row,        \* crypto_withdrawals: status, and amount and fee together
    rows,       \* the withdrawals with a row, by created_at
    posted,     \* withdrawal -> its keys that have an entry
    held,       \* withdrawal -> what the reserve entry moved
    port,       \* the provider: what became of each withdrawal
    denied,     \* withdrawals the provider refused, never got, or said failed
    wire,       \* requests whose message has not arrived
    refused,    \* requests whose message the provider refused
    pc, of,     \* each request, and the sweep: where it is, and its withdrawal
    fee         \* what a request was quoted

Procs == Requests \cup {Sweeper}

Assumption ==
    /\ AmountOf \in [Withdrawals -> Nat \ {0}]
    /\ Fees \subseteq Nat
    /\ FeesMove \in BOOLEAN
    /\ Batch \in Nat \ {0}
    /\ Sweeper \notin Requests
    /\ NoOne \notin Withdrawals
    /\ OpeningWallet \in Nat

books == <<row, rows, posted, held>>
provider == <<port, denied, wire, refused>>
vars == <<wallet, pending, deaths, row, rows, posted, held, port, denied, wire, refused,
          pc, of, fee>>

Init ==
    /\ wallet = OpeningWallet
    /\ pending \in Nat
    /\ deaths \in Nat
    /\ row = [w \in Withdrawals |-> [status |-> "absent", total |-> 0]]
    /\ rows = <<>>
    /\ posted = [w \in Withdrawals |-> {}]
    /\ held = [w \in Withdrawals |-> 0]
    /\ port = [w \in Withdrawals |-> "none"]
    /\ denied = {}
    /\ wire = {}
    /\ refused = {}
    /\ pc = [x \in Procs |-> "idle"]
    /\ of = [x \in Procs |-> NoOne]
    /\ fee = [r \in Requests |-> 0]

-----------------------------------------------------------------------------
(* withdraw *)

\* A new key is quoted; one with a row is answered from it.
Quote(r, w) ==
    /\ pc[r] = "idle"
    /\ row[w].status = "absent"
    /\ of' = [of EXCEPT ![r] = w]
    /\ \E f \in Fees :
          /\ FeesMove \/ \A q \in Requests : of[q] = w => fee[q] = f
          /\ fee' = [fee EXCEPT ![r] = f]
    /\ pc' = [pc EXCEPT ![r] = "reserve"]
    /\ UNCHANGED <<deaths, wallet, pending, books, provider>>

Total(r) == AmountOf[of[r]] + fee[r]

\* #reserve, its entry: wallet -> pending, once per key.
Reserve(r) ==
    LET w == of[r] IN
    /\ pc[r] = "reserve"
    /\ IF "reserve" \in posted[w]
       THEN UNCHANGED <<wallet, pending, posted, held>>
       ELSE /\ wallet >= Total(r)
            /\ wallet' = wallet - Total(r)
            /\ pending' = pending + Total(r)
            /\ posted' = [posted EXCEPT ![w] = @ \cup {"reserve"}]
            /\ held' = [held EXCEPT ![w] = Total(r)]
    /\ pc' = [pc EXCEPT ![r] = "insert"]
    /\ UNCHANGED <<deaths, row, rows, provider, of, fee>>

\* Faulty variant: every request that reserved goes on to send.
InsertRowSendAlways(r) ==
    LET w == of[r] IN
    /\ pc[r] = "insert"
    /\ IF row[w].status = "absent"
       THEN /\ row' = [row EXCEPT ![w] = [status |-> "reserved", total |-> Total(r)]]
            /\ rows' = Append(rows, w)
       ELSE UNCHANGED <<row, rows>>
    /\ pc' = [pc EXCEPT ![r] = "send"]
    /\ UNCHANGED <<deaths, wallet, pending, posted, held, provider, of, fee>>

\* #reserve, its row, ON CONFLICT DO NOTHING: who loses the insert is answered.
InsertRow(r) ==
    LET w == of[r] IN
    /\ pc[r] = "insert"
    /\ IF row[w].status = "absent"
       THEN /\ row' = [row EXCEPT ![w] = [status |-> "reserved", total |-> Total(r)]]
            /\ rows' = Append(rows, w)
            /\ pc' = [pc EXCEPT ![r] = "send"]
       ELSE UNCHANGED <<row, rows>> /\ pc' = [pc EXCEPT ![r] = "done"]
    /\ UNCHANGED <<deaths, wallet, pending, posted, held, provider, of, fee>>

Send(r) ==
    /\ pc[r] = "send"
    /\ wire' = wire \cup {r}
    /\ pc' = [pc EXCEPT ![r] = "wait"]
    /\ UNCHANGED <<deaths, wallet, pending, books, port, denied, refused, of, fee>>

\* The connection was never made: providerDidNothing.
NotSent(r) ==
    /\ pc[r] = "send"
    /\ denied' = denied \cup {of[r]}
    /\ pc' = [pc EXCEPT ![r] = "fail"]
    /\ UNCHANGED <<deaths, wallet, pending, books, port, wire, refused, of, fee>>

Receipts == {"broadcast", "confirmed", "failed"}

\* Where a receipt leads: a failure to #fail, the others to #markBroadcast.
After(receipt) ==
    CASE receipt = "failed"    -> "fail"
      [] receipt = "broadcast" -> "mark"
      [] OTHER                 -> "confirm"

\* The provider answers the request.
Answered(r) ==
    /\ pc[r] = "wait"
    /\ \/ r \in refused /\ pc' = [pc EXCEPT ![r] = "fail"]
       \/ /\ r \notin refused \cup wire
          /\ port[of[r]] \in Receipts
          /\ pc' = [pc EXCEPT ![r] = After(port[of[r]])]
    /\ UNCHANGED <<deaths, wallet, pending, books, provider, of, fee>>

\* The outcome is unknown: the row stays reserved.  The same step is a refusal
\* before the reserve, and the death of the process at any place.
GiveUp(r) ==
    /\ pc[r] \notin {"idle", "done"}
    /\ pc' = [pc EXCEPT ![r] = "done"]
    /\ UNCHANGED <<deaths, wallet, pending, books, provider, of, fee>>

-----------------------------------------------------------------------------
(* applyReceipt, shared by the request and the sweep *)

Finished(x) ==
    /\ pc' = [pc EXCEPT ![x] = IF x = Sweeper THEN "idle" ELSE "done"]
    /\ of' = IF x = Sweeper THEN [of EXCEPT ![x] = NoOne] ELSE of

\* #markBroadcast: an UPDATE guarded by the status, before any settlement.
MarkBroadcast(x) ==
    LET w == of[x] IN
    /\ pc[x] \in {"mark", "confirm"}
    /\ row' = [row EXCEPT ![w].status = IF @ = "reserved" THEN "broadcast" ELSE @]
    /\ IF pc[x] = "mark"
       THEN Finished(x)
       ELSE pc' = [pc EXCEPT ![x] = "settle"] /\ UNCHANGED of
    /\ UNCHANGED <<deaths, wallet, pending, rows, posted, held, provider, fee>>

\* Faulty variant: the settlement is posted on the row as it was read, and only
\* the guarded UPDATE notices.
SettleUnlocked(x) ==
    LET w == of[x] IN
    /\ pc[x] = "settle"
    /\ IF "settle" \notin posted[w] /\ pending >= row[w].total
       THEN /\ pending' = pending - row[w].total
            /\ posted' = [posted EXCEPT ![w] = @ \cup {"settle"}]
            /\ row' = [row EXCEPT ![w].status = IF @ = "broadcast" THEN "confirmed" ELSE @]
       ELSE UNCHANGED <<pending, posted, row>>
    /\ Finished(x)
    /\ UNCHANGED <<deaths, wallet, rows, held, provider, fee>>

\* pending -> provider for a row still 'broadcast' under the lock, entry and row
\* together; WithdrawalDecided leaves it alone.
Settle(x) ==
    LET w == of[x] IN
    /\ pc[x] = "settle"
    /\ IF row[w].status = "broadcast" /\ "reverse" \notin posted[w] /\ pending >= row[w].total
       THEN /\ pending' = pending - row[w].total
            /\ posted' = [posted EXCEPT ![w] = @ \cup {"settle"}]
            /\ row' = [row EXCEPT ![w].status = "confirmed"]
       ELSE UNCHANGED <<pending, posted, row>>
    /\ Finished(x)
    /\ UNCHANGED <<deaths, wallet, rows, held, provider, fee>>

\* #fail: the reserve reversed for a row still open under the lock.
Fail(x) ==
    LET w == of[x] IN
    /\ pc[x] = "fail"
    /\ IF row[w].status \in {"reserved", "broadcast"} /\ "settle" \notin posted[w]
          /\ pending >= row[w].total
       THEN /\ pending' = pending - row[w].total
            /\ wallet' = wallet + row[w].total
            /\ posted' = [posted EXCEPT ![w] = @ \cup {"reverse"}]
            /\ row' = [row EXCEPT ![w].status = "failed"]
       ELSE UNCHANGED <<wallet, pending, posted, row>>
    /\ Finished(x)
    /\ UNCHANGED <<deaths, rows, held, provider, fee>>

-----------------------------------------------------------------------------
(* The sweep, under its advisory lock *)

Open(w) == row[w].status \in {"reserved", "broadcast"}

\* crypto_withdrawals_pending: the oldest open rows.
Window ==
    LET open == SelectSeq(rows, Open) IN
    {open[i] : i \in {j \in DOMAIN open : j <= Batch}}

\* A question about one of them that is answered.  One the provider cannot
\* answer changes nothing; the next row's turn comes.
Ask(w) ==
    /\ pc[Sweeper] = "idle"
    /\ w \in Window
    /\ port[w] \in Receipts
    /\ of' = [of EXCEPT ![Sweeper] = w]
    /\ pc' = [pc EXCEPT ![Sweeper] = After(port[w])]
    /\ UNCHANGED <<deaths, wallet, pending, books, provider, fee>>

\* The sweep dies, or its answer is lost; the interval starts another.
SweepDies ==
    /\ pc[Sweeper] # "idle"
    /\ deaths > 0
    /\ deaths' = deaths - 1
    /\ Finished(Sweeper)
    /\ UNCHANGED <<wallet, pending, books, provider, fee>>

-----------------------------------------------------------------------------
(* The provider *)

\* It accepts a reference it has not seen, or refuses.  It refuses a second one.
Arrives(r) ==
    LET w == of[r] IN
    /\ r \in wire
    /\ wire' = wire \ {r}
    /\ \/ port[w] = "none" /\ port' = [port EXCEPT ![w] = "taken"] /\ UNCHANGED <<denied, refused>>
       \/ /\ refused' = refused \cup {r}
          /\ denied' = IF port[w] = "none" THEN denied \cup {w} ELSE denied
          /\ UNCHANGED port
    /\ UNCHANGED <<deaths, wallet, pending, books, pc, of, fee>>

\* What it says of a withdrawal moves on; 'failed' may turn out confirmed.
Moves(w, state) ==
    /\ <<port[w], state>> \in {<<"taken", "broadcast">>, <<"taken", "failed">>,
                               <<"broadcast", "confirmed">>, <<"broadcast", "failed">>,
                               <<"failed", "confirmed">>}
    /\ port' = [port EXCEPT ![w] = state]
    /\ denied' = IF state = "failed" THEN denied \cup {w} ELSE denied
    /\ UNCHANGED <<deaths, wallet, pending, books, wire, refused, pc, of, fee>>

RequestStep(r) ==
    \/ \E w \in Withdrawals : Quote(r, w)
    \/ Reserve(r) \/ InsertRow(r) \/ Send(r) \/ NotSent(r)
    \/ Answered(r) \/ GiveUp(r)

ReceiptStep(x) == MarkBroadcast(x) \/ Settle(x) \/ Fail(x)

Next ==
    \/ \E r \in Requests : RequestStep(r) \/ Arrives(r)
    \/ \E x \in Procs : ReceiptStep(x)
    \/ \E w \in Withdrawals : Ask(w) \/ \E state \in Receipts : Moves(w, state)
    \/ SweepDies

\* The interval goes on, and asks about one row after the other.
Fairness ==
    /\ \A w \in Withdrawals : SF_vars(Ask(w))
    /\ WF_vars(ReceiptStep(Sweeper))
-----------------------------------------------------------------------------
(* The invariant behind GivenBackOnItsWord. *)

Statuses == {"absent", "reserved", "broadcast", "confirmed", "failed"}

Places == {"idle", "reserve", "insert", "send", "wait", "mark", "confirm", "settle",
           "fail", "done"}

Shape ==
    /\ row \in [Withdrawals -> [status : Statuses, total : Int]]
    /\ posted \in [Withdrawals -> SUBSET {"reserve", "settle", "reverse"}]
    /\ port \in [Withdrawals -> {"none", "taken"} \cup Receipts]
    /\ denied \subseteq Withdrawals
    /\ wire \subseteq Requests /\ refused \subseteq Requests
    /\ pc \in [Procs -> Places]
    /\ of \in [Procs -> Withdrawals \cup {NoOne}]
    /\ fee \in [Requests -> Int]
    /\ \A x \in Procs : pc[x] # "idle" => of[x] \in Withdrawals
    /\ pc[Sweeper] \notin {"reserve", "insert", "send", "wait", "done"}

\* Requests about to send, and those whose message has not arrived.
Sending == {r \in Requests : pc[r] = "send" \/ r \in wire}

\* A withdrawal has one sender, which wrote its row, and until it is heard the
\* provider knows nothing of it.
OneSender ==
    \A r \in Sending :
        /\ row[of[r]].status # "absent"
        /\ port[of[r]] = "none"
        /\ \A q \in Sending : of[q] = of[r] => q = r

\* A request sends once.
SentOnce ==
    \A r \in wire \cup refused : pc[r] \notin {"idle", "reserve", "insert", "send"}

\* The provider knows of nothing that has no row.
RowComesFirst == \A w \in Withdrawals : port[w] # "none" => row[w].status # "absent"

\* Whoever is about to give a withdrawal back does so on the provider's word.
OnItsWord ==
    /\ \A w \in Withdrawals : port[w] = "failed" \/ "reverse" \in posted[w] => w \in denied
    /\ \A r \in refused : of[r] \in denied
    /\ \A x \in Procs : pc[x] = "fail" => of[x] \in denied

IInv == Shape /\ OneSender /\ SentOnce /\ RowComesFirst /\ OnItsWord

\* A request that has not come is about no withdrawal.
IdleIsFree == \A r \in Requests : pc[r] = "idle" => of[r] = NoOne

\* Two requests for one withdrawal were quoted the same fee, and what its entry
\* moved is what each of them would have moved.
OneQuote ==
    /\ held \in [Withdrawals -> Int]
    /\ \A q, r \in Requests : of[q] = of[r] => fee[q] = fee[r]
    /\ \A r \in Requests : of[r] \in Withdrawals /\ "reserve" \in posted[of[r]]
           => held[of[r]] = Total(r)
    /\ \A w \in Withdrawals : "reserve" \in posted[w] => \E r \in Requests : of[r] = w

\* A row follows the entry, holds what it moved, and its status says which
\* entries came after it.
RowTellsEntries ==
    /\ \A r \in Requests : pc[r] = "insert" => "reserve" \in posted[of[r]]
    /\ \A w \in Withdrawals :
          CASE row[w].status = "absent"    -> posted[w] \subseteq {"reserve"}
            [] row[w].status = "confirmed" -> posted[w] = {"reserve", "settle"}
            [] row[w].status = "failed"    -> posted[w] = {"reserve", "reverse"}
            [] OTHER                       -> posted[w] = {"reserve"} /\ row[w].total = held[w]
=============================================================================
