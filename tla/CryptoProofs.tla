----------------------------- MODULE CryptoProofs ------------------------------
(* Crypto withdrawals and deposits, for any number of them, of requests, handlers, *)
(* amounts and fees, from the inductive invariants IInv of CryptoWithdrawals.tla   *)
(* and CryptoDeposits.tla.                                                        *)
EXTENDS CryptoAccount, Sums

LEMMA InitHasInv == Init => Out!IInv
BY CryptoAccountAssumption DEF Init, Out!Init, Out!Assumption, Out!IInv, Out!Shape,
                               Out!OneSender, Out!SentOnce, Out!RowComesFirst, Out!OnItsWord,
                               Out!Sending, Out!Statuses, Out!Places, Out!Receipts, Out!Procs

-----------------------------------------------------------------------------
(* A request, up to its message. *)

LEMMA QuoteKeepsInv ==
    ASSUME Out!IInv, NEW r \in Requests, NEW w \in Withdrawals, Out!Quote(r, w)
    PROVE  Out!IInv'
<1> USE CryptoAccountAssumption
    DEF Out!Assumption, Out!IInv, Out!Quote, Out!books, Out!provider, Out!Procs
<1>1. Out!Shape'
  BY DEF Out!Shape, Out!Places, Out!Statuses, Out!Receipts
<1>2. Out!SentOnce' /\ Out!RowComesFirst'
  BY DEF Out!Shape, Out!SentOnce, Out!RowComesFirst
<1>3. Out!OneSender'
  BY DEF Out!Shape, Out!OneSender, Out!Sending, Out!SentOnce
<1>4. Out!OnItsWord'
  BY DEF Out!Shape, Out!OnItsWord, Out!SentOnce
<1> QED BY <1>1, <1>2, <1>3, <1>4

LEMMA ReserveKeepsInv ==
    ASSUME Out!IInv, NEW r \in Requests, Out!Reserve(r)
    PROVE  Out!IInv'
<1> USE CryptoAccountAssumption
    DEF Out!Assumption, Out!IInv, Out!Reserve, Out!books, Out!provider, Out!Procs
<1>0. /\ UNCHANGED <<port, denied, refused, of>> /\ pc' = [pc EXCEPT ![r] = "insert"]
      /\ \A w \in Withdrawals : "reverse" \in posted'[w] => "reverse" \in posted[w]
  BY DEF Out!Shape
<1>1. Out!Shape'
  BY DEF Out!Shape, Out!Places, Out!Statuses, Out!Receipts
<1>2. Out!SentOnce' /\ Out!RowComesFirst'
  BY DEF Out!Shape, Out!SentOnce, Out!RowComesFirst
<1>3. Out!OneSender'
  BY DEF Out!Shape, Out!OneSender, Out!Sending
<1>4. Out!OnItsWord'
  <2> HIDE DEF Out!Reserve
  <2> QED BY <1>0 DEF Out!Shape, Out!OnItsWord
<1> QED BY <1>1, <1>2, <1>3, <1>4

\* Only who writes the row goes on to send: nobody else is sending, because a
\* sender's row is there.
LEMMA InsertRowKeepsInv ==
    ASSUME Out!IInv, NEW r \in Requests, Out!InsertRow(r)
    PROVE  Out!IInv'
<1> USE CryptoAccountAssumption
    DEF Out!Assumption, Out!IInv, Out!InsertRow, Out!provider, Out!Procs
<1>0. /\ of[r] \in Withdrawals
      /\ row' \in [Withdrawals -> [status : Out!Statuses, total : Int]]
      /\ \A w \in Withdrawals : row[w].status # "absent" => row'[w] = row[w]
  <2>1. of[r] \in Withdrawals /\ Out!Total(r) \in Int
    BY DEF Out!Shape, Out!Total
  <2>2. \/ row' = row
        \/ /\ row[of[r]].status = "absent"
           /\ row' = [row EXCEPT ![of[r]] = [status |-> "reserved", total |-> Out!Total(r)]]
    BY DEF Out!InsertRow
  <2> HIDE DEF Out!InsertRow
  <2> QED BY <2>1, <2>2 DEF Out!Shape, Out!Statuses
<1>1. Out!Shape'
  BY <1>0 DEF Out!Shape, Out!Places, Out!Statuses, Out!Receipts
<1>2. Out!SentOnce' /\ Out!RowComesFirst'
  BY <1>0 DEF Out!Shape, Out!SentOnce, Out!RowComesFirst
<1>3. Out!OneSender'
  <2>1. CASE row[of[r]].status = "absent"
    <3>1. Out!Sending' = Out!Sending \cup {r}
      BY <2>1 DEF Out!Shape, Out!Sending
    <3>2. port[of[r]] = "none" /\ \A q \in Out!Sending : of[q] # of[r]
      BY <1>0, <2>1 DEF Out!OneSender, Out!RowComesFirst
    <3>3. row'[of[r]].status # "absent"
      BY <1>0, <2>1 DEF Out!Shape
    <3>4. \A q \in Out!Sending : of[q] \in Withdrawals
      BY DEF Out!Shape, Out!Sending, Out!SentOnce
    <3> QED BY <1>0, <3>1, <3>2, <3>3, <3>4 DEF Out!OneSender
  <2>2. CASE row[of[r]].status # "absent"
    BY <2>2 DEF Out!Shape, Out!OneSender, Out!Sending
  <2> QED BY <2>1, <2>2
<1>4. Out!OnItsWord'
  BY DEF Out!Shape, Out!OnItsWord
<1> QED BY <1>1, <1>2, <1>3, <1>4

LEMMA SendKeepsInv ==
    ASSUME Out!IInv, NEW r \in Requests, Out!Send(r) \/ Out!NotSent(r)
    PROVE  Out!IInv'
<1> USE CryptoAccountAssumption
    DEF Out!Assumption, Out!IInv, Out!Send, Out!NotSent, Out!books, Out!provider, Out!Procs
<1>1. Out!Shape'
  BY DEF Out!Shape, Out!Places, Out!Statuses, Out!Receipts
<1>2. Out!SentOnce' /\ Out!RowComesFirst'
  BY DEF Out!Shape, Out!SentOnce, Out!RowComesFirst
<1>3. Out!OneSender'
  BY DEF Out!Shape, Out!OneSender, Out!Sending
<1>4. Out!OnItsWord'
  BY DEF Out!Shape, Out!OnItsWord
<1> QED BY <1>1, <1>2, <1>3, <1>4

\* Where a receipt leads, and that only a failure leads to giving back.
LEMMA AfterLeads ==
    ASSUME NEW receipt \in Out!Receipts
    PROVE  /\ Out!After(receipt) \in {"fail", "mark", "confirm"}
           /\ Out!After(receipt) = "fail" => receipt = "failed"
BY DEF Out!After, Out!Receipts

LEMMA AnsweredKeepsInv ==
    ASSUME Out!IInv, NEW r \in Requests, Out!Answered(r) \/ Out!GiveUp(r)
    PROVE  Out!IInv'
<1> USE CryptoAccountAssumption
    DEF Out!Assumption, Out!IInv, Out!Answered, Out!GiveUp, Out!books, Out!provider,
        Out!Procs
<1>1. Out!Shape'
  BY AfterLeads DEF Out!Shape, Out!Places, Out!Statuses, Out!Receipts
<1>2. Out!SentOnce' /\ Out!RowComesFirst'
  BY AfterLeads DEF Out!Shape, Out!SentOnce, Out!RowComesFirst
<1>3. Out!OneSender'
  BY AfterLeads DEF Out!Shape, Out!OneSender, Out!Sending
<1>4. Out!OnItsWord'
  BY AfterLeads DEF Out!Shape, Out!OnItsWord
<1> QED BY <1>1, <1>2, <1>3, <1>4

-----------------------------------------------------------------------------
(* Receipts, the sweep and the provider. *)

\* What a step on a receipt may do: it writes no row and gives back only what the
\* provider denied.
LEMMA ReceiptMoves ==
    ASSUME Out!Shape, NEW x \in Out!Procs, Out!ReceiptStep(x)
    PROVE  /\ row' \in [Withdrawals -> [status : Out!Statuses, total : Int]]
           /\ \A w \in Withdrawals : row'[w].status = "absent" <=> row[w].status = "absent"
           /\ posted' \in [Withdrawals -> SUBSET {"reserve", "settle", "reverse"}]
           /\ \A w \in Withdrawals : "reverse" \in posted'[w]
                 => "reverse" \in posted[w] \/ (pc[x] = "fail" /\ w = of[x])
           /\ pc[x] \in {"mark", "confirm", "settle", "fail"}
           /\ \E place \in {"settle", "done", "idle"} :
                 /\ pc' = [pc EXCEPT ![x] = place]
                 /\ IF x = Sweeper THEN place # "done" ELSE place # "idle"
                 /\ place # "idle" => of' = of
           /\ of' \in {of, [of EXCEPT ![x] = NoOne]}
           /\ x # Sweeper => of' = of
           /\ UNCHANGED <<port, denied, wire, refused, fee>>
<1> USE CryptoAccountAssumption DEF Out!Assumption, Out!Procs
<1>w. PICK v \in Withdrawals : v = of[x]
  BY DEF Out!ReceiptStep, Out!MarkBroadcast, Out!Settle, Out!Fail, Out!Shape
<1>1. /\ row' \in [Withdrawals -> [status : Out!Statuses, total : Int]]
      /\ \A w \in Withdrawals : row'[w].status = "absent" <=> row[w].status = "absent"
  <2>1. row' = row \/ \E state \in {"broadcast", "confirmed", "failed"} :
                         /\ row[v].status # "absent"
                         /\ row' = [row EXCEPT ![v].status = state]
    BY <1>w DEF Out!ReceiptStep, Out!MarkBroadcast, Out!Settle, Out!Fail, Out!Shape, Out!Statuses
  <2>2. CASE row' = row
    BY <2>2 DEF Out!Shape, Out!Statuses
  <2>3. ASSUME NEW state \in {"broadcast", "confirmed", "failed"}, row[v].status # "absent",
               row' = [row EXCEPT ![v].status = state]
        PROVE  /\ row' \in [Withdrawals -> [status : Out!Statuses, total : Int]]
               /\ \A w \in Withdrawals :
                     row'[w].status = "absent" <=> row[w].status = "absent"
    <3>1. row \in [Withdrawals -> [status : Out!Statuses, total : Int]]
      BY DEF Out!Shape
    <3>2. [row[v] EXCEPT !.status = state] \in [status : Out!Statuses, total : Int]
      BY <3>1 DEF Out!Statuses
    <3>3. row' = [row EXCEPT ![v] = [row[v] EXCEPT !.status = state]]
      BY <2>3, <3>1
    <3> QED BY <2>3, <3>1, <3>2, <3>3
  <2> QED BY <2>1, <2>2, <2>3
<1>2. /\ posted' \in [Withdrawals -> SUBSET {"reserve", "settle", "reverse"}]
      /\ \A w \in Withdrawals : "reverse" \in posted'[w]
            => "reverse" \in posted[w] \/ (pc[x] = "fail" /\ w = of[x])
  <2>1. posted' = posted \/ \E k \in {"settle", "reverse"} :
                               /\ k = "reverse" => pc[x] = "fail"
                               /\ posted' = [posted EXCEPT ![v] = @ \cup {k}]
    BY <1>w DEF Out!ReceiptStep, Out!MarkBroadcast, Out!Settle, Out!Fail
  <2> QED BY <1>w, <2>1 DEF Out!Shape
<1>3. /\ pc[x] \in {"mark", "confirm", "settle", "fail"}
      /\ UNCHANGED <<port, denied, wire, refused, fee>>
  BY DEF Out!ReceiptStep, Out!MarkBroadcast, Out!Settle, Out!Fail, Out!provider
<1>4. \/ Out!Finished(x)
      \/ pc' = [pc EXCEPT ![x] = "settle"] /\ UNCHANGED of
  BY DEF Out!ReceiptStep, Out!MarkBroadcast, Out!Settle, Out!Fail
<1> QED BY <1>1, <1>2, <1>3, <1>4 DEF Out!Finished

LEMMA ReceiptKeepsInv ==
    ASSUME Out!IInv, NEW x \in Out!Procs, Out!ReceiptStep(x)
    PROVE  Out!IInv'
<1> USE CryptoAccountAssumption, ReceiptMoves DEF Out!Assumption, Out!IInv, Out!Procs
<1>1. Out!Shape'
  BY DEF Out!Shape, Out!Places, Out!Statuses, Out!Receipts
<1>2. Out!SentOnce' /\ Out!RowComesFirst'
  BY DEF Out!Shape, Out!SentOnce, Out!RowComesFirst
<1>3. Out!OneSender'
  <2>1. Out!Sending' = Out!Sending /\ \A q \in Requests : of'[q] = of[q]
    BY DEF Out!Shape, Out!Sending
  <2>2. \A q \in Out!Sending : q \in Requests /\ of[q] \in Withdrawals
    BY DEF Out!Shape, Out!Sending, Out!SentOnce
  <2> HIDE ReceiptMoves
  <2>3. /\ \A w \in Withdrawals : row'[w].status = "absent" <=> row[w].status = "absent"
        /\ port' = port
    BY ReceiptMoves
  <2> QED BY <2>1, <2>2, <2>3 DEF Out!OneSender
<1>4. Out!OnItsWord'
  <2>1. \A w \in Withdrawals : port'[w] = "failed" \/ "reverse" \in posted'[w] => w \in denied'
    BY DEF Out!Shape, Out!OnItsWord
  <2>2. \A r \in refused' : of'[r] \in denied'
    BY DEF Out!Shape, Out!OnItsWord
  <2>3. \A y \in Out!Procs : pc'[y] = "fail" => of'[y] \in denied'
    <3>1. denied' = denied /\ pc' \in [Out!Procs -> Out!Places]
      BY <1>1 DEF Out!Shape
    <3>2. \A y \in Out!Procs : pc'[y] = "fail" => pc[y] = "fail" /\ of'[y] = of[y]
      BY DEF Out!Shape
    <3> QED BY <3>1, <3>2 DEF Out!OnItsWord
  <2> QED BY <2>1, <2>2, <2>3 DEF Out!OnItsWord
<1> QED BY <1>1, <1>2, <1>3, <1>4

LEMMA SweepKeepsInv ==
    ASSUME Out!IInv, Out!SweepDies \/ \E w \in Withdrawals : Out!Ask(w)
    PROVE  Out!IInv'
<1> USE CryptoAccountAssumption
    DEF Out!Assumption, Out!IInv, Out!Ask, Out!SweepDies, Out!Finished, Out!books,
        Out!provider, Out!Procs
<1>1. Out!Shape'
  BY AfterLeads DEF Out!Shape, Out!Places, Out!Statuses, Out!Receipts
<1>2. Out!SentOnce' /\ Out!RowComesFirst'
  BY AfterLeads DEF Out!Shape, Out!SentOnce, Out!RowComesFirst
<1>3. Out!OneSender'
  BY AfterLeads DEF Out!Shape, Out!OneSender, Out!Sending
<1>4. Out!OnItsWord'
  BY AfterLeads DEF Out!Shape, Out!OnItsWord
<1> QED BY <1>1, <1>2, <1>3, <1>4

\* A message that arrives is the first about its withdrawal, so a refusal of it
\* is a refusal of the withdrawal.
LEMMA ArrivesKeepsInv ==
    ASSUME Out!IInv, NEW r \in Requests, Out!Arrives(r)
    PROVE  Out!IInv'
<1> USE CryptoAccountAssumption
    DEF Out!Assumption, Out!IInv, Out!Arrives, Out!books, Out!Procs, Out!Receipts
<1>1. r \in Out!Sending /\ port[of[r]] = "none" /\ of[r] \in Withdrawals
  BY DEF Out!Sending, Out!OneSender, Out!Shape, Out!SentOnce
<1>2. Out!Shape'
  BY <1>1 DEF Out!Shape, Out!Places, Out!Statuses, Out!Receipts
<1>3. Out!SentOnce' /\ Out!RowComesFirst'
  BY <1>1 DEF Out!Shape, Out!SentOnce, Out!RowComesFirst, Out!OneSender
<1>4. Out!OneSender'
  BY <1>1 DEF Out!Shape, Out!OneSender, Out!Sending, Out!SentOnce
<1>5. Out!OnItsWord'
  BY <1>1 DEF Out!Shape, Out!OnItsWord
<1> QED BY <1>2, <1>3, <1>4, <1>5

LEMMA MovesKeepsInv ==
    ASSUME Out!IInv, NEW w \in Withdrawals, NEW state \in Out!Receipts, Out!Moves(w, state)
    PROVE  Out!IInv'
<1> USE CryptoAccountAssumption
    DEF Out!Assumption, Out!IInv, Out!Moves, Out!books, Out!Procs
<1>1. port[w] # "none"
  OBVIOUS
<1>2. Out!Shape'
  BY DEF Out!Shape, Out!Places, Out!Statuses, Out!Receipts
<1>3. Out!SentOnce' /\ Out!RowComesFirst'
  BY <1>1 DEF Out!Shape, Out!SentOnce, Out!RowComesFirst
<1>4. Out!OneSender'
  BY <1>1 DEF Out!Shape, Out!OneSender, Out!Sending
<1>5. Out!OnItsWord'
  BY DEF Out!Shape, Out!OnItsWord
<1> QED BY <1>2, <1>3, <1>4, <1>5

\* A step that changes nothing the invariant speaks of.
LEMMA StutterKeepsInv ==
    ASSUME Out!IInv, UNCHANGED outVars
    PROVE  Out!IInv'
BY DEF outVars, Out!IInv, Out!Shape, Out!OneSender, Out!SentOnce, Out!RowComesFirst,
       Out!OnItsWord, Out!Sending, Out!Procs

LEMMA StepKeepsInv ==
    ASSUME Out!IInv, [Next]_vars
    PROVE  Out!IInv'
<1>1. CASE Out!Next /\ UNCHANGED inVars
  <2>1. CASE \E r \in Requests : Out!RequestStep(r)
    BY <2>1, QuoteKeepsInv, ReserveKeepsInv, InsertRowKeepsInv, SendKeepsInv, AnsweredKeepsInv
       DEF Out!RequestStep
  <2>2. CASE \E r \in Requests : Out!Arrives(r)
    BY <2>2, ArrivesKeepsInv
  <2>3. CASE \E x \in Out!Procs : Out!ReceiptStep(x)
    BY <2>3, ReceiptKeepsInv
  <2>4. CASE Out!SweepDies \/ \E w \in Withdrawals : Out!Ask(w)
    BY <2>4, SweepKeepsInv
  <2>5. CASE \E w \in Withdrawals, state \in Out!Receipts : Out!Moves(w, state)
    BY <2>5, MovesKeepsInv
  <2> QED BY <1>1, <2>1, <2>2, <2>3, <2>4, <2>5 DEF Out!Next
<1>2. CASE UNCHANGED outVars
  BY <1>2, StutterKeepsInv
<1>3. CASE UNCHANGED vars
  BY <1>3, StutterKeepsInv DEF vars, outVars
<1> QED BY <1>1, <1>2, <1>3 DEF Next

-----------------------------------------------------------------------------
\* The invariant holds of every reachable state.
THEOREM WithdrawalsHaveInv == Spec => []Out!IInv
<1>1. Init => Out!IInv
  BY InitHasInv
<1>2. Out!IInv /\ [Next]_vars => Out!IInv'
  BY StepKeepsInv
<1> QED BY <1>1, <1>2, PTL DEF Spec

\* CryptoService.#fail is reached only on the provider's word: a withdrawal whose
\* money was given back was refused, never sent, or reported as failed, however
\* often it is submitted and whoever hears of it.
THEOREM OnlyTheProviderGivesBack == Spec => []GivenBackOnItsWord
<1>1. Out!IInv => GivenBackOnItsWord
  BY DEF Out!IInv, Out!OnItsWord, GivenBackOnItsWord
<1> QED BY <1>1, WithdrawalsHaveInv, PTL

-----------------------------------------------------------------------------
(* Deposits. *)

LEMMA InitHasDepositInv == Init => In!IInv
BY CryptoAccountAssumption DEF Init, In!Init, In!Assumption, In!IInv, In!Shape,
                               In!RowFollowsEntry, In!ConfirmsWhatIsHeld, In!SpendableOnceHeld,
                               In!Runs

\* A run begins on what it read: a row comes after the entry that holds the
\* deposit, so a deep deposit with a row may be freed.
LEMMA BeginKeepsInv ==
    ASSUME In!IInv, NEW d \in Deposits,
           \/ In!Deepen(d)
           \/ In!Sweep(d)
           \/ \E h \in Handlers : In!DeliverSeen(h, d) \/ In!DeliverConfirmed(h, d)
    PROVE  In!IInv'
<1> USE CryptoAccountAssumption
    DEF In!Assumption, In!IInv, In!Deepen, In!Sweep, In!DeliverSeen, In!DeliverConfirmed,
        In!Begins, In!Runs
<1>1. In!Shape'
  BY DEF In!Shape
<1>2. In!RowFollowsEntry'
  BY DEF In!Shape, In!RowFollowsEntry
<1>3. In!ConfirmsWhatIsHeld'
  BY DEF In!Shape, In!RowFollowsEntry, In!ConfirmsWhatIsHeld
<1>4. In!SpendableOnceHeld'
  BY DEF In!Shape, In!SpendableOnceHeld
<1> QED BY <1>1, <1>2, <1>3, <1>4

\* What a run does, or its death: no entry is taken back.
LEMMA RunKeepsInv ==
    ASSUME In!IInv, NEW x \in In!Runs, In!RunStep(x) \/ In!Dies(x)
    PROVE  In!IInv'
<1> USE CryptoAccountAssumption
    DEF In!Assumption, In!IInv, In!RunStep, In!Hold, In!Note, In!Confirm, In!Finish, In!Dies,
        In!Ends
<1>1. In!Shape'
  BY DEF In!Shape
<1>2. In!RowFollowsEntry'
  BY DEF In!Shape, In!RowFollowsEntry
<1>3. In!ConfirmsWhatIsHeld'
  BY DEF In!Shape, In!ConfirmsWhatIsHeld
<1>4. In!SpendableOnceHeld'
  BY DEF In!Shape, In!ConfirmsWhatIsHeld, In!SpendableOnceHeld
<1> QED BY <1>1, <1>2, <1>3, <1>4

LEMMA DepositStutterKeepsInv ==
    ASSUME In!IInv, UNCHANGED inVars
    PROVE  In!IInv'
BY DEF inVars, In!IInv, In!Shape, In!RowFollowsEntry, In!ConfirmsWhatIsHeld,
       In!SpendableOnceHeld, In!Runs

LEMMA StepKeepsDepositInv ==
    ASSUME In!IInv, [Next]_vars
    PROVE  In!IInv'
<1>1. CASE In!Next
  BY <1>1, BeginKeepsInv, RunKeepsInv DEF In!Next
<1>2. CASE UNCHANGED inVars
  BY <1>2, DepositStutterKeepsInv
<1>3. CASE UNCHANGED vars
  BY <1>3, DepositStutterKeepsInv DEF vars, inVars
<1> QED BY <1>1, <1>2, <1>3 DEF Next

\* The credit of CryptoWebhookService and of the sweep: money from the chain is
\* spendable only after it lay in pending and its confirmations were counted.
THEOREM DepositsAreHeldFirst == Spec => []In!SpendableOnceHeld
<1>1. Init => In!IInv
  BY InitHasDepositInv
<1>2. In!IInv /\ [Next]_vars => In!IInv'
  BY StepKeepsDepositInv
<1>3. In!IInv => In!SpendableOnceHeld
  BY DEF In!IInv
<1> QED BY <1>1, <1>2, <1>3, PTL DEF Spec
-----------------------------------------------------------------------------
(* The account the two share. *)

\* What is in the account for each withdrawal and each deposit, and its sum.
LEMMA HoldsAreNumbers ==
    ASSUME AccountInv
    PROVE  /\ \A w \in Withdrawals : HeldFor(w) \in Int /\ Leaving[w] = HeldFor(w)
           /\ \A d \in Deposits : MaturingOf(d) \in Int /\ Arriving[d] = MaturingOf(d)
           /\ IntsOn(Leaving, Withdrawals) /\ IntsOn(Arriving, Deposits)
           /\ SumFunctionOnSet(Leaving, Withdrawals) \in Int
           /\ SumFunctionOnSet(Arriving, Deposits) \in Int
           /\ pending = SumFunctionOnSet(Leaving, Withdrawals) + SumFunctionOnSet(Arriving, Deposits)
           /\ pending \in Int
<1>1. ASSUME NEW w \in Withdrawals PROVE HeldFor(w) \in Int
  BY DEF AccountInv, Out!OneQuote, HeldFor
<1>2. ASSUME NEW d \in Deposits PROVE MaturingOf(d) \in Int
  BY CryptoAccountAssumption DEF In!Assumption, MaturingOf
<1>3. IntsOn(Leaving, Withdrawals) /\ IntsOn(Arriving, Deposits)
  BY <1>1, <1>2 DEF IntsOn, Leaving, Arriving
<1>4. /\ SumFunctionOnSet(Leaving, Withdrawals) \in Int
      /\ SumFunctionOnSet(Arriving, Deposits) \in Int
  BY <1>3, SumType, CryptoAccountAssumption
<1>5. pending = SumFunctionOnSet(Leaving, Withdrawals) + SumFunctionOnSet(Arriving, Deposits)
  BY DEF AccountInv, PendingIsTheHolds
<1> QED BY <1>1, <1>2, <1>3, <1>4, <1>5 DEF Leaving, Arriving

\* A step on one withdrawal keeps the account if pending moves as its hold does.
LEMMA OneWithdrawalMoves ==
    ASSUME AccountInv, UNCHANGED inVars, NEW v \in Withdrawals, HeldFor(v)' \in Int,
           \A w \in Withdrawals \ {v} : HeldFor(w)' = HeldFor(w),
           pending' = pending + (HeldFor(v)' - HeldFor(v))
    PROVE  PendingIsTheHolds'
<1>1. /\ Leaving'[v] = HeldFor(v)' /\ Leaving[v] = HeldFor(v)
      /\ \A w \in Withdrawals \ {v} : Leaving[w] = Leaving'[w]
  BY DEF Leaving
<1>2. IntsOn(Leaving, Withdrawals) /\ IsFiniteSet(Withdrawals) /\ HeldFor(v) \in Int
  BY HoldsAreNumbers, CryptoAccountAssumption
<1>3. SumFunctionOnSet(Leaving', Withdrawals)
        = SumFunctionOnSet(Leaving, Withdrawals) + (Leaving'[v] - Leaving[v])
  BY <1>1, <1>2, SumChange
<1>4. Arriving' = Arriving
  BY DEF Arriving, MaturingOf, inVars
<1>5. SumFunctionOnSet(Arriving', Deposits) = SumFunctionOnSet(Arriving, Deposits)
  BY <1>4
<1>6. pending' = SumFunctionOnSet(Leaving', Withdrawals) + SumFunctionOnSet(Arriving', Deposits)
  BY <1>1, <1>2, <1>3, <1>5, HoldsAreNumbers
<1> QED BY <1>6 DEF PendingIsTheHolds

LEMMA OneDepositMoves ==
    ASSUME AccountInv, UNCHANGED outVars, NEW v \in Deposits, MaturingOf(v)' \in Int,
           \A d \in Deposits \ {v} : MaturingOf(d)' = MaturingOf(d),
           pending' = pending + (MaturingOf(v)' - MaturingOf(v))
    PROVE  PendingIsTheHolds'
<1>1. /\ Arriving'[v] = MaturingOf(v)' /\ Arriving[v] = MaturingOf(v)
      /\ \A d \in Deposits \ {v} : Arriving[d] = Arriving'[d]
  BY DEF Arriving
<1>2. IntsOn(Arriving, Deposits) /\ IsFiniteSet(Deposits) /\ MaturingOf(v) \in Int
  BY HoldsAreNumbers, CryptoAccountAssumption
<1>3. SumFunctionOnSet(Arriving', Deposits)
        = SumFunctionOnSet(Arriving, Deposits) + (Arriving'[v] - Arriving[v])
  BY <1>1, <1>2, SumChange
<1>4. Leaving' = Leaving
  BY DEF Leaving, HeldFor, outVars
<1>5. SumFunctionOnSet(Leaving', Withdrawals) = SumFunctionOnSet(Leaving, Withdrawals)
  BY <1>4
<1>6. pending' = SumFunctionOnSet(Leaving', Withdrawals) + SumFunctionOnSet(Arriving', Deposits)
  BY <1>1, <1>2, <1>3, <1>5, HoldsAreNumbers
<1> QED BY <1>6 DEF PendingIsTheHolds

\* A step that moves nothing in the account.
LEMMA NothingMoves ==
    ASSUME AccountInv, UNCHANGED <<pending, posted, held, entries>>
    PROVE  PendingIsTheHolds'
<1>1. UNCHANGED <<Leaving, Arriving>>
  BY DEF Leaving, Arriving, HeldFor, MaturingOf
<1>2. SumFunctionOnSet(Leaving, Withdrawals)' = SumFunctionOnSet(Leaving, Withdrawals)
  BY <1>1
<1>3. SumFunctionOnSet(Arriving, Deposits)' = SumFunctionOnSet(Arriving, Deposits)
  BY <1>1
<1> QED BY <1>2, <1>3 DEF AccountInv, PendingIsTheHolds

\* What the requests keep of each other and of the entries.
Kept == Out!OneQuote /\ Out!RowTellsEntries /\ PendingIsTheHolds

\* No step takes a request back to where it has not come.
LEMMA IdleStaysFree ==
    ASSUME AccountInv, Out!Next
    PROVE  Out!IdleIsFree'
<1> USE CryptoAccountAssumption, AfterLeads
    DEF AccountInv, Out!IInv, Out!Shape, Out!Procs, Out!Assumption, Out!IdleIsFree
<1>1. CASE \E r \in Requests : Out!RequestStep(r)
  BY <1>1 DEF Out!RequestStep, Out!Quote, Out!Reserve, Out!InsertRow, Out!Send, Out!NotSent,
              Out!Answered, Out!GiveUp
<1>2. CASE \E x \in Out!Procs : Out!ReceiptStep(x)
  BY <1>2 DEF Out!ReceiptStep, Out!MarkBroadcast, Out!Settle, Out!Fail, Out!Finished
<1>3. CASE \/ \E r \in Requests : Out!Arrives(r)
           \/ \E w \in Withdrawals : Out!Ask(w) \/ \E state \in Out!Receipts : Out!Moves(w, state)
           \/ Out!SweepDies
  BY <1>3 DEF Out!Arrives, Out!Ask, Out!Moves, Out!SweepDies, Out!Finished
<1> QED BY <1>1, <1>2, <1>3 DEF Out!Next

\* A second request for a withdrawal is quoted what the first was.
LEMMA QuoteKeepsAccount ==
    ASSUME ~FeesMove, AccountInv, UNCHANGED inVars,
           NEW r \in Requests, NEW v \in Withdrawals, Out!Quote(r, v)
    PROVE  Kept'
<1> USE CryptoAccountAssumption DEF AccountInv, Out!Assumption
<1>1. PICK f \in Fees : /\ \A q \in Requests : of[q] = v => fee[q] = f
                       /\ fee' = [fee EXCEPT ![r] = f]
  BY DEF Out!Quote
<1>2. /\ of' = [of EXCEPT ![r] = v] /\ pc' = [pc EXCEPT ![r] = "reserve"]
      /\ UNCHANGED <<pending, row, rows, posted, held>>
  BY DEF Out!Quote, Out!books
<1>3. /\ of'[r] = v /\ fee'[r] = f
      /\ \A q \in Requests \ {r} : of'[q] = of[q] /\ fee'[q] = fee[q]
  BY <1>1, <1>2 DEF Out!IInv, Out!Shape, Out!Procs
<1>4. of[r] = NoOne
  BY DEF Out!Quote, Out!IdleIsFree
<1>5. Out!OneQuote'
  <2>1. \A p, q \in Requests : of'[p] = of'[q] => fee'[p] = fee'[q]
    BY <1>1, <1>3 DEF Out!OneQuote
  <2>2. ASSUME NEW q \in Requests, of'[q] \in Withdrawals, "reserve" \in posted'[of'[q]]
        PROVE  held'[of'[q]] = Out!Total(q)'
    <3>1. CASE q = r
      <4>1. PICK p \in Requests : of[p] = v
        BY <1>2, <1>3, <2>2, <3>1 DEF Out!OneQuote
      <4>2. held[v] = Out!Total(p) /\ fee[p] = f
        BY <1>1, <1>2, <1>3, <2>2, <3>1, <4>1 DEF Out!OneQuote
      <4> QED BY <1>2, <1>3, <3>1, <4>1, <4>2 DEF Out!Total
    <3>2. CASE q # r
      BY <1>2, <1>3, <2>2, <3>2 DEF Out!OneQuote, Out!Total
    <3> QED BY <3>1, <3>2
  <2>3. \A w \in Withdrawals : "reserve" \in posted'[w] => \E q \in Requests : of'[q] = w
    BY <1>2, <1>3, <1>4 DEF Out!OneQuote
  <2> QED BY <1>2, <2>1, <2>2, <2>3 DEF Out!OneQuote
<1>6. Out!RowTellsEntries'
  BY <1>2, <1>3 DEF Out!RowTellsEntries, Out!IInv, Out!Shape, Out!Procs
<1>7. PendingIsTheHolds'
  BY <1>2, NothingMoves DEF inVars
<1> QED BY <1>5, <1>6, <1>7 DEF Kept

\* The entry moves what the request was quoted, and only if there is none yet.
LEMMA ReserveKeepsAccount ==
    ASSUME AccountInv, UNCHANGED inVars, NEW r \in Requests, Out!Reserve(r)
    PROVE  Kept'
<1> USE CryptoAccountAssumption DEF AccountInv, Out!Assumption, Out!Procs
<1>v. PICK v \in Withdrawals : v = of[r]
  BY DEF Out!Reserve, Out!IInv, Out!Shape
<1>1. pc' = [pc EXCEPT ![r] = "insert"] /\ UNCHANGED <<row, rows, of, fee>>
  BY DEF Out!Reserve
<1>2. Out!Total(r) \in Int /\ Out!Total(r)' = Out!Total(r)
  BY <1>1, <1>v DEF Out!Total, Out!IInv, Out!Shape
<1>3. CASE "reserve" \in posted[v]
  <2>1. UNCHANGED <<pending, posted, held>>
    BY <1>3, <1>v DEF Out!Reserve
  <2>2. Out!OneQuote'
    BY <1>1, <2>1 DEF Out!OneQuote, Out!Total
  <2>3. Out!RowTellsEntries'
    BY <1>1, <1>3, <1>v, <2>1 DEF Out!RowTellsEntries, Out!IInv, Out!Shape
  <2>4. PendingIsTheHolds'
    BY <2>1, NothingMoves DEF inVars
  <2> QED BY <2>2, <2>3, <2>4 DEF Kept
<1>4. CASE "reserve" \notin posted[v]
  <2>1. /\ pending' = pending + Out!Total(r)
        /\ posted' = [posted EXCEPT ![v] = @ \cup {"reserve"}]
        /\ held' = [held EXCEPT ![v] = Out!Total(r)]
    BY <1>4, <1>v DEF Out!Reserve
  <2>2. posted[v] = {} /\ row[v].status = "absent"
    BY <1>4 DEF Out!RowTellsEntries, Out!IInv, Out!Shape, Out!Statuses
  <2>3. /\ posted'[v] = {"reserve"} /\ held'[v] = Out!Total(r)
        /\ \A w \in Withdrawals \ {v} : posted'[w] = posted[w] /\ held'[w] = held[w]
        /\ held' \in [Withdrawals -> Int]
    BY <1>2, <2>1, <2>2 DEF Out!IInv, Out!Shape, Out!OneQuote
  <2>4. Out!OneQuote'
    <3>1. ASSUME NEW q \in Requests, of[q] = v PROVE Out!Total(q)' = Out!Total(r)
      BY <1>1, <1>v, <3>1 DEF Out!OneQuote, Out!Total
    <3>2. ASSUME NEW q \in Requests, of'[q] \in Withdrawals, "reserve" \in posted'[of'[q]]
          PROVE  held'[of'[q]] = Out!Total(q)'
      <4>1. CASE of[q] = v
        BY <1>1, <2>3, <3>1, <4>1
      <4>2. CASE of[q] # v
        BY <1>1, <2>3, <3>2, <4>2 DEF Out!OneQuote, Out!Total
      <4> QED BY <4>1, <4>2
    <3>3. \A w \in Withdrawals : "reserve" \in posted'[w] => \E q \in Requests : of'[q] = w
      BY <1>1, <1>v, <2>3 DEF Out!OneQuote
    <3>4. \A p, q \in Requests : of'[p] = of'[q] => fee'[p] = fee'[q]
      BY <1>1 DEF Out!OneQuote
    <3> QED BY <2>3, <3>2, <3>3, <3>4 DEF Out!OneQuote
  <2>5. Out!RowTellsEntries'
    <3>1. \A q \in Requests : pc'[q] = "insert" => "reserve" \in posted'[of'[q]]
      BY <1>1, <1>v, <2>1, <2>3 DEF Out!RowTellsEntries, Out!IInv, Out!Shape
    <3> QED BY <1>1, <2>2, <2>3, <3>1 DEF Out!RowTellsEntries
  <2>6. PendingIsTheHolds'
    <3>1. /\ HeldFor(v) = 0 /\ HeldFor(v)' = Out!Total(r)
          /\ \A w \in Withdrawals \ {v} : HeldFor(w)' = HeldFor(w)
      BY <2>2, <2>3 DEF HeldFor
    <3> HIDE DEF AccountInv
    <3> QED BY <1>2, <2>1, <3>1, OneWithdrawalMoves
  <2> QED BY <2>4, <2>5, <2>6 DEF Kept
<1> QED BY <1>3, <1>4

\* The row holds what the entry moved.
LEMMA InsertRowKeepsAccount ==
    ASSUME AccountInv, UNCHANGED inVars, NEW r \in Requests, Out!InsertRow(r)
    PROVE  Kept'
<1> USE CryptoAccountAssumption DEF AccountInv, Out!Assumption, Out!Procs
<1>v. PICK v \in Withdrawals : v = of[r]
  BY DEF Out!InsertRow, Out!IInv, Out!Shape
<1>1. UNCHANGED <<pending, posted, held, of, fee>>
  BY DEF Out!InsertRow
<1>2. Out!OneQuote'
  BY <1>1 DEF Out!OneQuote, Out!Total
<1>3. "reserve" \in posted[v] /\ held[v] = Out!Total(r)
  BY <1>v DEF Out!InsertRow, Out!RowTellsEntries, Out!OneQuote
<1>4. /\ \A w \in Withdrawals \ {v} : row'[w] = row[w]
      /\ row'[v] = IF row[v].status = "absent"
                     THEN [status |-> "reserved", total |-> held[v]] ELSE row[v]
  BY <1>v, <1>3 DEF Out!InsertRow, Out!IInv, Out!Shape
<1>5. \A q \in Requests : pc'[q] = "insert" => pc[q] = "insert"
  BY DEF Out!InsertRow, Out!IInv, Out!Shape
<1>6. Out!RowTellsEntries'
  <2>1. ASSUME NEW w \in Withdrawals
        PROVE  CASE row'[w].status = "absent"    -> posted[w] \subseteq {"reserve"}
                 [] row'[w].status = "confirmed" -> posted[w] = {"reserve", "settle"}
                 [] row'[w].status = "failed"    -> posted[w] = {"reserve", "reverse"}
                 [] OTHER -> posted[w] = {"reserve"} /\ row'[w].total = held[w]
    <3>1. CASE w = v /\ row[v].status = "absent"
      BY <1>3, <1>4, <3>1 DEF Out!RowTellsEntries
    <3>2. CASE ~(w = v /\ row[v].status = "absent")
      BY <1>4, <3>2 DEF Out!RowTellsEntries
    <3> QED BY <3>1, <3>2
  <2> QED BY <1>1, <1>5, <2>1 DEF Out!RowTellsEntries
<1>7. PendingIsTheHolds'
  BY <1>1, NothingMoves DEF inVars
<1> QED BY <1>2, <1>6, <1>7 DEF Kept

\* Messages, answers, questions and what the provider makes of them move nothing.
LEMMA MessageKeepsAccount ==
    ASSUME AccountInv, UNCHANGED inVars,
           \/ \E r \in Requests : \/ Out!Send(r) \/ Out!NotSent(r) \/ Out!Answered(r)
                                 \/ Out!GiveUp(r) \/ Out!Arrives(r)
           \/ \E w \in Withdrawals : Out!Ask(w) \/ \E state \in Out!Receipts : Out!Moves(w, state)
           \/ Out!SweepDies
    PROVE  Kept'
<1>1. UNCHANGED <<pending, row, posted, held, fee>>
  BY DEF Out!Send, Out!NotSent, Out!Answered, Out!GiveUp, Out!Arrives, Out!Ask, Out!Moves,
         Out!SweepDies, Out!books
<1>2. \A r \in Requests : of'[r] = of[r] /\ (pc'[r] = "insert" => pc[r] = "insert")
  BY CryptoAccountAssumption, AfterLeads DEF AccountInv, Out!IInv, Out!Shape, Out!Procs,
                                             Out!Assumption, Out!Finished, Out!Send,
                                             Out!NotSent, Out!Answered, Out!GiveUp,
                                             Out!Arrives, Out!Ask, Out!Moves, Out!SweepDies
<1>3. Out!OneQuote'
  BY <1>1, <1>2 DEF AccountInv, Out!OneQuote, Out!Total
<1>4. Out!RowTellsEntries'
  BY <1>1, <1>2 DEF AccountInv, Out!RowTellsEntries
<1>5. PendingIsTheHolds'
  BY <1>1, NothingMoves DEF inVars
<1> QED BY <1>3, <1>4, <1>5 DEF Kept

\* A receipt ends a withdrawal whose row is open: its hold, and nothing else, goes.
LEMMA ReceiptKeepsAccount ==
    ASSUME AccountInv, UNCHANGED inVars, NEW x \in Out!Procs, Out!ReceiptStep(x)
    PROVE  Kept'
<1> USE CryptoAccountAssumption DEF AccountInv, Out!Assumption
<1>v. PICK v \in Withdrawals : v = of[x]
  BY DEF Out!ReceiptStep, Out!MarkBroadcast, Out!Settle, Out!Fail, Out!IInv, Out!Shape
<1>1. UNCHANGED <<held, fee>>
  BY DEF Out!ReceiptStep, Out!MarkBroadcast, Out!Settle, Out!Fail
<1>2. \A r \in Requests : of'[r] = of[r] /\ (pc'[r] = "insert" => pc[r] = "insert")
  BY DEF Out!ReceiptStep, Out!MarkBroadcast, Out!Settle, Out!Fail, Out!Finished, Out!IInv,
         Out!Shape, Out!Procs
<1>3. \/ UNCHANGED <<pending, posted, row>>
      \/ /\ row[v].status = "reserved" /\ row' = [row EXCEPT ![v].status = "broadcast"]
         /\ UNCHANGED <<pending, posted>>
      \/ \E end \in {<<"settle", "confirmed">>, <<"reverse", "failed">>} :
            /\ Out!Open(v) /\ pending' = pending - row[v].total
            /\ posted' = [posted EXCEPT ![v] = @ \cup {end[1]}]
            /\ row' = [row EXCEPT ![v].status = end[2]]
  <2>1. CASE Out!MarkBroadcast(x)
    <3>1. row' = [row EXCEPT ![v].status = IF @ = "reserved" THEN "broadcast" ELSE @]
      BY <1>v, <2>1 DEF Out!MarkBroadcast
    <3>2. row[v].status # "reserved" => row' = row
      BY <3>1 DEF Out!IInv, Out!Shape
    <3> QED BY <2>1, <3>1, <3>2 DEF Out!MarkBroadcast
  <2>2. CASE Out!Settle(x)
    BY <1>v, <2>2 DEF Out!Settle, Out!Open
  <2>3. CASE Out!Fail(x)
    BY <1>v, <2>3 DEF Out!Fail, Out!Open
  <2> QED BY <2>1, <2>2, <2>3 DEF Out!ReceiptStep
<1>4. CASE UNCHANGED <<pending, posted, row>>
  <2>1. Out!OneQuote' /\ Out!RowTellsEntries'
    BY <1>1, <1>2, <1>4 DEF Out!OneQuote, Out!Total, Out!RowTellsEntries
  <2>2. PendingIsTheHolds'
    BY <1>1, <1>4, NothingMoves DEF inVars
  <2> QED BY <2>1, <2>2 DEF Kept
<1>5. CASE /\ row[v].status = "reserved" /\ row' = [row EXCEPT ![v].status = "broadcast"]
           /\ UNCHANGED <<pending, posted>>
  <2>1. /\ row'[v].status = "broadcast" /\ row'[v].total = row[v].total
        /\ \A w \in Withdrawals \ {v} : row'[w] = row[w]
    BY <1>5 DEF Out!IInv, Out!Shape
  <2>2. Out!OneQuote'
    BY <1>1, <1>2, <1>5 DEF Out!OneQuote, Out!Total
  <2>3. Out!RowTellsEntries'
    BY <1>1, <1>2, <1>5, <2>1 DEF Out!RowTellsEntries
  <2>4. PendingIsTheHolds'
    BY <1>1, <1>5, NothingMoves DEF inVars
  <2> QED BY <2>2, <2>3, <2>4 DEF Kept
<1>6. ASSUME NEW end \in {<<"settle", "confirmed">>, <<"reverse", "failed">>},
             Out!Open(v), pending' = pending - row[v].total,
             posted' = [posted EXCEPT ![v] = @ \cup {end[1]}],
             row' = [row EXCEPT ![v].status = end[2]]
      PROVE  Kept'
  <2>1. posted[v] = {"reserve"} /\ row[v].total = held[v]
    BY <1>6 DEF Out!RowTellsEntries, Out!Open
  <2>2. /\ posted'[v] = {"reserve", end[1]} /\ row'[v].status = end[2]
        /\ \A w \in Withdrawals \ {v} : row'[w] = row[w] /\ posted'[w] = posted[w]
    BY <1>6, <2>1 DEF Out!IInv, Out!Shape
  <2>3. Out!OneQuote'
    <3>1. \A w \in Withdrawals : "reserve" \in posted'[w] => "reserve" \in posted[w]
      BY <2>1, <2>2
    <3> QED BY <1>1, <1>2, <3>1 DEF Out!OneQuote, Out!Total
  <2>4. Out!RowTellsEntries'
    <3>1. \A r \in Requests : pc'[r] = "insert" => "reserve" \in posted'[of'[r]]
      <4>1. \A w \in Withdrawals : posted[w] \subseteq posted'[w]
        BY <2>1, <2>2
      <4>2. \A r \in Requests : pc[r] = "insert" => of[r] \in Withdrawals
        BY DEF Out!IInv, Out!Shape, Out!Procs
      <4> QED BY <1>2, <4>1, <4>2 DEF Out!RowTellsEntries
    <3>2. \A w \in Withdrawals \ {v} :
              CASE row'[w].status = "absent"    -> posted'[w] \subseteq {"reserve"}
                [] row'[w].status = "confirmed" -> posted'[w] = {"reserve", "settle"}
                [] row'[w].status = "failed"    -> posted'[w] = {"reserve", "reverse"}
                [] OTHER -> posted'[w] = {"reserve"} /\ row'[w].total = held'[w]
      BY <1>1, <2>2 DEF Out!RowTellsEntries
    <3>3. \/ row'[v].status = "confirmed" /\ posted'[v] = {"reserve", "settle"}
          \/ row'[v].status = "failed" /\ posted'[v] = {"reserve", "reverse"}
      BY <1>6, <2>2
    <3> QED BY <3>1, <3>2, <3>3 DEF Out!RowTellsEntries
  <2>5. PendingIsTheHolds'
    <3>1. /\ HeldFor(v) = held[v] /\ HeldFor(v)' = 0 /\ held[v] \in Int
          /\ \A w \in Withdrawals \ {v} : HeldFor(w)' = HeldFor(w)
      <4>1. posted'[v] # {"reserve"}
        BY <1>6, <2>2
      <4> QED BY <1>1, <2>1, <2>2, <4>1 DEF HeldFor, Out!OneQuote
    <3>2. pending' = pending + (0 - held[v])
      BY <1>6, <2>1, <3>1, HoldsAreNumbers
    <3> HIDE DEF AccountInv
    <3> QED BY <3>1, <3>2, OneWithdrawalMoves
  <2> QED BY <2>3, <2>4, <2>5 DEF Kept
<1> QED BY <1>3, <1>4, <1>5, <1>6


LEMMA WithdrawalsKeepAccount ==
    ASSUME ~FeesMove, AccountInv, Out!Next, UNCHANGED inVars
    PROVE  Kept'
<1>1. CASE \E r \in Requests : Out!RequestStep(r) \/ Out!Arrives(r)
  BY <1>1, QuoteKeepsAccount, ReserveKeepsAccount, InsertRowKeepsAccount, MessageKeepsAccount
     DEF Out!RequestStep
<1>2. CASE \E x \in Out!Procs : Out!ReceiptStep(x)
  BY <1>2, ReceiptKeepsAccount
<1>3. CASE \/ \E w \in Withdrawals : Out!Ask(w) \/ \E state \in Out!Receipts : Out!Moves(w, state)
           \/ Out!SweepDies
  BY <1>3, MessageKeepsAccount
<1> QED BY <1>1, <1>2, <1>3 DEF Out!Next

\* A deposit is put into the account once, and taken out once it is in.
LEMMA DepositsKeepAccount ==
    ASSUME AccountInv, In!Next, UNCHANGED outVars
    PROVE  PendingIsTheHolds'
<1> USE CryptoAccountAssumption DEF In!Assumption
<1>1. CASE UNCHANGED <<pending, entries>>
  BY <1>1, NothingMoves DEF outVars
<1>2. ASSUME NEW x \in In!Runs, In!Hold(x), entries' # entries
      PROVE  PendingIsTheHolds'
  <2>d. PICK d \in Deposits : d = about[x]
    BY <1>2 DEF AccountInv, In!IInv, In!Shape, In!Hold
  <2>1. /\ "seen" \notin entries[d] /\ pending' = pending + ValueOf[d]
        /\ entries' = [entries EXCEPT ![d] = @ \cup {"seen"}]
    BY <1>2, <2>d DEF In!Hold
  <2>2. entries[d] = {}
    BY <2>1 DEF AccountInv, In!IInv, In!Shape, In!SpendableOnceHeld
  <2>3. /\ MaturingOf(d) = 0 /\ MaturingOf(d)' = ValueOf[d] /\ ValueOf[d] \in Int
        /\ \A c \in Deposits \ {d} : MaturingOf(c)' = MaturingOf(c)
    BY <2>1, <2>2 DEF MaturingOf, AccountInv, In!IInv, In!Shape
  <2> QED BY <2>1, <2>3, OneDepositMoves
<1>3. ASSUME NEW x \in In!Runs, In!Confirm(x), entries' # entries
      PROVE  PendingIsTheHolds'
  <2>d. PICK d \in Deposits : d = about[x]
    BY <1>3 DEF AccountInv, In!IInv, In!Shape, In!Confirm
  <2>1. /\ "confirmed" \notin entries[d] /\ pending' = pending - ValueOf[d]
        /\ entries' = [entries EXCEPT ![d] = @ \cup {"confirmed"}]
    BY <1>3, <2>d DEF In!Confirm
  <2>2. entries[d] = {"seen"}
    BY <1>3, <2>d, <2>1 DEF AccountInv, In!IInv, In!Shape, In!ConfirmsWhatIsHeld, In!Confirm
  <2>3. /\ MaturingOf(d) = ValueOf[d] /\ MaturingOf(d)' = 0 /\ ValueOf[d] \in Int
        /\ \A c \in Deposits \ {d} : MaturingOf(c)' = MaturingOf(c)
    BY <2>1, <2>2 DEF MaturingOf, AccountInv, In!IInv, In!Shape
  <2>4. pending' = pending + (0 - ValueOf[d])
    BY <2>1, <2>3, HoldsAreNumbers
  <2> QED BY <2>3, <2>4, OneDepositMoves
<1>4. \/ UNCHANGED <<pending, entries>>
      \/ \E x \in In!Runs : (In!Hold(x) \/ In!Confirm(x)) /\ entries' # entries
  BY DEF AccountInv, In!IInv, In!Shape, In!Next, In!Deepen, In!Sweep, In!DeliverSeen,
         In!DeliverConfirmed, In!Begins, In!RunStep, In!Hold, In!Note, In!Confirm, In!Finish,
         In!Dies
<1> QED BY <1>1, <1>2, <1>3, <1>4

\* The customer's pending balance of an asset is what its withdrawals still open
\* and its deposits still maturing have in it: no settlement, return or
\* confirmation is paid out of another's money.  As long as the fee of a
\* withdrawal does not change between two quotes.
THEOREM PendingIsHeld ==
    ASSUME ~FeesMove
    PROVE  Spec => []PendingIsTheHolds
<1>1. Init => AccountInv
  <2> SUFFICES ASSUME Init PROVE AccountInv
    OBVIOUS
  <2>1. Out!IInv /\ In!IInv
    BY InitHasInv, InitHasDepositInv
  <2>2. Out!IdleIsFree /\ Out!OneQuote /\ Out!RowTellsEntries
    BY CryptoAccountAssumption DEF Init, Out!Init, Out!Assumption, Out!IdleIsFree,
                                   Out!OneQuote, Out!RowTellsEntries, Out!Procs
  <2>3. /\ \A w \in Withdrawals : Leaving[w] = 0
        /\ \A d \in Deposits : Arriving[d] = 0
        /\ pending = 0
    BY DEF Init, Out!Init, In!Init, Leaving, Arriving, HeldFor, MaturingOf
  <2>4. /\ SumFunctionOnSet(Leaving, Withdrawals) = 0
        /\ SumFunctionOnSet(Arriving, Deposits) = 0
    BY <2>3, SumZero, CryptoAccountAssumption
  <2> QED BY <2>1, <2>2, <2>3, <2>4 DEF AccountInv, PendingIsTheHolds
<1>2. AccountInv /\ [Next]_vars => AccountInv'
  <2> SUFFICES ASSUME AccountInv, [Next]_vars PROVE AccountInv'
    OBVIOUS
  <2>0. Out!IInv' /\ In!IInv'
    BY StepKeepsInv, StepKeepsDepositInv DEF AccountInv
  <2>1. CASE Out!Next /\ UNCHANGED inVars
    BY <2>0, <2>1, WithdrawalsKeepAccount, IdleStaysFree DEF AccountInv, Kept
  <2>2. CASE UNCHANGED outVars
    <3>1. (Out!IdleIsFree /\ Out!OneQuote /\ Out!RowTellsEntries)'
      BY <2>2 DEF outVars, AccountInv, Out!IdleIsFree, Out!OneQuote, Out!RowTellsEntries, Out!Total
    <3>2. CASE In!Next
      BY <2>0, <2>2, <3>1, <3>2, DepositsKeepAccount DEF AccountInv
    <3>3. CASE UNCHANGED vars
      BY <2>0, <3>1, <3>3, NothingMoves DEF AccountInv, vars
    <3> QED BY <2>1, <3>2, <3>3 DEF Next
  <2>3. UNCHANGED vars => UNCHANGED outVars
    BY DEF vars, outVars
  <2> QED BY <2>1, <2>2, <2>3 DEF Next
<1> QED BY <1>1, <1>2, PTL DEF Spec, AccountInv
=============================================================================
