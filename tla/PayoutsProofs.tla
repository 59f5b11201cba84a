---------------------------- MODULE PayoutsProofs -----------------------------
(* Bank payouts for any number of payouts, submissions and workers: the books   *)
(* (BooksInv), the refinement of Hold (HoldInv) and the promise not to pay      *)
(* twice (RailInv).                                                             *)
EXTENDS Payouts, Sums

\* A process rests at a payout.
LEMMA HomeIsPayout == \A x \in Procs : Home(x) \in Payouts
BY PayoutsAssumption DEF Home, Procs

\* Ending a handler keeps the type of the process state.
LEMMA FinishTypes ==
    ASSUME TypeOK, NEW x \in Procs, Finish(x)
    PROVE  /\ pc' \in [Procs -> Places]
           /\ role' \in [Procs -> AllRoles \cup {"request", "none"}]
           /\ about' \in [Procs -> Payouts]
           /\ snap' \in [Procs -> [status : Statuses, settled : BOOLEAN]]
           /\ verdict' \in [Procs -> {"none", "sent", "completed", "failed", "never_sent",
                                      "unknown", "rejected"}]
           /\ seen' \in [Procs -> BOOLEAN]
           /\ tries' \in [Procs -> Nat]
BY HomeIsPayout DEF TypeOK, Finish, Goto, Places, Statuses, Unread

\* What #reload reads is a snapshot.
LEMMA SnapshotType ==
    ASSUME TypeOK, NEW p \in Payouts
    PROVE  Snapshot(p) \in [status : Statuses, settled : BOOLEAN]
BY DEF TypeOK, Snapshot, Settled

\* Where applyReceipt can go.
LEMMA AfterAnswerType ==
    \A s, v : AfterAnswer(s, v) \in {"reverse", "settle", "complete", "finish"}
BY DEF AfterAnswer

\* Where a verdict of confirmWithRail can lead.
LEMMA AfterVerdictType ==
    \A k, s, v : AfterVerdict(k, s, v) \in {"reverse", "settle", "complete", "finish", "send"}
BY AfterAnswerType DEF AfterVerdict

\* What stopped waiting is still a message.
LEMMA OrphanedType ==
    ASSUME TypeOK, NEW x \in Procs
    PROVE  Orphaned(x) \subseteq [from : Procs \cup {Nobody}, payout : Payouts, again : BOOLEAN]
<1> DEFINE M == [from : Procs \cup {Nobody}, payout : Payouts, again : BOOLEAN]
<1>1. \A m \in M, f \in Procs \cup {Nobody} : [m EXCEPT !.from = f] \in M
  OBVIOUS
<1>2. \A m \in M : (IF m.from = x THEN Nobody ELSE m.from) \in Procs \cup {Nobody}
  OBVIOUS
<1>3. wire \subseteq M
  BY DEF TypeOK
<1> QED BY <1>1, <1>2, <1>3 DEF Orphaned

\* A step that leaves the rows and the entries alone keeps the books.
LEMMA QuietStepKeepsBooks ==
    ASSUME BooksInv, TypeOK', UNCHANGED <<row, ledger>>,
           \A r \in Requests : pc'[r] = "insert" => pc[r] = "insert"
    PROVE  BooksInv'
<1>1. RowTellsLedger'
  BY DEF BooksInv, RowTellsLedger, Settled, ledger
<1>2. InsertAfterReserve'
  BY DEF BooksInv, InsertAfterReserve, ledger
<1> QED BY <1>1, <1>2 DEF BooksInv

\* Requests and workers are processes.
LEMMA RequestsAreProcs == Requests \subseteq Procs /\ Workers \subseteq Procs
BY DEF Procs

\* The handlers' steps that post nothing.
LEMMA HandlerKeepsBooks ==
    ASSUME BooksInv, NEW x \in Procs,
           \/ x \in Requests /\ (Submit(x) \/ Decline(x))
           \/ Dispatch(x) \/ GiveUp(x) \/ Answered(x) \/ ReadSettlement(x) \/ Return(x)
           \/ x \in Workers /\ (ReadRow(x) \/ Ask(x))
           \/ x \in Workers /\ \E k \in Roles, p \in Payouts : Start(x, k, p)
           \/ Crash(x)
    PROVE  BooksInv'
<1> USE RequestsAreProcs
<1>0. TypeOK
  BY DEF BooksInv
<1>1. CASE /\ Finish(x) /\ UNCHANGED <<row, ledger, rail>>
           /\ wire' = wire \/ wire' = Orphaned(x)
  <2>1. TypeOK'
    BY <1>0, <1>1, FinishTypes, OrphanedType DEF TypeOK, ledger, books
  <2>2. \A y \in Procs : pc'[y] = "insert" => pc[y] = "insert"
    BY <1>0, <1>1 DEF TypeOK, Finish, Goto
  <2> QED BY <1>1, <2>1, <2>2, QuietStepKeepsBooks
<1>2. CASE x \in Requests /\ Submit(x)
  <2>1. CASE pc' = [pc EXCEPT ![x] = "reserve"] /\ UNCHANGED <<row, ledger, rail, wire, local>>
    <3>1. TypeOK'
      BY <1>0, <2>1 DEF TypeOK, ledger, books, local, Places
    <3>2. \A y \in Procs : pc'[y] = "insert" => pc[y] = "insert"
      BY <1>0, <1>2, <2>1 DEF TypeOK, local, Submit
    <3> QED BY <2>1, <3>1, <3>2, QuietStepKeepsBooks
  <2> QED BY <1>1, <1>2, <2>1 DEF Submit, Goto
<1>3. CASE x \in Requests /\ Decline(x)
  BY <1>1, <1>3 DEF Decline
<1>4. CASE Dispatch(x)
  <2>1. [from |-> x, payout |-> about[x], again |-> x \in Workers]
           \in [from : Procs \cup {Nobody}, payout : Payouts, again : BOOLEAN]
    BY <1>0 DEF TypeOK
  <2>2. TypeOK'
    BY <1>0, <1>4, <2>1 DEF TypeOK, Dispatch, Goto, ledger, books, local, Places
  <2>3. \A y \in Procs : pc'[y] = "insert" => pc[y] = "insert"
    BY <1>0, <1>4 DEF TypeOK, Dispatch, Goto, local
  <2> QED BY <1>4, <2>2, <2>3, QuietStepKeepsBooks DEF Dispatch
<1>5. CASE GiveUp(x) \/ Crash(x) \/ Return(x)
  BY <1>1, <1>5 DEF GiveUp, Crash, Return
<1>6. CASE Answered(x)
  <2>1. CASE Goto(x, "reverse") /\ UNCHANGED <<row, ledger, rail, wire, local>>
    <3>1. TypeOK'
      BY <1>0, <2>1 DEF TypeOK, Goto, ledger, books, local, Places
    <3>2. \A y \in Procs : pc'[y] = "insert" => pc[y] = "insert"
      BY <1>0, <1>6, <2>1 DEF TypeOK, Goto, local, Answered
    <3> QED BY <2>1, <3>1, <3>2, QuietStepKeepsBooks
  <2>2. CASE /\ snap' = [snap EXCEPT ![x] = Snapshot(about[x])]
             /\ Goto(x, AfterAnswer(Snapshot(about[x]), verdict[x]))
             /\ UNCHANGED <<role, about, verdict, seen, tries>>
             /\ UNCHANGED <<row, ledger, rail, wire>>
    <3>1. TypeOK'
      BY <1>0, <2>2, SnapshotType, AfterAnswerType DEF TypeOK, Goto, ledger, books, Places
    <3>2. \A y \in Procs : pc'[y] = "insert" => pc[y] = "insert"
      BY <1>0, <1>6, <2>2, AfterAnswerType DEF TypeOK, Goto, Answered
    <3> QED BY <2>2, <3>1, <3>2, QuietStepKeepsBooks
  <2> QED BY <1>1, <1>6, <2>1, <2>2 DEF Answered
<1>7. CASE ReadSettlement(x)
  <2>1. (snap[x].settled \/ Settled(about[x])) \in BOOLEAN
    BY <1>0 DEF TypeOK, Settled
  <2>2. TypeOK'
    BY <1>0, <1>7, <2>1 DEF TypeOK, ReadSettlement, Goto, ledger, books, Places
  <2>3. \A y \in Procs : pc'[y] = "insert" => pc[y] = "insert"
    BY <1>0, <1>7 DEF TypeOK, ReadSettlement, Goto
  <2> QED BY <1>7, <2>2, <2>3, QuietStepKeepsBooks DEF ReadSettlement
<1>8. CASE x \in Workers /\ ReadRow(x)
  <2>1. TypeOK'
    BY <1>0, <1>8, SnapshotType DEF TypeOK, ReadRow, Goto, ledger, books, Places
  <2>2. \A y \in Procs : pc'[y] = "insert" => pc[y] = "insert"
    BY <1>0, <1>8 DEF TypeOK, ReadRow, Goto
  <2> QED BY <1>8, <2>1, <2>2, QuietStepKeepsBooks DEF ReadRow
<1>9. CASE x \in Workers /\ Ask(x)
  <2>1. PICK v \in Verdicts(snap[x], about[x]) :
           /\ verdict' = [verdict EXCEPT ![x] = v]
           /\ Goto(x, AfterVerdict(role[x], snap[x], v))
    BY <1>9 DEF Ask
  <2>2. v \in {"none", "sent", "completed", "failed", "never_sent", "unknown", "rejected"}
    BY <1>0 DEF TypeOK, Verdicts
  <2>3. TypeOK'
    BY <1>0, <1>9, <2>1, <2>2, AfterVerdictType DEF TypeOK, Ask, Goto, ledger, books, Places
  <2>4. \A y \in Procs : pc'[y] = "insert" => pc[y] = "insert"
    BY <1>0, <1>9, <2>1, AfterVerdictType DEF TypeOK, Ask, Goto
  <2> QED BY <1>9, <2>3, <2>4, QuietStepKeepsBooks DEF Ask
<1>10. CASE x \in Workers /\ \E k \in Roles, p \in Payouts : Start(x, k, p)
  <2>1. PICK k \in Roles, p \in Payouts : Start(x, k, p)
    BY <1>10
  <2>2. TypeOK'
    BY <1>0, <2>1, PayoutsAssumption DEF TypeOK, Start, Goto, ledger, books, Places
  <2>3. \A y \in Procs : pc'[y] = "insert" => pc[y] = "insert"
    BY <1>0, <2>1 DEF TypeOK, Start, Goto
  <2> QED BY <2>1, <2>2, <2>3, QuietStepKeepsBooks DEF Start
<1> QED BY <1>2, <1>3, <1>4, <1>5, <1>6, <1>7, <1>8, <1>9, <1>10

\* An answer reaches a waiting sender or nobody.
LEMMA TellTypes ==
    ASSUME TypeOK, NEW m \in wire,
           NEW v \in {"sent", "completed", "failed", "rejected"}, Tell(m, v)
    PROVE  /\ pc' \in [Procs -> Places]
           /\ verdict' \in [Procs -> {"none", "sent", "completed", "failed", "never_sent",
                                      "unknown", "rejected"}]
           /\ \A y \in Procs : pc'[y] = pc[y] \/ (pc'[y] = "answered" /\ y = m.from)
<1>1. m.from \in Procs \cup {Nobody}
  BY DEF TypeOK
<1>2. CASE m.from = Nobody
  <2>1. pc' = pc /\ verdict' = verdict
    BY <1>2 DEF Tell
  <2> QED BY <2>1 DEF TypeOK
<1>3. CASE m.from # Nobody
  <2>1. /\ m.from \in Procs
        /\ pc' = [pc EXCEPT ![m.from] = "answered"]
        /\ verdict' = [verdict EXCEPT ![m.from] = v]
    BY <1>1, <1>3 DEF Tell, Goto
  <2>2. pc \in [Procs -> Places] /\ "answered" \in Places
    BY DEF TypeOK, Places
  <2>3. /\ pc' \in [Procs -> Places]
        /\ \A y \in Procs : pc'[y] = pc[y] \/ (pc'[y] = "answered" /\ y = m.from)
    BY <2>1, <2>2
  <2>4. verdict' \in [Procs -> {"none", "sent", "completed", "failed", "never_sent", "unknown",
                               "rejected"}]
    BY <2>1 DEF TypeOK
  <2> QED BY <2>3, <2>4
<1> QED BY <1>2, <1>3

\* The rail's steps touch neither the rows nor the entries.  A sender that
\* hears its answer was waiting.
LEMMA RailKeepsBooks ==
    ASSUME BooksInv, RailStep
    PROVE  BooksInv'
<1>0. TypeOK
  BY DEF BooksInv
<1>1. ASSUME NEW m \in wire, RailAccept(m)
      PROVE  BooksInv'
  <2>1. PICK v \in {"sent", "completed", "failed"} :
           rail' = [rail EXCEPT ![m.payout] = v] /\ Tell(m, v)
    BY <1>1 DEF RailAccept
  <2>2. TypeOK'
    BY <1>0, <1>1, <2>1, TellTypes DEF TypeOK, RailAccept, ledger, books
  <2>3. UNCHANGED <<row, ledger, tries>>
    BY <1>1 DEF RailAccept
  <2>4. \A y \in Procs : pc'[y] = pc[y] \/ (pc'[y] = "answered" /\ y = m.from)
    BY <1>0, <2>1, TellTypes
  <2> QED BY <1>0, <2>2, <2>3, <2>4, QuietStepKeepsBooks, RequestsAreProcs
         
<1>2. ASSUME NEW m \in wire, RailRefuse(m)
      PROVE  BooksInv'
  <2>1. TypeOK'
    BY <1>0, <1>2, TellTypes DEF TypeOK, RailRefuse, ledger, books
  <2>2. UNCHANGED <<row, ledger, tries>>
    BY <1>2 DEF RailRefuse
  <2>3. \A y \in Procs : pc'[y] = pc[y] \/ (pc'[y] = "answered" /\ y = m.from)
    BY <1>0, <1>2, TellTypes DEF RailRefuse
  <2> QED BY <1>0, <2>1, <2>2, <2>3, QuietStepKeepsBooks, RequestsAreProcs
<1>3. ASSUME NEW p \in Payouts, RailDecide(p)
      PROVE  BooksInv'
  <2>1. TypeOK'
    BY <1>0, <1>3 DEF TypeOK, RailDecide, ledger, books, local
  <2> QED BY <1>0, <1>3, <2>1, QuietStepKeepsBooks DEF RailDecide, local
<1> QED BY <1>1, <1>2, <1>3 DEF RailStep

\* Nothing is posted for a payout, and no row written, before its hold.
LEMMA PostedNeedsReserve ==
    ASSUME BooksInv, NEW p \in Payouts, "reserve" \notin posted[p]
    PROVE  row[p].status = "absent" /\ posted[p] \subseteq {}
<1>1. row[p].status \in Statuses
  BY DEF BooksInv, TypeOK
<1>2. CASE row[p].status = "absent"
  BY <1>2 DEF BooksInv, RowTellsLedger
<1>3. CASE row[p].status = "reserved"
  BY <1>3 DEF BooksInv, RowTellsLedger
<1>4. CASE row[p].status = "failed"
  BY <1>4 DEF BooksInv, RowTellsLedger
<1>5. CASE row[p].status \in {"sent", "completed"}
  BY <1>5 DEF BooksInv, RowTellsLedger
<1> QED BY <1>1, <1>2, <1>3, <1>4, <1>5 DEF Statuses

\* The hold: taken once, and only from a wallet that covers it.
LEMMA ReserveKeepsBooks ==
    ASSUME BooksInv, NEW r \in Requests, Reserve(r)
    PROVE  BooksInv'
<1> USE RequestsAreProcs, PayoutsAssumption
<1>0. TypeOK /\ RowTellsLedger /\ InsertAfterReserve
  BY DEF BooksInv
<1> DEFINE p == For[r]
           n == AmountOf[r] + FeeOf[r]
<1>1. p \in Payouts /\ n \in Nat /\ pc[r] = "reserve"
  BY DEF Reserve
<1>2. CASE "reserve" \in posted[p]
  <2>1. TypeOK' /\ InsertAfterReserve'
    BY <1>0, <1>1, <1>2 DEF TypeOK, InsertAfterReserve, Reserve, Goto, ledger, books, local,
                            Places
  <2>2. RowTellsLedger'
    BY <1>0, <1>2 DEF Reserve, RowTellsLedger, Settled, ledger
  <2> QED BY <2>1, <2>2 DEF BooksInv
<1>3. CASE "reserve" \notin posted[p] /\ wallet < n
  <2>1. TypeOK'
    BY <1>0, <1>3, FinishTypes DEF Reserve, TypeOK, ledger, books
  <2> QED BY <1>0, <1>3, <2>1, QuietStepKeepsBooks DEF Reserve, Finish, Goto, TypeOK
<1>4. CASE "reserve" \notin posted[p] /\ ~(wallet < n)
  <2>1. /\ posted' = [posted EXCEPT ![p] = @ \cup {"reserve"}]
        /\ held' = [held EXCEPT ![p] = n]
        /\ wallet' = wallet - n
        /\ pending' = pending + n
        /\ pc' = [pc EXCEPT ![r] = "insert"]
        /\ UNCHANGED <<undid, float, fees, local, row, rail, wire>>
    BY <1>4 DEF Reserve, Goto
  <2>2. row[p].status = "absent" /\ posted[p] = {}
    BY <1>0, <1>1, <1>4, PostedNeedsReserve DEF TypeOK
  <2>3. TypeOK'
    BY <1>0, <1>1, <1>4, <2>1 DEF TypeOK, local, Places
  <2>4. InsertAfterReserve'
    BY <1>0, <1>1, <2>1 DEF TypeOK, InsertAfterReserve, local
  <2>5. RowTellsLedger'
    BY <1>0, <1>1, <2>1, <2>2 DEF RowTellsLedger, Settled, TypeOK
  <2> QED BY <2>3, <2>4, <2>5 DEF BooksInv
<1> QED BY <1>2, <1>3, <1>4

\* The row: written over a hold that is posted.
LEMMA InsertRowKeepsBooks ==
    ASSUME BooksInv, NEW r \in Requests, InsertRow(r)
    PROVE  BooksInv'
<1> USE RequestsAreProcs, PayoutsAssumption
<1>0. TypeOK /\ RowTellsLedger /\ InsertAfterReserve
  BY DEF BooksInv
<1> DEFINE p == For[r]
           new == [status |-> "reserved", amount |-> AmountOf[r], fee |-> FeeOf[r]]
<1>1. p \in Payouts /\ pc[r] = "insert" /\ "reserve" \in posted[p]
  BY <1>0 DEF InsertRow, InsertAfterReserve
<1>2. CASE row[p].status = "absent"
  <2>1. /\ row' = [row EXCEPT ![p] = new]
        /\ snap' = [snap EXCEPT ![r] = [status |-> "reserved", settled |-> FALSE]]
        /\ pc' = [pc EXCEPT ![r] = "send"]
        /\ UNCHANGED <<role, about, verdict, seen, tries, ledger, rail, wire>>
    BY <1>2 DEF InsertRow, Goto
  <2>2. new \in [status : Statuses, amount : Nat, fee : Nat]
    BY DEF Statuses
  <2>3. TypeOK'
    BY <1>0, <1>1, <2>1, <2>2 DEF TypeOK, Places, Statuses, ledger, books
  <2>4. InsertAfterReserve'
    BY <1>0, <1>1, <2>1 DEF TypeOK, InsertAfterReserve, ledger
  <2>5. posted[p] = {"reserve"}
    BY <1>0, <1>1, <1>2 DEF RowTellsLedger
  <2>6. RowTellsLedger'
    BY <1>0, <1>1, <2>1, <2>5 DEF RowTellsLedger, Settled, TypeOK, ledger
  <2> QED BY <2>3, <2>4, <2>6 DEF BooksInv
<1>3. CASE row[p].status # "absent"
  <2>1. TypeOK'
    BY <1>0, <1>3, FinishTypes DEF InsertRow, TypeOK, ledger, books
  <2> QED BY <1>0, <1>3, <2>1, QuietStepKeepsBooks DEF InsertRow, Finish, Goto, TypeOK
<1> QED BY <1>2, <1>3

\* Moving a row changes its status and nothing else.
LEMMA RowMoves ==
    ASSUME TypeOK, NEW p \in Payouts, NEW st \in Statuses,
           row' = [row EXCEPT ![p].status = st]
    PROVE  /\ row' \in [Payouts -> [status : Statuses, amount : Nat, fee : Nat]]
           /\ row'[p].status = st /\ row'[p].amount = row[p].amount /\ row'[p].fee = row[p].fee
           /\ \A q \in Payouts : q # p => row'[q] = row[q]
<1> DEFINE Rec == [status : Statuses, amount : Nat, fee : Nat]
           new == [row[p] EXCEPT !.status = st]
<1>1. row \in [Payouts -> Rec] /\ row[p] \in Rec
  BY DEF TypeOK
<1>2. \A rec \in Rec : /\ [rec EXCEPT !.status = st] \in Rec
                       /\ [rec EXCEPT !.status = st].status = st
                       /\ [rec EXCEPT !.status = st].amount = rec.amount
                       /\ [rec EXCEPT !.status = st].fee = rec.fee
  OBVIOUS
<1>3. new \in Rec /\ new.status = st /\ new.amount = row[p].amount /\ new.fee = row[p].fee
  BY <1>1, <1>2
<1>4. row' = [row EXCEPT ![p] = new]
  OBVIOUS
<1> HIDE DEF new, Rec
<1>5. row' \in [Payouts -> Rec] /\ row'[p] = new /\ \A q \in Payouts : q # p => row'[q] = row[q]
  BY <1>1, <1>3, <1>4
<1> QED BY <1>3, <1>5 DEF Rec

\* What a payout holds is a number.
LEMMA TotalType == ASSUME TypeOK, NEW p \in Payouts PROVE Total(p) \in Nat
BY DEF TypeOK, Total

\* The settlement: posted over an open hold that pending covers.
LEMMA SettleKeepsBooks ==
    ASSUME BooksInv, NEW x \in Procs, Settle(x)
    PROVE  BooksInv'
<1>0. TypeOK /\ RowTellsLedger /\ InsertAfterReserve
  BY DEF BooksInv
<1> DEFINE p == about[x]
<1>1. p \in Payouts /\ Total(p) \in Nat /\ row[p].amount \in Nat /\ row[p].fee \in Nat
  BY <1>0, TotalType DEF TypeOK
<1>2. /\ pc' \in [Procs -> Places]
      /\ \A r \in Requests : pc'[r] = "insert" => pc[r] = "insert"
      /\ UNCHANGED <<rail, wire, local>>
  BY <1>0, RequestsAreProcs DEF Settle, Goto, TypeOK, Places
<1>3. CASE UNCHANGED <<row, ledger>>
  <2>1. TypeOK'
    BY <1>0, <1>2, <1>3 DEF TypeOK, ledger, books, local
  <2> QED BY <1>2, <1>3, <2>1, QuietStepKeepsBooks
<1>4. CASE /\ row[p].status = "reserved" /\ pending >= Total(p)
           /\ posted' = [posted EXCEPT ![p] = @ \cup {"settle"}]
           /\ pending' = pending - Total(p)
           /\ float' = float + row[p].amount
           /\ fees' = fees + row[p].fee
           /\ row' = [row EXCEPT ![p].status = "sent"]
           /\ UNCHANGED <<held, undid, wallet>>
  <2>1. posted[p] = {"reserve"}
    BY <1>0, <1>1, <1>4 DEF RowTellsLedger
  <2>2. /\ row' \in [Payouts -> [status : Statuses, amount : Nat, fee : Nat]]
        /\ row'[p].status = "sent"
        /\ \A q \in Payouts : q # p => row'[q] = row[q]
    BY <1>0, <1>1, <1>4, RowMoves DEF Statuses
  <2>3. TypeOK'
    BY <1>0, <1>1, <1>2, <1>4, <2>2 DEF TypeOK, local
  <2>4. RowTellsLedger'
    BY <1>0, <1>1, <1>4, <2>1, <2>2 DEF RowTellsLedger, Settled, TypeOK
  <2>5. InsertAfterReserve'
    BY <1>0, <1>1, <1>2, <1>4, PayoutsAssumption DEF InsertAfterReserve, TypeOK
  <2> QED BY <2>3, <2>4, <2>5 DEF BooksInv
<1> QED BY <1>3, <1>4 DEF Settle

\* The completion: of a payout that is sent.
LEMMA CompleteKeepsBooks ==
    ASSUME BooksInv, NEW x \in Procs, Complete(x)
    PROVE  BooksInv'
<1>0. TypeOK /\ RowTellsLedger /\ InsertAfterReserve
  BY DEF BooksInv
<1> DEFINE p == about[x]
           st == IF row[p].status = "sent" THEN "completed" ELSE row[p].status
<1>1. p \in Payouts /\ st \in Statuses
  BY <1>0 DEF TypeOK, Statuses
<1>2. /\ pc' \in [Procs -> Places]
      /\ \A r \in Requests : pc'[r] = "insert" => pc[r] = "insert"
      /\ UNCHANGED <<ledger, rail, wire, local>>
  BY <1>0, RequestsAreProcs DEF Complete, Goto, TypeOK, Places
<1>3. /\ row' \in [Payouts -> [status : Statuses, amount : Nat, fee : Nat]]
      /\ row'[p].status = st
      /\ \A q \in Payouts : q # p => row'[q] = row[q]
  BY <1>0, <1>1, RowMoves DEF Complete
<1>4. TypeOK'
  BY <1>0, <1>2, <1>3 DEF TypeOK, ledger, books, local
<1>5. RowTellsLedger'
  BY <1>0, <1>1, <1>2, <1>3 DEF RowTellsLedger, Settled, TypeOK, ledger
<1>6. InsertAfterReserve'
  BY <1>0, <1>2 DEF InsertAfterReserve, ledger
<1> QED BY <1>4, <1>5, <1>6 DEF BooksInv

\* What a reversal that posts does, and that it posts over an undecided payout
\* whose settlement is what the snapshot said.
Reverses(x) ==
    LET p == about[x] IN
    /\ row[p].status \in {"reserved", "sent"} /\ Settled(p) = seen[x] /\ Reversible(p)
    /\ posted' = [posted EXCEPT ![p] = @ \cup {"reverse"}]
    /\ undid' = [undid EXCEPT ![p] = IF seen[x] THEN "settle" ELSE "reserve"]
    /\ wallet' = wallet + Total(p)
    /\ pending' = pending - IF seen[x] THEN 0 ELSE Total(p)
    /\ float' = float - IF seen[x] THEN row[p].amount ELSE 0
    /\ fees' = fees - IF seen[x] THEN row[p].fee ELSE 0
    /\ row' = [row EXCEPT ![p].status = "failed"]
    /\ UNCHANGED <<held, local>>

\* Every reversal step is one of: nothing posted, or Reverses.
LEMMA ReverseCases ==
    ASSUME TypeOK, NEW x \in Procs, Reverse(x)
    PROVE  /\ UNCHANGED <<row, ledger>> \/ Reverses(x)
           /\ UNCHANGED <<rail, wire, role, about, verdict, seen>>
           /\ pc' = [pc EXCEPT ![x] = "finish"] \/ pc' = [pc EXCEPT ![x] = "reverse"]
           /\ snap' = snap \/ snap' = [snap EXCEPT ![x] = Snapshot(about[x])]
           /\ tries' = tries \/ tries' = [tries EXCEPT ![x] = @ + 1]
<1> DEFINE p == about[x]
<1>1. CASE row[p].status \notin {"reserved", "sent"}
  BY <1>1 DEF Reverse, Goto, local
<1>2. CASE row[p].status \in {"reserved", "sent"} /\ Settled(p) # seen[x]
  BY <1>2 DEF Reverse, Goto
<1>3. CASE row[p].status \in {"reserved", "sent"} /\ Settled(p) = seen[x] /\ ~Reversible(p)
  BY <1>3 DEF Reverse, Goto, local
<1>4. CASE row[p].status \in {"reserved", "sent"} /\ Settled(p) = seen[x] /\ Reversible(p)
  BY <1>4 DEF Reverse, Reverses, Goto, local
<1> QED BY <1>1, <1>2, <1>3, <1>4

\* The reversal: of the entry that moved the money last.
LEMMA ReverseKeepsBooks ==
    ASSUME BooksInv, NEW x \in Procs, Reverse(x)
    PROVE  BooksInv'
<1>0. TypeOK /\ RowTellsLedger /\ InsertAfterReserve
  BY DEF BooksInv
<1> DEFINE p == about[x]
<1>1. p \in Payouts /\ Total(p) \in Nat /\ row[p].amount \in Nat /\ row[p].fee \in Nat
  BY <1>0, TotalType DEF TypeOK
<1>2. /\ pc' \in [Procs -> Places]
      /\ \A r \in Requests : pc'[r] = "insert" => pc[r] = "insert"
      /\ UNCHANGED <<rail, wire, role, about, verdict, seen>>
      /\ snap' \in [Procs -> [status : Statuses, settled : BOOLEAN]]
      /\ tries' \in [Procs -> Nat]
  <2>1. /\ pc' = [pc EXCEPT ![x] = "finish"] \/ pc' = [pc EXCEPT ![x] = "reverse"]
        /\ UNCHANGED <<rail, wire, role, about, verdict, seen>>
        /\ snap' = snap \/ snap' = [snap EXCEPT ![x] = Snapshot(p)]
        /\ tries' = tries \/ tries' = [tries EXCEPT ![x] = @ + 1]
    BY <1>0, ReverseCases
  <2>2. Snapshot(p) \in [status : Statuses, settled : BOOLEAN]
    BY <1>0, <1>1, SnapshotType
  <2>3. pc' \in [Procs -> Places] /\ \A r \in Requests : pc'[r] = "insert" => pc[r] = "insert"
    BY <1>0, <2>1, RequestsAreProcs DEF TypeOK, Places
  <2>4. snap' \in [Procs -> [status : Statuses, settled : BOOLEAN]]
    BY <1>0, <2>1, <2>2 DEF TypeOK
  <2>5. tries' \in [Procs -> Nat]
    BY <1>0, <2>1 DEF TypeOK
  <2> QED BY <2>1, <2>3, <2>4, <2>5
<1>3. CASE UNCHANGED <<row, ledger>>
  <2>1. TypeOK'
    BY <1>0, <1>2, <1>3 DEF TypeOK, ledger, books
  <2> QED BY <1>2, <1>3, <2>1, QuietStepKeepsBooks
<1>4. CASE Reverses(x)
  <2>1. /\ row' \in [Payouts -> [status : Statuses, amount : Nat, fee : Nat]]
        /\ row'[p].status = "failed"
        /\ \A q \in Payouts : q # p => row'[q] = row[q]
    BY <1>0, <1>1, <1>4, RowMoves DEF Statuses, Reverses
  <2>2. seen[x] = ("settle" \in posted[p]) /\ (seen[x] \/ pending >= Total(p))
    BY <1>0, <1>4 DEF Reverses, Reversible, Settled, TypeOK
  <2>3. "reserve" \in posted[p]
    BY <1>0, <1>1, <1>4 DEF Reverses, RowTellsLedger
  <2>4. wallet' \in Nat /\ pending' \in Nat /\ float' \in Int /\ fees' \in Int
    BY <1>0, <1>1, <1>4, <2>2 DEF Reverses, TypeOK
  <2>5. /\ posted' \in [Payouts -> SUBSET {"reserve", "settle", "reverse"}]
        /\ undid' \in [Payouts -> {"none", "reserve", "settle"}]
        /\ posted'[p] = posted[p] \cup {"reverse"}
        /\ undid'[p] = IF "settle" \in posted[p] THEN "settle" ELSE "reserve"
        /\ \A q \in Payouts : q # p => posted'[q] = posted[q] /\ undid'[q] = undid[q]
    BY <1>0, <1>1, <1>4, <2>2 DEF Reverses, TypeOK
  <2>6. TypeOK'
    BY <1>0, <1>2, <1>4, <2>1, <2>4, <2>5 DEF TypeOK, Reverses
  <2>7. RowTellsLedger'
    BY <1>0, <1>1, <2>1, <2>3, <2>5 DEF RowTellsLedger, Settled
  <2>8. InsertAfterReserve'
    BY <1>0, <1>1, <1>2, <2>5, PayoutsAssumption DEF InsertAfterReserve
  <2> QED BY <2>6, <2>7, <2>8 DEF BooksInv
<1> QED BY <1>0, <1>3, <1>4, ReverseCases

\* Before the first payout nothing is posted and no row is written.
LEMMA InitHasBooks == Init => BooksInv
<1> SUFFICES ASSUME Init PROVE BooksInv
  OBVIOUS
<1>1. Absent \in [status : Statuses, amount : Nat, fee : Nat] /\ Absent.status = "absent"
  BY DEF Absent, Statuses
<1>2. Unread \in [status : Statuses, settled : BOOLEAN]
  BY DEF Unread, Statuses
<1>3. TypeOK
  BY <1>1, <1>2, HomeIsPayout, PayoutsAssumption DEF Init, TypeOK, Places
<1>4. RowTellsLedger
  BY <1>1 DEF Init, RowTellsLedger
<1>5. InsertAfterReserve
  BY RequestsAreProcs DEF Init, InsertAfterReserve
<1> QED BY <1>3, <1>4, <1>5 DEF BooksInv

\* Every step of every process, and of the rail, keeps the books.
LEMMA NextKeepsBooks == BooksInv /\ [Next]_vars => BooksInv'
<1> SUFFICES ASSUME BooksInv, [Next]_vars PROVE BooksInv'
  OBVIOUS
<1> USE RequestsAreProcs
<1>1. ASSUME NEW r \in Requests, RequestStep(r) PROVE BooksInv'
  BY <1>1, HandlerKeepsBooks, ReserveKeepsBooks, InsertRowKeepsBooks DEF RequestStep
<1>2. ASSUME NEW w \in Workers, WorkerStep(w) PROVE BooksInv'
  BY <1>2, HandlerKeepsBooks DEF WorkerStep
<1>3. ASSUME NEW x \in Procs, CommonStep(x) \/ Crash(x) PROVE BooksInv'
  BY <1>3, HandlerKeepsBooks, SettleKeepsBooks, CompleteKeepsBooks, ReverseKeepsBooks
     DEF CommonStep
<1>4. CASE RailStep
  BY <1>4, RailKeepsBooks
<1>5. CASE UNCHANGED vars
  <2>1. TypeOK'
    BY <1>5 DEF BooksInv, TypeOK, vars
  <2> QED BY <1>5, <2>1, QuietStepKeepsBooks DEF vars, ledger, books
<1> QED BY <1>1, <1>2, <1>3, <1>4, <1>5 DEF Next

\* BooksInv holds in every state, for any payouts, submissions, workers and
\* roles: PayoutService's row and the ledger never disagree.
THEOREM BooksAlwaysHold == Spec => []BooksInv
BY InitHasBooks, NextKeepsBooks, PTL DEF Spec

\* Every variable keeps its type; in particular no path overdraws the wallet or
\* the pending account, which #reserve, #settle and #reverse debit.
THEOREM PayoutTypes == Spec => []TypeOK
<1>1. BooksInv => TypeOK
  BY DEF BooksInv
<1> QED BY <1>1, BooksAlwaysHold, PTL

\* The status of a payout's row is what the ledger holds under its three keys,
\* whatever snapshots the concurrent deciders of #settle and fail held.
THEOREM RowsTellTheLedger == Spec => []RowTellsLedger
<1>1. BooksInv => RowTellsLedger
  BY DEF BooksInv
<1> QED BY <1>1, BooksAlwaysHold, PTL

\* A step moves a row only forward.
LEMMA StatusMovesForward ==
    ASSUME BooksInv, [Next]_vars, NEW p \in Payouts, row[p].status # row'[p].status
    PROVE  <<row[p].status, row'[p].status>> \in
            {<<"absent", "reserved">>, <<"reserved", "sent">>, <<"reserved", "failed">>,
             <<"sent", "completed">>, <<"sent", "failed">>}
<1> USE RequestsAreProcs
<1>0. TypeOK
  BY DEF BooksInv
<1>1. ASSUME NEW r \in Requests, InsertRow(r)
      PROVE  row[p].status = "absent" /\ row'[p].status = "reserved"
  BY <1>0, <1>1 DEF InsertRow, TypeOK
<1>2. ASSUME NEW x \in Procs, Settle(x)
      PROVE  row[p].status = "reserved" /\ row'[p].status = "sent"
  <2>1. /\ about[x] \in Payouts /\ row[about[x]].status = "reserved"
        /\ row' = [row EXCEPT ![about[x]].status = "sent"]
    BY <1>0, <1>2 DEF Settle, TypeOK
  <2> QED BY <1>0, <2>1, RowMoves DEF Statuses
<1>3. ASSUME NEW x \in Procs, Complete(x)
      PROVE  row[p].status = "sent" /\ row'[p].status = "completed"
  <2> DEFINE st == IF row[about[x]].status = "sent" THEN "completed" ELSE row[about[x]].status
  <2>1. /\ about[x] \in Payouts /\ st \in Statuses
        /\ row' = [row EXCEPT ![about[x]].status = st]
    BY <1>0, <1>3 DEF Complete, TypeOK, Statuses
  <2>2. row'[about[x]].status = st /\ \A q \in Payouts : q # about[x] => row'[q] = row[q]
    BY <1>0, <2>1, RowMoves
  <2> QED BY <2>2
<1>4. ASSUME NEW x \in Procs, Reverse(x)
      PROVE  row[p].status \in {"reserved", "sent"} /\ row'[p].status = "failed"
  <2>1. Reverses(x)
    BY <1>0, <1>4, ReverseCases
  <2>2. /\ about[x] \in Payouts /\ row[about[x]].status \in {"reserved", "sent"}
        /\ row' = [row EXCEPT ![about[x]].status = "failed"]
    BY <1>0, <2>1 DEF Reverses, TypeOK
  <2> QED BY <1>0, <2>2, RowMoves DEF Statuses
<1>5. CASE UNCHANGED row
  BY <1>5
<1>6. ASSUME NEW r \in Requests, RequestStep(r), ~InsertRow(r)
      PROVE  UNCHANGED row
  BY <1>6 DEF RequestStep, Submit, Decline, Reserve
<1>7. ASSUME NEW w \in Workers, WorkerStep(w)
      PROVE  UNCHANGED row
  BY <1>7 DEF WorkerStep, Start, ReadRow, Ask
<1>8. ASSUME NEW x \in Procs, CommonStep(x) \/ Crash(x),
             ~Settle(x), ~Complete(x), ~Reverse(x)
      PROVE  UNCHANGED row
  BY <1>8 DEF CommonStep, Dispatch, GiveUp, Answered, ReadSettlement, Return, Crash
<1>9. RailStep => UNCHANGED row
  BY DEF RailStep, RailAccept, RailRefuse, RailDecide
<1> QED BY <1>1, <1>2, <1>3, <1>4, <1>5, <1>6, <1>7, <1>8, <1>9 DEF Next, vars

\* A decision about a payout is final: assert_bank_payout_transition is never
\* tripped, whoever decides and however late.
THEOREM DecisionsAreFinal == Spec => DecisionIsFinal
<1>1. BooksInv /\ [Next]_vars =>
        [\A p \in Payouts : row[p].status # row'[p].status =>
          <<row[p].status, row'[p].status>> \in
            {<<"absent", "reserved">>, <<"reserved", "sent">>, <<"reserved", "failed">>,
             <<"sent", "completed">>, <<"sent", "failed">>}]_vars
  BY StatusMovesForward
<1> QED BY <1>1, BooksAlwaysHold, PTL DEF Spec, DecisionIsFinal

-----------------------------------------------------------------------------
(* Not paying twice, where the screen's refund and resend are not used. *)

\* What no step takes back.
Stays ==
    \A p \in Payouts :
        /\ row[p].status # "absent" => row'[p].status # "absent"
        /\ rail[p] = "completed" => rail'[p] = "completed"
        /\ rail[p] # "none" => rail'[p] # "none"
        /\ Quiet(p) /\ row[p].status # "absent" => Quiet(p)'
        /\ Over(p) => Over(p)'

\* The step is x's: the other processes are where they were.
Alone(x) ==
    \A y \in Procs \ {x} : /\ pc'[y] = pc[y] /\ role'[y] = role[y]
                            /\ about'[y] = about[y] /\ verdict'[y] = verdict[y]

\* A written row stays written.
LEMMA RowsStay ==
    ASSUME BooksInv, [Next]_vars
    PROVE  \A p \in Payouts : row[p].status # "absent" => row'[p].status # "absent"
<1> SUFFICES ASSUME NEW p \in Payouts, row[p].status # "absent", row'[p].status = "absent"
             PROVE  FALSE
  OBVIOUS
<1>1. <<row[p].status, row'[p].status>> \in
            {<<"absent", "reserved">>, <<"reserved", "sent">>, <<"reserved", "failed">>,
             <<"sent", "completed">>, <<"sent", "failed">>}
  BY StatusMovesForward
<1> QED BY <1>1

\* An orphaned message is the message it was, but for its sender.
LEMMA OrphanedFrom ==
    ASSUME TypeOK, NEW x \in Procs, NEW n \in Orphaned(x)
    PROVE  \E m \in wire : /\ n.payout = m.payout /\ n.again = m.again
                           /\ n.from = IF m.from = x THEN Nobody ELSE m.from
                           /\ n = [m EXCEPT !.from = IF m.from = x THEN Nobody ELSE m.from]
<1>1. PICK m \in wire : n = [m EXCEPT !.from = IF m.from = x THEN Nobody ELSE m.from]
  BY DEF Orphaned
<1>2. m \in [from : Procs \cup {Nobody}, payout : Payouts, again : BOOLEAN]
  BY DEF TypeOK
<1>3. \A f : /\ [m EXCEPT !.from = f].payout = m.payout
             /\ [m EXCEPT !.from = f].again = m.again
             /\ [m EXCEPT !.from = f].from = f
  BY <1>2
<1> QED BY <1>1, <1>3

\* A step that sends nothing and is not the rail's.
LEMMA HandlerStays ==
    ASSUME RailInv, NEW x \in Procs, rail' = rail,
           wire' = wire \/ wire' = Orphaned(x),
           \A r \in Requests : pc'[r] = "send" => pc[r] = "send",
           \A p \in Payouts : row[p].status # "absent" => row'[p].status # "absent"
    PROVE  /\ Stays
           /\ OneSender'
           /\ \A m \in wire' : row'[m.payout].status # "absent"
           /\ \A p \in Payouts : rail'[p] # "none" => row'[p].status # "absent"
<1>0. TypeOK /\ OneSender /\ RowIsFirst
  BY DEF RailInv, BooksInv
<1>1. \A n \in wire' : \E m \in wire : n.payout = m.payout
  BY <1>0, OrphanedFrom
<1>2. \A m \in wire : m.payout \in Payouts
  BY <1>0 DEF TypeOK
<1>3. \A p \in Payouts : Quiet(p) => Quiet(p)'
  BY <1>1 DEF Quiet
<1>4. Stays
  BY <1>3 DEF Stays, Over
<1>5. \A n, o \in wire' : n.payout = o.payout => n = o
  <2>1. CASE wire' = wire
    BY <1>0, <2>1 DEF OneSender
  <2>2. CASE wire' = Orphaned(x)
    <3> SUFFICES ASSUME NEW n \in wire', NEW o \in wire', n.payout = o.payout PROVE n = o
      OBVIOUS
    <3>1. PICK m \in wire : /\ n.payout = m.payout
                            /\ n = [m EXCEPT !.from = IF m.from = x THEN Nobody ELSE m.from]
      BY <1>0, <2>2, OrphanedFrom
    <3>2. PICK k \in wire : /\ o.payout = k.payout
                            /\ o = [k EXCEPT !.from = IF k.from = x THEN Nobody ELSE k.from]
      BY <1>0, <2>2, OrphanedFrom
    <3>3. m = k
      BY <1>0, <3>1, <3>2 DEF OneSender
    <3> QED BY <3>1, <3>2, <3>3
  <2> QED BY <2>1, <2>2
<1>6. OneSender'
  BY <1>0, <1>1, <1>5 DEF OneSender
<1>7. \A n \in wire' : row'[n.payout].status # "absent"
  BY <1>0, <1>1, <1>2 DEF RowIsFirst
<1>8. \A p \in Payouts : rail'[p] # "none" => row'[p].status # "absent"
  BY <1>0 DEF RowIsFirst
<1> QED BY <1>4, <1>6, <1>7, <1>8

\* Only requests send, after a step of x that sends nothing.
LEMMA HandlerSends ==
    ASSUME RailInv, NEW x \in Procs, Alone(x),
           wire' = Orphaned(x) \/ (wire' = wire /\ pc[x] # "wait"),
           x \in Requests => about'[x] = For[x] /\ pc'[x] \notin {"read", "ask"},
           x \in Workers => /\ pc'[x] \notin {"reserve", "insert", "send", "wait", "answered"}
                           /\ role'[x] \notin {"refund", "resend"}
    PROVE  RequestsSend'
<1> USE RequestsAreProcs, PayoutsAssumption
<1>0. TypeOK /\ RequestsSend
  BY DEF RailInv, BooksInv
<1>1. \A n \in wire' : /\ ~n.again /\ n.from \notin Workers /\ n.from # x
                       /\ n.from \in Requests => pc[n.from] = "wait" /\ For[n.from] = n.payout
  <2>1. CASE wire' = wire /\ pc[x] # "wait"
    BY <1>0, <2>1 DEF RequestsSend, Procs
  <2>2. CASE wire' = Orphaned(x)
    <3> SUFFICES ASSUME NEW n \in wire'
                 PROVE  /\ ~n.again /\ n.from \notin Workers /\ n.from # x
                        /\ n.from \in Requests => pc[n.from] = "wait" /\ For[n.from] = n.payout
      OBVIOUS
    <3>1. PICK m \in wire : /\ n.payout = m.payout /\ n.again = m.again
                            /\ n.from = IF m.from = x THEN Nobody ELSE m.from
      BY <1>0, <2>2, OrphanedFrom
    <3> QED BY <1>0, <3>1 DEF RequestsSend
  <2> QED BY <2>1, <2>2
<1>2. \A r \in Requests : about'[r] = For[r] /\ pc'[r] \notin {"read", "ask"}
  BY <1>0 DEF RequestsSend, Alone
<1>3. \A n \in wire' : n.from \in Requests => pc'[n.from] = "wait" /\ For[n.from] = n.payout
  BY <1>1 DEF Alone
<1>4. \A w \in Workers : /\ pc'[w] \notin {"reserve", "insert", "send", "wait", "answered"}
                         /\ role'[w] \notin {"refund", "resend"}
  BY <1>0 DEF RequestsSend, Alone
<1> QED BY <1>1, <1>2, <1>3, <1>4 DEF RequestsSend

\* The other processes' grounds stay good, so RailInv needs looking at only for
\* the process that moved, if one did.
LEMMA RailInvFromMover ==
    ASSUME RailInv, BooksInv', NEW x, Alone(x), Stays, OneSender', RequestsSend',
           \A m \in wire' : row'[m.payout].status # "absent",
           \A p \in Payouts : rail'[p] # "none" => row'[p].status # "absent",
           x \in Procs => /\ Works(x)' => row'[about'[x]].status # "absent"
                         /\ OnAnAnswer(x)',
           \A p \in Payouts : "reverse" \in posted'[p] => "reverse" \in posted[p] \/ Over(p),
           \A p \in Payouts : row'[p].status = "completed"
                              => row[p].status = "completed" \/ rail[p] = "completed"
    PROVE  RailInv'
<1>0. /\ TypeOK /\ RowIsFirst /\ DecidesOnAnAnswer /\ ReturnedIsOver /\ CompletedIsPaid
      /\ \A y \in Procs : about[y] \in Payouts
  BY DEF RailInv, BooksInv, TypeOK
<1>1. RowIsFirst'
  BY <1>0 DEF RowIsFirst, Works, Alone, Stays
<1>2. ASSUME NEW y \in Procs, y # x
      PROVE  OnAnAnswer(y)'
  <2>1. /\ pc'[y] = pc[y] /\ role'[y] = role[y] /\ about'[y] = about[y]
        /\ verdict'[y] = verdict[y]
    BY <1>2 DEF Alone
  <2>2. OnAnAnswer(y) /\ about[y] \in Payouts
    BY <1>0 DEF DecidesOnAnAnswer
  <2>3. pc[y] \in {"read", "ask"} => row[about[y]].status # "absent"
    BY <1>0 DEF RowIsFirst, Works
  <2>4. /\ rail[about[y]] = "completed" => rail'[about[y]] = "completed"
        /\ rail[about[y]] # "none" => rail'[about[y]] # "none"
        /\ Quiet(about[y]) /\ row[about[y]].status # "absent" => Quiet(about[y])'
        /\ Over(about[y]) => Over(about[y])'
    BY <1>2, <2>1, <2>2 DEF Stays, Over, Quiet
  <2> QED BY <2>1, <2>2, <2>3, <2>4 DEF OnAnAnswer
<1>3. DecidesOnAnAnswer'
  BY <1>2 DEF DecidesOnAnAnswer
<1>4. ReturnedIsOver'
  BY <1>0 DEF ReturnedIsOver, Stays
<1>5. CompletedIsPaid'
  BY <1>0 DEF CompletedIsPaid, Stays
<1> QED BY <1>1, <1>3, <1>4, <1>5 DEF RailInv

\* A handler that ends has nothing left to decide.
LEMMA FinishKeepsRail ==
    ASSUME RailInv, BooksInv', NEW x \in Procs, Finish(x), rail' = rail,
           wire' = Orphaned(x) \/ (wire' = wire /\ pc[x] # "wait"), UNCHANGED <<row, ledger>>
    PROVE  RailInv'
<1> USE RequestsAreProcs, PayoutsAssumption
<1>0. TypeOK
  BY DEF RailInv, BooksInv
<1>1. Alone(x) /\ pc'[x] \in {"idle", "done"} /\ role'[x] \in {"request", "none"}
  BY <1>0 DEF Alone, Finish, Goto, TypeOK
<1>2. x \in Requests => about'[x] = For[x]
  BY <1>0 DEF Finish, Home, TypeOK
<1>3. \A r \in Requests : pc'[r] = "send" => pc[r] = "send"
  BY <1>1 DEF Alone
<1>4. /\ Stays /\ OneSender'
      /\ \A m \in wire' : row'[m.payout].status # "absent"
      /\ \A p \in Payouts : rail'[p] # "none" => row'[p].status # "absent"
  BY <1>3, HandlerStays
<1>5. RequestsSend'
  BY <1>1, <1>2, HandlerSends
<1>6. ~Works(x)' /\ OnAnAnswer(x)'
  BY <1>1 DEF Works, OnAnAnswer
<1> QED BY <1>1, <1>4, <1>5, <1>6, RailInvFromMover DEF ledger

\* A step of x that moves x alone, on grounds it has.
LEMMA MoveKeepsRail ==
    ASSUME RailInv, BooksInv', NEW x \in Procs, Alone(x), UNCHANGED <<rail, wire>>,
           pc[x] # "wait", pc'[x] # "send",
           x \in Requests => about'[x] = For[x] /\ pc'[x] \notin {"read", "ask"},
           x \in Workers => /\ pc'[x] \notin {"reserve", "insert", "wait", "answered"}
                           /\ role'[x] \notin {"refund", "resend"},
           \A p \in Payouts : row[p].status # "absent" => row'[p].status # "absent",
           Works(x)' => row[about'[x]].status # "absent" /\ about'[x] \in Payouts,
           Stays => OnAnAnswer(x)',
           \A p \in Payouts : "reverse" \in posted'[p] => "reverse" \in posted[p] \/ Over(p),
           \A p \in Payouts : row'[p].status = "completed"
                              => row[p].status = "completed" \/ rail[p] = "completed"
    PROVE  RailInv'
<1> USE RequestsAreProcs
<1>1. \A r \in Requests : pc'[r] = "send" => pc[r] = "send"
  BY DEF Alone
<1>2. /\ Stays /\ OneSender'
      /\ \A m \in wire' : row'[m.payout].status # "absent"
      /\ \A p \in Payouts : rail'[p] # "none" => row'[p].status # "absent"
  BY <1>1, HandlerStays
<1>3. RequestsSend'
  BY HandlerSends
<1> QED BY <1>2, <1>3, RailInvFromMover

\* Posting a reserve or a settlement is not posting a reversal.
LEMMA OtherEntry ==
    ASSUME TypeOK, NEW p \in Payouts, NEW e \in {"reserve", "settle"},
           posted' = posted \/ posted' = [posted EXCEPT ![p] = @ \cup {e}]
    PROVE  \A q \in Payouts : "reverse" \in posted'[q] => "reverse" \in posted[q]
<1> SUFFICES ASSUME NEW q \in Payouts, "reverse" \in posted'[q] PROVE "reverse" \in posted[q]
  OBVIOUS
<1>1. CASE posted' = posted
  BY <1>1
<1>2. CASE posted' = [posted EXCEPT ![p] = @ \cup {e}]
  <2>1. posted'[q] = IF q = p THEN posted[p] \cup {e} ELSE posted[q]
    BY <1>2 DEF TypeOK
  <2>2. "reverse" # e
    OBVIOUS
  <2> QED BY <2>1, <2>2
<1> QED BY <1>1, <1>2

\* The request's steps up to its row.
LEMMA RequestKeepsRail ==
    ASSUME RailInv, BooksInv', NEW r \in Requests, Submit(r) \/ Decline(r) \/ Reserve(r)
    PROVE  RailInv'
<1> USE RequestsAreProcs, PayoutsAssumption
<1>0. TypeOK /\ RequestsSend
  BY DEF RailInv, BooksInv
<1>1. pc[r] # "wait" /\ UNCHANGED <<row, rail, wire>>
  BY DEF Submit, Decline, Reserve
<1>2. CASE Finish(r) /\ UNCHANGED ledger
  BY <1>1, <1>2, FinishKeepsRail
<1>3. CASE /\ Goto(r, "reserve") \/ Goto(r, "insert")
           /\ UNCHANGED local
           /\ \A p \in Payouts : "reverse" \in posted'[p] => "reverse" \in posted[p]
  <2>1. Alone(r) /\ pc'[r] \in {"reserve", "insert"}
    BY <1>0, <1>3 DEF Alone, Goto, TypeOK, local
  <2>2. about'[r] = For[r]
    BY <1>0, <1>3 DEF RequestsSend, local
  <2>3. ~Works(r)' /\ OnAnAnswer(r)'
    BY <2>1 DEF Works, OnAnAnswer
  <2> QED BY <1>1, <1>3, <2>1, <2>2, <2>3, MoveKeepsRail
<1>4. Submit(r) => \/ Finish(r) /\ UNCHANGED ledger
                   \/ Goto(r, "reserve") /\ UNCHANGED <<local, ledger>>
  BY DEF Submit
<1>5. Decline(r) => Finish(r) /\ UNCHANGED ledger
  BY DEF Decline
<1>6. Reserve(r) => \/ Finish(r) /\ UNCHANGED ledger
                    \/ /\ Goto(r, "insert") /\ UNCHANGED local
                       /\ posted' = posted \/ posted' = [posted EXCEPT ![For[r]] = @ \cup {"reserve"}]
  BY DEF Reserve, ledger
<1>7. ASSUME posted' = posted \/ posted' = [posted EXCEPT ![For[r]] = @ \cup {"reserve"}]
      PROVE  \A p \in Payouts : "reverse" \in posted'[p] => "reverse" \in posted[p]
  BY <1>0, <1>7, OtherEntry
<1> QED BY <1>2, <1>3, <1>4, <1>5, <1>6, <1>7 DEF ledger

\* The row: the payout had no message, no sender and nothing at the rail.
LEMMA InsertRowKeepsRail ==
    ASSUME RailInv, BooksInv', [Next]_vars, NEW r \in Requests, InsertRow(r)
    PROVE  RailInv'
<1> USE RequestsAreProcs, PayoutsAssumption
<1>0. TypeOK /\ OneSender /\ RowIsFirst /\ RequestsSend /\ For[r] \in Payouts
  BY DEF RailInv, BooksInv
<1>1. CASE row[For[r]].status # "absent"
  <2>1. Finish(r) /\ pc[r] # "wait" /\ UNCHANGED <<row, ledger, rail, wire>>
    BY <1>1 DEF InsertRow
  <2> QED BY <2>1, FinishKeepsRail
<1>2. CASE row[For[r]].status = "absent"
  <2> DEFINE p == For[r]
  <2>1. /\ row' = [row EXCEPT ![p] =
                     [status |-> "reserved", amount |-> AmountOf[r], fee |-> FeeOf[r]]]
        /\ pc' = [pc EXCEPT ![r] = "send"] /\ pc[r] = "insert"
        /\ UNCHANGED <<role, about, verdict, ledger, rail, wire>>
    BY <1>2 DEF InsertRow, Goto
  <2>2. row'[p].status = "reserved" /\ \A q \in Payouts : q # p => row'[q] = row[q]
    BY <1>0, <2>1 DEF TypeOK
  <2>3. Alone(r) /\ pc'[r] = "send"
    BY <1>0, <2>1 DEF Alone, TypeOK
  <2>4. /\ rail[p] = "none"
        /\ \A m \in wire : m.payout # p
        /\ \A s \in Requests : pc[s] = "send" => For[s] # p
    BY <1>0, <1>2 DEF RowIsFirst, Works, RequestsSend
  <2>5. Stays
    BY <1>0, <1>2, <2>1, <2>2, <2>3 DEF Stays, Quiet, Over, Alone
  <2>6. OneSender'
    <3>1. \A s \in Requests : pc'[s] = "send" => s = r \/ (s # r /\ pc[s] = "send")
      BY <2>3 DEF Alone
    <3> QED BY <1>0, <2>1, <2>4, <3>1 DEF OneSender
  <2>7. RequestsSend'
    BY <1>0, <2>1, <2>3, HandlerSends DEF RequestsSend
  <2>8. /\ \A m \in wire' : row'[m.payout].status # "absent"
        /\ \A q \in Payouts : rail'[q] # "none" => row'[q].status # "absent"
    BY <1>0, <2>1, <2>2 DEF RowIsFirst, TypeOK
  <2>9. row'[about'[r]].status # "absent" /\ OnAnAnswer(r)'
    BY <1>0, <2>1, <2>2, <2>3 DEF RequestsSend, OnAnAnswer
  <2>10. /\ \A q \in Payouts : "reverse" \in posted'[q] => "reverse" \in posted[q]
         /\ \A q \in Payouts : row'[q].status = "completed" => row[q].status = "completed"
    BY <2>1, <2>2 DEF ledger
  <2> QED BY <2>3, <2>5, <2>6, <2>7, <2>8, <2>9, <2>10, RailInvFromMover
<1> QED BY <1>1, <1>2

\* The transfer request leaves: its sender was the only one.
LEMMA DispatchKeepsRail ==
    ASSUME RailInv, BooksInv', NEW x \in Procs, Dispatch(x)
    PROVE  RailInv'
<1> USE RequestsAreProcs, PayoutsAssumption
<1> DEFINE m == [from |-> x, payout |-> about[x], again |-> x \in Workers]
<1>0. TypeOK /\ OneSender /\ RowIsFirst /\ RequestsSend
  BY DEF RailInv, BooksInv
<1>1. x \in Requests /\ x \notin Workers /\ about[x] = For[x] /\ For[x] \in Payouts
  BY <1>0 DEF Dispatch, RequestsSend, Procs
<1>2. /\ pc[x] = "send" /\ pc' = [pc EXCEPT ![x] = "wait"] /\ wire' = wire \cup {m}
      /\ m.from = x /\ m.payout = For[x] /\ ~m.again
      /\ UNCHANGED <<row, ledger, rail, role, about, verdict>>
  BY <1>1 DEF Dispatch, Goto, local
<1> HIDE DEF m
<1>3. Alone(x) /\ pc'[x] = "wait"
  BY <1>0, <1>2 DEF Alone, TypeOK
<1>4. Stays
  BY <1>1, <1>2, <1>3 DEF Stays, Quiet, Over, Alone
<1>5. OneSender'
  <2>1. \A s \in Requests : pc'[s] = "send" => s # x /\ pc[s] = "send"
    BY <1>3 DEF Alone
  <2>2. \A n \in wire : n.payout # m.payout
    BY <1>0, <1>1, <1>2 DEF OneSender
  <2>3. rail[m.payout] = "none"
    BY <1>0, <1>1, <1>2 DEF OneSender
  <2>4. \A s \in Requests : pc'[s] = "send" => For[s] # m.payout
    BY <1>0, <1>1, <1>2, <2>1 DEF OneSender
  <2> QED BY <1>0, <1>2, <2>1, <2>2, <2>3, <2>4 DEF OneSender
<1>6. RequestsSend'
  <2>1. \A n \in wire : n.from # x
    BY <1>0, <1>1, <1>2 DEF RequestsSend
  <2>2. \A n \in wire' : n.from \in Requests => pc'[n.from] = "wait" /\ For[n.from] = n.payout
    BY <1>0, <1>2, <1>3, <2>1 DEF RequestsSend, Alone
  <2> QED BY <1>0, <1>1, <1>2, <1>3, <2>2 DEF RequestsSend, Alone
<1>7. /\ \A n \in wire' : row'[n.payout].status # "absent"
      /\ \A q \in Payouts : rail'[q] # "none" => row'[q].status # "absent"
      /\ row'[about'[x]].status # "absent"
  BY <1>0, <1>1, <1>2 DEF RowIsFirst, Works
<1>8. OnAnAnswer(x)'
  BY <1>3 DEF OnAnAnswer
<1> QED BY <1>2, <1>3, <1>4, <1>5, <1>6, <1>7, <1>8, RailInvFromMover DEF ledger

\* The decisions: each is taken on the grounds OnAnAnswer gives its process.
LEMMA DecisionKeepsRail ==
    ASSUME RailInv, BooksInv', [Next]_vars, NEW x \in Procs,
           Answered(x) \/ Settle(x) \/ Complete(x) \/ ReadSettlement(x) \/ Reverse(x)
    PROVE  RailInv'
<1> USE RequestsAreProcs, PayoutsAssumption
<1> DEFINE p == about[x]
<1>0. /\ TypeOK /\ RowIsFirst /\ RequestsSend /\ OnAnAnswer(x) /\ p \in Payouts
      /\ \A q \in Payouts : row[q].status # "absent" => row'[q].status # "absent"
  BY RowsStay DEF RailInv, BooksInv, DecidesOnAnAnswer, TypeOK
<1>1. pc[x] \in {"answered", "settle", "complete", "reverse", "reversing"}
  BY DEF Answered, Settle, Complete, ReadSettlement, Reverse
<1>2. row[p].status # "absent"
  BY <1>0, <1>1 DEF RowIsFirst, Works
\* What the cases below have in common.
<1>3. ASSUME Alone(x), UNCHANGED <<rail, wire, about, role, verdict>>,
             pc'[x] \in {"settle", "complete", "reverse", "reversing", "finish"},
             Stays => OnAnAnswer(x)',
             \A q \in Payouts : "reverse" \in posted'[q] => "reverse" \in posted[q] \/ Over(q),
             \A q \in Payouts : row'[q].status = "completed"
                                => row[q].status = "completed" \/ rail[q] = "completed"
      PROVE  RailInv'
  <2>1. /\ x \in Requests => about'[x] = For[x]
        /\ x \in Workers => role'[x] \notin {"refund", "resend"}
    BY <1>0, <1>3 DEF RequestsSend
  <2>2. about'[x] = p
    BY <1>3
  <2> QED BY <1>0, <1>1, <1>2, <1>3, <2>1, <2>2, MoveKeepsRail
<1>4. CASE Answered(x)
  <2>1. x \in Requests /\ pc[x] = "answered"
    BY <1>0, <1>4 DEF Answered, RequestsSend, Procs
  <2>2. /\ UNCHANGED <<row, ledger, rail, wire, role, about, verdict>>
        /\ \/ verdict[x] = "rejected" /\ pc' = [pc EXCEPT ![x] = "reverse"]
           \/ pc' = [pc EXCEPT ![x] = AfterAnswer(Snapshot(p), verdict[x])]
    BY <1>4, <2>1 DEF Answered, Goto, local
  <2>3. Alone(x) /\ pc'[x] \in {"settle", "complete", "reverse", "finish"}
    BY <1>0, <2>2, AfterAnswerType DEF Alone, TypeOK
  <2>4. /\ pc'[x] = "reverse" => verdict[x] \in {"rejected", "failed"}
        /\ pc'[x] = "complete" => verdict[x] = "completed"
    BY <1>0, <2>2 DEF AfterAnswer, TypeOK
  <2>5. Stays => OnAnAnswer(x)'
    <3>1. /\ about'[x] = p /\ verdict'[x] = verdict[x]
          /\ Over(about[x])' = Over(p)'
      BY <2>2 DEF Over, Quiet
    <3>2. Stays => (Over(p) => Over(p)') /\ (rail[p] = "completed" => rail'[p] = "completed")
      BY <1>0, <2>2 DEF Stays, Over, Quiet
    <3>3. /\ verdict[x] \in {"rejected", "failed"} => Over(p)
          /\ verdict[x] = "completed" => rail[p] = "completed"
      BY <1>0, <2>1 DEF OnAnAnswer
    <3> QED BY <2>3, <2>4, <3>1, <3>2, <3>3 DEF OnAnAnswer
  <2> QED BY <1>3, <2>2, <2>3, <2>5 DEF ledger
<1>5. CASE Settle(x)
  <2>1. /\ pc[x] = "settle" /\ UNCHANGED <<rail, wire, role, about, verdict>>
        /\ \/ pc' = [pc EXCEPT ![x] = "complete"] /\ verdict[x] = "completed"
           \/ pc' = [pc EXCEPT ![x] = "finish"]
        /\ posted' = posted \/ posted' = [posted EXCEPT ![p] = @ \cup {"settle"}]
        /\ row' = row \/ row' = [row EXCEPT ![p].status = "sent"]
    BY <1>5 DEF Settle, Goto, local, ledger
  <2>2. Alone(x) /\ pc'[x] \in {"complete", "finish"}
                /\ (pc'[x] = "complete" => rail[p] = "completed")
    BY <1>0, <2>1 DEF Alone, TypeOK, OnAnAnswer
  <2>3. \A q \in Payouts : "reverse" \in posted'[q] => "reverse" \in posted[q]
    BY <1>0, <2>1, OtherEntry
  <2>4. \A q \in Payouts : row'[q].status = "completed" => row[q].status = "completed"
    BY <1>0, <2>1, RowMoves DEF Statuses
  <2>5. OnAnAnswer(x)'
    BY <2>1, <2>2 DEF OnAnAnswer
  <2> QED BY <1>3, <2>1, <2>2, <2>3, <2>4, <2>5
<1>6. CASE Complete(x)
  <2> DEFINE st == IF row[p].status = "sent" THEN "completed" ELSE row[p].status
  <2>1. /\ pc[x] = "complete" /\ UNCHANGED <<posted, rail, wire, role, about, verdict>>
        /\ pc' = [pc EXCEPT ![x] = "finish"]
        /\ row' = [row EXCEPT ![p].status = st] /\ st \in Statuses
    BY <1>0, <1>6 DEF Complete, Goto, local, ledger, TypeOK, Statuses
  <2>2. Alone(x) /\ pc'[x] = "finish" /\ rail[p] = "completed"
    BY <1>0, <2>1 DEF Alone, TypeOK, OnAnAnswer
  <2>3. \A q \in Payouts : q # p => row'[q] = row[q]
    BY <1>0, <2>1, RowMoves
  <2>4. OnAnAnswer(x)'
    BY <2>2 DEF OnAnAnswer
  <2> QED BY <1>3, <2>1, <2>2, <2>3, <2>4
<1>7. CASE ReadSettlement(x)
  <2>1. /\ pc[x] = "reverse" /\ UNCHANGED <<row, ledger, rail, wire, role, about, verdict>>
        /\ pc' = [pc EXCEPT ![x] = "reversing"]
    BY <1>7 DEF ReadSettlement, Goto
  <2>2. Alone(x) /\ pc'[x] = "reversing" /\ Over(p)
    BY <1>0, <2>1 DEF Alone, TypeOK, OnAnAnswer
  <2>3. Stays => OnAnAnswer(x)'
    BY <1>0, <2>1, <2>2 DEF OnAnAnswer, Stays, Over, Quiet
  <2> QED BY <1>3, <2>1, <2>2, <2>3 DEF ledger
<1>8. CASE Reverse(x)
  <2>1. /\ UNCHANGED <<rail, wire, role, about, verdict>>
        /\ pc' = [pc EXCEPT ![x] = "finish"] \/ pc' = [pc EXCEPT ![x] = "reverse"]
        /\ UNCHANGED <<row, ledger>> \/ Reverses(x)
    BY <1>0, <1>8, ReverseCases
  <2>2. Alone(x) /\ pc'[x] \in {"reverse", "finish"} /\ Over(p)
    BY <1>0, <1>8, <2>1 DEF Reverse, Alone, TypeOK, OnAnAnswer
  <2>3. Stays => OnAnAnswer(x)'
    BY <1>0, <2>1, <2>2 DEF OnAnAnswer, Stays, Over, Quiet
  <2>4. \A q \in Payouts : "reverse" \in posted'[q] => "reverse" \in posted[q] \/ q = p
    BY <1>0, <2>1 DEF Reverses, TypeOK, ledger
  <2>5. \A q \in Payouts : row'[q].status = "completed" => row[q].status = "completed"
    <3>1. CASE UNCHANGED <<row, ledger>>
      BY <3>1
    <3>2. CASE Reverses(x)
      <4>1. row' = [row EXCEPT ![p].status = "failed"]
        BY <3>2 DEF Reverses
      <4> QED BY <1>0, <4>1, RowMoves DEF Statuses
    <3> QED BY <2>1, <3>1, <3>2
  <2> QED BY <1>3, <2>1, <2>2, <2>3, <2>4, <2>5
<1> QED BY <1>4, <1>5, <1>6, <1>7, <1>8

\* The steps of the webhook, the sweep and the screen up to their decision.
LEMMA WorkerKeepsRail ==
    ASSUME RailInv, BooksInv', Roles \cap {"refund", "resend"} = {},
           NEW x \in Workers, WorkerStep(x)
    PROVE  RailInv'
<1> USE RequestsAreProcs, PayoutsAssumption
<1>0. TypeOK /\ OneSender /\ RowIsFirst /\ RequestsSend /\ OnAnAnswer(x) /\ x \notin Requests
  BY DEF RailInv, BooksInv, DecidesOnAnAnswer
<1>1. ASSUME NEW k \in Roles, NEW p \in Payouts, Start(x, k, p)
      PROVE  RailInv'
  <2>1. /\ pc[x] = "idle" /\ Takes(k, p) /\ k \notin {"refund", "resend"} /\ k \in AllRoles
        /\ pc' = [pc EXCEPT ![x] = "read"] /\ role' = [role EXCEPT ![x] = k]
        /\ about' = [about EXCEPT ![x] = p]
        /\ UNCHANGED <<row, ledger, rail, wire, verdict>>
    BY <1>1 DEF Start, Goto
  <2>2. Alone(x) /\ pc'[x] = "read" /\ role'[x] = k /\ about'[x] = p
    BY <1>0, <2>1 DEF Alone, TypeOK
  <2>3. /\ row[p].status \in {"reserved", "sent"}
        /\ k = "webhook" => rail[p] # "none"
        /\ k # "webhook" => Aged(p)
    BY <2>1 DEF Takes, AllRoles
  <2>4. Aged(p) => Quiet(p)
    BY <1>0 DEF Aged, Quiet, RequestsSend
  <2>5. Stays => OnAnAnswer(x)'
    BY <2>1, <2>2, <2>3, <2>4 DEF OnAnAnswer, Stays, Quiet
  <2> QED BY <1>0, <2>1, <2>2, <2>3, <2>5, MoveKeepsRail DEF ledger
<1>2. CASE ReadRow(x)
  <2>1. /\ pc[x] = "read" /\ UNCHANGED <<row, ledger, rail, wire, role, about>>
        /\ verdict' = [verdict EXCEPT ![x] = IF role[x] = "delivered" THEN "sent" ELSE @]
        /\ \/ pc' = [pc EXCEPT ![x] = "ask"]
           \/ role[x] = "delivered" /\ pc' = [pc EXCEPT ![x] = "settle"]
           \/ pc' = [pc EXCEPT ![x] = "finish"]
    BY <1>2 DEF ReadRow, Goto
  <2>2. Alone(x) /\ pc'[x] \in {"ask", "settle", "finish"}
                /\ (pc'[x] = "settle" => verdict'[x] = "sent")
    BY <1>0, <2>1 DEF Alone, TypeOK
  <2>3. row[about[x]].status # "absent" /\ about[x] \in Payouts /\ about'[x] = about[x]
    BY <1>0, <2>1 DEF RowIsFirst, Works, TypeOK
  <2>4. Stays => OnAnAnswer(x)'
    BY <1>0, <2>1, <2>2, <2>3 DEF OnAnAnswer, Stays, Quiet
  <2> QED BY <1>0, <2>1, <2>2, <2>3, <2>4, MoveKeepsRail DEF ledger, RequestsSend
<1>3. CASE Ask(x)
  <2>0. PICK v \in Verdicts(snap[x], about[x]) :
           /\ verdict' = [verdict EXCEPT ![x] = v]
           /\ pc' = [pc EXCEPT ![x] = AfterVerdict(role[x], snap[x], v)]
    BY <1>3 DEF Ask, Goto
  <2>1. /\ pc[x] = "ask" /\ UNCHANGED <<row, ledger, rail, wire, role, about>>
        /\ role[x] \notin {"refund", "resend"}
    BY <1>0, <1>3 DEF Ask, RequestsSend
  <2>2. Alone(x) /\ verdict'[x] = v /\ pc'[x] = AfterVerdict(role[x], snap[x], v)
    BY <1>0, <2>0, <2>1 DEF Alone, TypeOK
  <2>3. row[about[x]].status # "absent" /\ about[x] \in Payouts /\ about'[x] = about[x]
    BY <1>0, <2>1 DEF RowIsFirst, Works, TypeOK
  <2>4. /\ pc'[x] \in {"reverse", "settle", "complete", "finish"}
        /\ pc'[x] = "reverse" => v \in {"failed", "never_sent"}
        /\ pc'[x] = "complete" => v = "completed"
    BY <2>1, <2>2 DEF AfterVerdict, AfterAnswer
  <2>5. /\ v = "failed" => rail[about[x]] = "failed"
        /\ v = "completed" => rail[about[x]] = "completed"
        /\ v = "never_sent" => rail[about[x]] = "none"
    BY <1>0, <2>0, <2>3 DEF Verdicts, TypeOK
  <2>6. rail[about[x]] # "none" => Quiet(about[x])
    BY <1>0, <2>3 DEF OneSender, Quiet
  <2>7. v \in {"failed", "never_sent"} => Over(about[x])
    BY <1>0, <2>1, <2>3, <2>5, <2>6 DEF OnAnAnswer, Over
  <2>8. Stays => OnAnAnswer(x)'
    BY <2>1, <2>2, <2>3, <2>4, <2>5, <2>7 DEF OnAnAnswer, Stays, Over, Quiet
  <2> QED BY <1>0, <2>1, <2>2, <2>3, <2>4, <2>8, MoveKeepsRail DEF ledger
<1> QED BY <1>1, <1>2, <1>3 DEF WorkerStep

\* The rail: it takes one transfer per payout, and its answer reaches the
\* request that waits for it.
LEMMA RailStepKeepsRail ==
    ASSUME RailInv, BooksInv', RailStep
    PROVE  RailInv'
<1> USE RequestsAreProcs, PayoutsAssumption
<1>0. /\ TypeOK /\ OneSender /\ RowIsFirst /\ RequestsSend /\ DecidesOnAnAnswer
      /\ ReturnedIsOver /\ CompletedIsPaid /\ \A x \in Procs : about[x] \in Payouts
  BY DEF RailInv, BooksInv, TypeOK
\* The message m is handled: the rail of its payout becomes v, or stays "none".
<1>1. ASSUME NEW m \in wire, NEW v \in {"sent", "completed", "failed", "rejected"}, Tell(m, v),
             wire' = wire \ {m}, UNCHANGED <<row, ledger, role, about>>,
             rail' = [rail EXCEPT ![m.payout] = IF v = "rejected" THEN @ ELSE v]
      PROVE  RailInv'
  <2> DEFINE p == m.payout
  <2>1. /\ p \in Payouts /\ rail[p] = "none" /\ row[p].status # "absent"
        /\ m.from \in Requests \cup {Nobody}
        /\ \A n \in wire' : n \in wire /\ n.payout # p
        /\ \A r \in Requests : pc[r] = "send" => For[r] # p
    BY <1>0, <1>1 DEF TypeOK, OneSender, RowIsFirst, RequestsSend, Procs
  <2>2. /\ rail'[p] = (IF v = "rejected" THEN "none" ELSE v)
        /\ \A q \in Payouts : q # p => rail'[q] = rail[q]
    BY <1>0, <1>1, <2>1 DEF TypeOK
  <2>3. /\ \A y \in Procs : y # m.from => pc'[y] = pc[y] /\ verdict'[y] = verdict[y]
        /\ m.from \in Requests => pc'[m.from] = "answered" /\ verdict'[m.from] = v
    BY <1>0, <1>1, <2>1 DEF Tell, Goto, TypeOK, Procs
  <2>4. \A r \in Requests : pc'[r] = "send" => pc[r] = "send"
    BY <2>3
  <2>5. Quiet(p)'
    BY <2>1, <2>4 DEF Quiet
  <2>6. \A q \in Payouts : Quiet(q) => Quiet(q)'
    BY <2>1, <2>4 DEF Quiet
  <2>7. ~Quiet(p)
    BY <1>1 DEF Quiet
  <2>8. Stays
    BY <1>1, <2>1, <2>2, <2>6, <2>7 DEF Stays, Over
  <2>9. OneSender'
    BY <1>0, <2>1, <2>2, <2>4 DEF OneSender, TypeOK
  <2>10. RequestsSend'
    <3>1. \A n \in wire' : n.from \in Requests => n.from # m.from
      BY <1>0, <1>1, <2>1 DEF RequestsSend
    <3> QED BY <1>0, <1>1, <2>1, <2>3, <3>1 DEF RequestsSend
  <2>11. /\ \A n \in wire' : row'[n.payout].status # "absent"
         /\ \A q \in Payouts : rail'[q] # "none" => row'[q].status # "absent"
    BY <1>0, <1>1, <2>1, <2>2 DEF RowIsFirst
  <2>12. CASE m.from = Nobody
    <3>1. Alone(Nobody) /\ Nobody \notin Procs
      BY <1>1, <2>3, <2>12 DEF Alone
    <3> QED BY <1>1, <2>8, <2>9, <2>10, <2>11, <3>1, RailInvFromMover DEF ledger
  <2>13. CASE m.from \in Requests
    <3>1. Alone(m.from) /\ about'[m.from] = p /\ pc[m.from] = "wait"
      BY <1>0, <1>1, <2>3, <2>13 DEF Alone, RequestsSend
    <3>2. v \in {"rejected", "failed"} => Over(p)'
      BY <1>1, <2>1, <2>2, <2>5 DEF Over
    <3>3. OnAnAnswer(m.from)'
      BY <2>2, <2>3, <2>13, <3>1, <3>2 DEF OnAnAnswer, Over, Quiet
    <3> QED BY <1>1, <2>1, <2>8, <2>9, <2>10, <2>11, <2>13, <3>1, <3>3, RailInvFromMover
               DEF ledger
  <2> QED BY <2>1, <2>12, <2>13
<1>2. ASSUME NEW m \in wire, RailAccept(m)
      PROVE  RailInv'
  <2>1. PICK v \in {"sent", "completed", "failed"} :
           rail' = [rail EXCEPT ![m.payout] = v] /\ Tell(m, v)
    BY <1>2 DEF RailAccept
  <2>2. rail' = [rail EXCEPT ![m.payout] = IF v = "rejected" THEN @ ELSE v]
    BY <2>1
  <2> QED BY <1>1, <1>2, <2>1, <2>2 DEF RailAccept
<1>3. ASSUME NEW m \in wire, RailRefuse(m)
      PROVE  RailInv'
  <2> DEFINE v == "rejected"
  <2>1. rail' = [rail EXCEPT ![m.payout] = IF v = "rejected" THEN @ ELSE v]
    BY <1>0, <1>3 DEF RailRefuse, TypeOK
  <2>2. wire' = wire \ {m} /\ Tell(m, v) /\ UNCHANGED <<row, ledger, role, about>>
    BY <1>3 DEF RailRefuse
  <2> QED BY <1>1, <2>1, <2>2
<1>4. ASSUME NEW p \in Payouts, RailDecide(p)
      PROVE  RailInv'
  <2>1. PICK v \in {"completed", "failed"} : rail' = [rail EXCEPT ![p] = v]
    BY <1>4 DEF RailDecide
  <2>2. rail[p] = "sent" /\ UNCHANGED <<row, ledger, wire, pc, role, about, verdict>>
    BY <1>4 DEF RailDecide, local
  <2>3. rail'[p] = v /\ \A q \in Payouts : q # p => rail'[q] = rail[q]
    BY <1>0, <2>1 DEF TypeOK
  <2>4. Alone(Nobody) /\ Nobody \notin Procs /\ \A q \in Payouts : Quiet(q)' = Quiet(q)
    BY <2>2 DEF Alone, Quiet
  <2>5. Stays
    BY <2>2, <2>3, <2>4 DEF Stays, Over
  <2>6. OneSender'
    BY <1>0, <2>2, <2>3 DEF OneSender, TypeOK
  <2>7. RequestsSend'
    BY <1>0, <2>2 DEF RequestsSend
  <2>8. /\ \A n \in wire' : row'[n.payout].status # "absent"
        /\ \A q \in Payouts : rail'[q] # "none" => row'[q].status # "absent"
    BY <1>0, <2>2, <2>3 DEF RowIsFirst
  <2> QED BY <2>2, <2>4, <2>5, <2>6, <2>7, <2>8, RailInvFromMover DEF ledger
<1> QED BY <1>2, <1>3, <1>4 DEF RailStep

\* Before the first payout nothing is at the rail.
LEMMA InitHasRail == Init => RailInv
<1> SUFFICES ASSUME Init PROVE RailInv
  OBVIOUS
<1> USE RequestsAreProcs, PayoutsAssumption
<1>1. wire = {} /\ \A p \in Payouts : posted[p] = {} /\ rail[p] = "none"
                                    /\ row[p].status = "absent"
  BY DEF Init, Absent
<1>2. \A x \in Procs : pc[x] = "idle" /\ role[x] \in {"request", "none"}
  BY DEF Init
<1>3. \A r \in Requests : about[r] = For[r]
  BY DEF Init, Home
<1> QED BY <1>1, <1>2, <1>3, InitHasBooks DEF RailInv, OneSender, RowIsFirst, Works,
                                              RequestsSend, DecidesOnAnAnswer, OnAnAnswer,
                                              ReturnedIsOver, CompletedIsPaid

\* Every step keeps RailInv while staff neither refund nor resend.
LEMMA NextKeepsRail ==
    ASSUME Roles \cap {"refund", "resend"} = {}
    PROVE  RailInv /\ [Next]_vars => RailInv'
<1> SUFFICES ASSUME RailInv, [Next]_vars PROVE RailInv'
  OBVIOUS
<1> USE RequestsAreProcs
<1>0. BooksInv' /\ TypeOK
  BY NextKeepsBooks DEF RailInv, BooksInv
<1>1. ASSUME NEW r \in Requests, RequestStep(r) PROVE RailInv'
  BY <1>0, <1>1, RequestKeepsRail, InsertRowKeepsRail DEF RequestStep
<1>2. ASSUME NEW w \in Workers, WorkerStep(w) PROVE RailInv'
  BY <1>0, <1>2, WorkerKeepsRail
<1>3. ASSUME NEW x \in Procs, CommonStep(x) \/ Crash(x) PROVE RailInv'
  <2>1. CASE GiveUp(x) \/ Crash(x) \/ Return(x)
    <3>1. /\ Finish(x) /\ rail' = rail /\ UNCHANGED <<row, ledger>>
          /\ wire' = Orphaned(x) \/ (wire' = wire /\ pc[x] # "wait")
      BY <2>1 DEF GiveUp, Crash, Return
    <3> QED BY <1>0, <3>1, FinishKeepsRail
  <2>2. CASE Dispatch(x)
    BY <1>0, <2>2, DispatchKeepsRail
  <2>3. CASE Answered(x) \/ Settle(x) \/ Complete(x) \/ ReadSettlement(x) \/ Reverse(x)
    BY <1>0, <2>3, DecisionKeepsRail
  <2> QED BY <1>3, <2>1, <2>2, <2>3 DEF CommonStep
<1>4. CASE RailStep
  BY <1>0, <1>4, RailStepKeepsRail
<1>5. CASE UNCHANGED vars
  <2>1. UNCHANGED <<row, posted, rail, wire, pc, role, about, verdict>>
    BY <1>5 DEF vars
  <2> QED BY <1>0, <2>1 DEF RailInv, OneSender, RowIsFirst, Works, RequestsSend,
                            DecidesOnAnAnswer, OnAnAnswer, ReturnedIsOver, CompletedIsPaid,
                            Over, Quiet
<1> QED BY <1>1, <1>2, <1>3, <1>4, <1>5 DEF Next

\* The business does not pay twice: where staff neither refund on a silent rail
\* nor send again (the two findings), no payout that send, the webhooks, the
\* sweep, the list, Recover or markDelivered work on is both given back and
\* paid, and none is completed that was not paid.
THEOREM NeverPaidTwice ==
    ASSUME Roles \cap {"refund", "resend"} = {}
    PROVE  Spec => []PaidOrReturned
<1>1. Init => RailInv
  BY InitHasRail
<1>2. RailInv /\ [Next]_vars => RailInv'
  BY NextKeepsRail
<1>3. RailInv => PaidOrReturned
  BY DEF RailInv, ReturnedIsOver, CompletedIsPaid, Over, PaidOrReturned
<1> QED BY <1>1, <1>2, <1>3, PTL DEF Spec

-----------------------------------------------------------------------------
(* The payout flow implements Hold, where submissions of one payout agree. *)

\* The steps that leave the entries, the rows and so the holds alone.
LEMMA OtherStepsPostNothing ==
    ASSUME [Next]_vars,
           \A r \in Requests : ~Reserve(r) /\ ~InsertRow(r),
           \A x \in Procs : ~Settle(x) /\ ~Complete(x) /\ ~Reverse(x)
    PROVE  UNCHANGED <<row, ledger>>
<1>1. ASSUME NEW r \in Requests, RequestStep(r)
      PROVE  UNCHANGED <<row, ledger>>
  BY <1>1 DEF RequestStep, Submit, Decline
<1>2. ASSUME NEW w \in Workers, WorkerStep(w)
      PROVE  UNCHANGED <<row, ledger>>
  BY <1>2 DEF WorkerStep, Start, ReadRow, Ask
<1>3. ASSUME NEW x \in Procs, CommonStep(x) \/ Crash(x)
      PROVE  UNCHANGED <<row, ledger>>
  BY <1>3 DEF CommonStep, Dispatch, GiveUp, Answered, ReadSettlement, Return, Crash
<1>4. RailStep => UNCHANGED <<row, ledger>>
  BY DEF RailStep, RailAccept, RailRefuse, RailDecide
<1> QED BY <1>1, <1>2, <1>3, <1>4 DEF Next, vars, ledger, books

\* What the reserve does to the entries: nothing, or the hold.
LEMMA ReserveCases ==
    ASSUME BooksInv, NEW r \in Requests, Reserve(r)
    PROVE  /\ row' = row
           /\ \/ UNCHANGED ledger
              \/ /\ posted[For[r]] = {} /\ row[For[r]].status = "absent"
                 /\ wallet >= AmountOf[r] + FeeOf[r]
                 /\ posted' = [posted EXCEPT ![For[r]] = {"reserve"}]
                 /\ held' = [held EXCEPT ![For[r]] = AmountOf[r] + FeeOf[r]]
                 /\ wallet' = wallet - (AmountOf[r] + FeeOf[r])
                 /\ pending' = pending + (AmountOf[r] + FeeOf[r])
                 /\ UNCHANGED <<undid, float, fees>>
<1> DEFINE p == For[r]
<1>1. p \in Payouts /\ posted \in [Payouts -> SUBSET {"reserve", "settle", "reverse"}]
      /\ wallet \in Nat /\ AmountOf[r] + FeeOf[r] \in Nat
  BY PayoutsAssumption DEF BooksInv, TypeOK
<1>2. CASE "reserve" \in posted[p] \/ wallet < AmountOf[r] + FeeOf[r]
  BY <1>2 DEF Reserve
<1>3. CASE "reserve" \notin posted[p] /\ ~(wallet < AmountOf[r] + FeeOf[r])
  <2>1. posted[p] = {} /\ row[p].status = "absent"
    BY <1>1, <1>3, PostedNeedsReserve
  <2>2. posted' = [posted EXCEPT ![p] = @ \cup {"reserve"}]
    BY <1>3 DEF Reserve
  <2>3. posted' = [posted EXCEPT ![p] = {"reserve"}]
    BY <1>1, <2>1, <2>2
  <2> QED BY <1>1, <1>3, <2>1, <2>3 DEF Reserve
<1> QED BY <1>2, <1>3

\* What the settlement does to the entries: nothing, or the spending.
LEMMA SettleCases ==
    ASSUME BooksInv, NEW x \in Procs, Settle(x)
    PROVE  \/ UNCHANGED <<row, ledger>>
           \/ /\ posted[about[x]] = {"reserve"}
              /\ row[about[x]].status = "reserved"
              /\ posted' = [posted EXCEPT ![about[x]] = {"reserve", "settle"}]
              /\ pending' = pending - Total(about[x])
              /\ float' = float + row[about[x]].amount
              /\ fees' = fees + row[about[x]].fee
              /\ row' = [row EXCEPT ![about[x]].status = "sent"]
              /\ UNCHANGED <<held, undid, wallet>>
<1> DEFINE p == about[x]
<1>1. CASE UNCHANGED <<row, ledger>>
  BY <1>1
<1>2. CASE ~UNCHANGED <<row, ledger>>
  <2>1. /\ p \in Payouts /\ row[p].status = "reserved"
        /\ posted' = [posted EXCEPT ![p] = @ \cup {"settle"}]
    BY <1>2 DEF Settle, BooksInv, TypeOK
  <2>2. posted[p] = {"reserve"}
    BY <2>1 DEF BooksInv, RowTellsLedger
  <2>3. posted' = [posted EXCEPT ![p] = {"reserve", "settle"}]
    BY <2>1, <2>2 DEF BooksInv, TypeOK
  <2> QED BY <1>2, <2>1, <2>2, <2>3 DEF Settle
<1> QED BY <1>1, <1>2

\* Before the first payout nothing is held.
LEMMA InitHasHolds == Init => HoldInv
<1> SUFFICES ASSUME Init PROVE HoldInv
  OBVIOUS
<1>1. \A p \in Payouts : posted[p] = {} /\ row[p].status = "absent"
  BY DEF Init, Absent
<1> QED BY <1>1, InitHasBooks, PayoutsAssumption DEF HoldInv, HoldIsBody, RowMatchesReserve

\* The row, the hold and the submissions keep agreeing.
LEMMA NextKeepsHolds ==
    ASSUME SameBody
    PROVE  HoldInv /\ [Next]_vars => HoldInv'
<1> SUFFICES ASSUME HoldInv, [Next]_vars PROVE HoldInv'
  OBVIOUS
<1> USE PayoutsAssumption
<1>0. /\ BooksInv /\ BooksInv' /\ TypeOK /\ HoldIsBody /\ RowMatchesReserve
      /\ \A r \in Requests : For[r] \in Payouts /\ AmountOf[r] \in Nat /\ FeeOf[r] \in Nat
  BY NextKeepsBooks DEF HoldInv, BooksInv
<1>1. CASE UNCHANGED <<row, ledger>>
  BY <1>0, <1>1 DEF HoldInv, HoldIsBody, RowMatchesReserve, Total, ledger
<1>2. ASSUME NEW r \in Requests, Reserve(r)
      PROVE  HoldInv'
  <2> DEFINE p == For[r]
  <2>1. CASE row' = row /\ UNCHANGED ledger
    BY <1>1, <2>1
  <2>2. CASE /\ row' = row /\ row[p].status = "absent"
             /\ posted' = [posted EXCEPT ![p] = {"reserve"}]
             /\ held' = [held EXCEPT ![p] = AmountOf[r] + FeeOf[r]]
    <3>1. /\ held'[p] = AmountOf[r] + FeeOf[r]
          /\ \A q \in Payouts : q # p => held'[q] = held[q] /\ posted'[q] = posted[q]
      BY <1>0, <2>2 DEF TypeOK
    <3>2. HoldIsBody'
      BY <1>0, <3>1 DEF HoldIsBody, SameBody
    <3>3. RowMatchesReserve'
      BY <1>0, <2>2, <3>1 DEF RowMatchesReserve, Total
    <3> QED BY <1>0, <3>2, <3>3 DEF HoldInv
  <2> QED BY <1>0, <1>2, <2>1, <2>2, ReserveCases
<1>3. ASSUME NEW r \in Requests, InsertRow(r)
      PROVE  HoldInv'
  <2> DEFINE p == For[r]
             new == [status |-> "reserved", amount |-> AmountOf[r], fee |-> FeeOf[r]]
  <2>1. CASE row[p].status # "absent"
    BY <1>1, <1>3, <2>1 DEF InsertRow
  <2>2. CASE row[p].status = "absent"
    <3>1. row' = [row EXCEPT ![p] = new] /\ UNCHANGED ledger /\ "reserve" \in posted[p]
      BY <1>0, <1>3, <2>2 DEF InsertRow, BooksInv, InsertAfterReserve
    <3>2. row'[p] = new /\ \A q \in Payouts : q # p => row'[q] = row[q]
      BY <1>0, <3>1 DEF TypeOK
    <3>3. HoldIsBody'
      BY <1>0, <3>1 DEF HoldIsBody, ledger
    <3>4. held'[p] = AmountOf[r] + FeeOf[r] /\ held' = held
      BY <1>0, <3>1 DEF HoldIsBody, ledger
    <3>5. RowMatchesReserve'
      BY <1>0, <3>2, <3>4 DEF RowMatchesReserve, Total
    <3> QED BY <1>0, <3>3, <3>5 DEF HoldInv
  <2> QED BY <2>1, <2>2
\* The decisions move statuses of written rows and add to posted holds.
<1>4. ASSUME NEW p \in Payouts, NEW st \in Statuses, row[p].status # "absent",
             row' = [row EXCEPT ![p].status = st], held' = held,
             \A q \in Payouts : "reserve" \in posted'[q] => "reserve" \in posted[q]
      PROVE  HoldInv'
  <2>1. /\ row'[p].amount = row[p].amount /\ row'[p].fee = row[p].fee
        /\ \A q \in Payouts : q # p => row'[q] = row[q]
    BY <1>0, <1>4, RowMoves
  <2>2. HoldIsBody'
    BY <1>0, <1>4 DEF HoldIsBody
  <2>3. RowMatchesReserve'
    BY <1>0, <1>4, <2>1 DEF RowMatchesReserve, Total
  <2> QED BY <1>0, <2>2, <2>3 DEF HoldInv
<1>5. ASSUME NEW x \in Procs, Settle(x)
      PROVE  HoldInv'
  <2>0. about[x] \in Payouts
    BY <1>0 DEF TypeOK
  <2>1. CASE /\ posted[about[x]] = {"reserve"} /\ row[about[x]].status = "reserved"
             /\ posted' = [posted EXCEPT ![about[x]] = {"reserve", "settle"}]
             /\ row' = [row EXCEPT ![about[x]].status = "sent"]
             /\ held' = held
    <3>1. \A q \in Payouts : "reserve" \in posted'[q] => "reserve" \in posted[q]
      BY <1>0, <2>0, <2>1 DEF TypeOK
    <3> QED BY <1>4, <2>0, <2>1, <3>1 DEF Statuses
  <2> QED BY <1>0, <1>1, <1>5, <2>1, SettleCases
<1>6. ASSUME NEW x \in Procs, Complete(x)
      PROVE  HoldInv'
  <2> DEFINE st == IF row[about[x]].status = "sent" THEN "completed" ELSE row[about[x]].status
  <2>1. /\ about[x] \in Payouts /\ st \in Statuses /\ UNCHANGED ledger
        /\ row' = [row EXCEPT ![about[x]].status = st]
    BY <1>0, <1>6 DEF Complete, TypeOK, Statuses
  <2> HIDE DEF st
  <2>2. /\ row'[about[x]].amount = row[about[x]].amount
        /\ row'[about[x]].fee = row[about[x]].fee
        /\ row'[about[x]].status = st
        /\ \A q \in Payouts : q # about[x] => row'[q] = row[q]
    BY <1>0, <2>1, RowMoves
  <2>3. HoldIsBody'
    BY <1>0, <2>1 DEF HoldIsBody, ledger
  <2>4. RowMatchesReserve'
    BY <1>0, <2>1, <2>2 DEF RowMatchesReserve, Total, ledger, st
  <2> QED BY <1>0, <2>3, <2>4 DEF HoldInv
<1>7. ASSUME NEW x \in Procs, Reverse(x)
      PROVE  HoldInv'
  <2>1. CASE Reverses(x)
    <3>1. /\ about[x] \in Payouts /\ row[about[x]].status # "absent" /\ held' = held
          /\ row' = [row EXCEPT ![about[x]].status = "failed"]
          /\ posted' = [posted EXCEPT ![about[x]] = @ \cup {"reverse"}]
      BY <1>0, <2>1 DEF Reverses, TypeOK
    <3>2. \A q \in Payouts : "reserve" \in posted'[q] => "reserve" \in posted[q]
      BY <1>0, <3>1 DEF TypeOK
    <3> QED BY <1>4, <3>1, <3>2 DEF Statuses
  <2> QED BY <1>0, <1>1, <1>7, <2>1, ReverseCases
<1> QED BY <1>1, <1>2, <1>3, <1>5, <1>6, <1>7, OtherStepsPostNothing

\* The stages of the holds when the entries of one payout change.
LEMMA StageMoves ==
    ASSUME TypeOK, NEW p \in Payouts, NEW entries, NEW st,
           posted' = [posted EXCEPT ![p] = entries],
           st = IF "reverse" \in entries THEN "returned"
                ELSE IF "settle" \in entries THEN "spent"
                ELSE IF "reserve" \in entries THEN "held" ELSE "none"
    PROVE  HoldStage' = [HoldStage EXCEPT ![p] = st]
<1>1. \A q \in Payouts : posted'[q] = IF q = p THEN entries ELSE posted[q]
  BY DEF TypeOK
<1> QED BY <1>1 DEF HoldStage, Settled

\* Every step is a step of Hold or leaves its variables alone.
LEMMA StepsAreHoldSteps ==
    ASSUME HoldInv, [Next]_vars
    PROVE  [AsHold!Next]_<<HoldStage, held, wallet, pending, float + fees>>
<1> USE PayoutsAssumption
<1>0. BooksInv /\ TypeOK /\ RowTellsLedger /\ RowMatchesReserve
  BY DEF HoldInv, BooksInv
<1>1. CASE UNCHANGED ledger
  BY <1>1 DEF ledger, books, HoldStage, Settled
<1>2. ASSUME NEW r \in Requests, Reserve(r)
      PROVE  [AsHold!Next]_<<HoldStage, held, wallet, pending, float + fees>>
  <2> DEFINE p == For[r]
             n == AmountOf[r] + FeeOf[r]
  <2>1. CASE /\ posted[p] = {} /\ wallet >= n
             /\ posted' = [posted EXCEPT ![p] = {"reserve"}]
             /\ held' = [held EXCEPT ![p] = n]
             /\ wallet' = wallet - n
             /\ pending' = pending + n
             /\ UNCHANGED <<float, fees>>
    <3>0. AmountOf[r] \in Nat /\ AmountOf[r] # 0 /\ FeeOf[r] \in Nat /\ wallet \in Nat
      BY <1>0 DEF TypeOK
    <3>1. p \in Payouts /\ n \in 1..wallet
      BY <2>1, <3>0
    <3>2. HoldStage[p] = "none" /\ HoldStage' = [HoldStage EXCEPT ![p] = "held"]
      BY <1>0, <2>1, <3>1, StageMoves DEF HoldStage, Settled
    <3>3. AsHold!Reserve(p)
      BY <2>1, <3>1, <3>2 DEF AsHold!Reserve
    <3> QED BY <3>1, <3>3 DEF AsHold!Next
  <2> QED BY <1>0, <1>1, <1>2, <2>1, ReserveCases
<1>3. ASSUME NEW x \in Procs, Settle(x)
      PROVE  [AsHold!Next]_<<HoldStage, held, wallet, pending, float + fees>>
  <2> DEFINE p == about[x]
  <2>1. CASE /\ posted[p] = {"reserve"} /\ row[p].status = "reserved"
             /\ posted' = [posted EXCEPT ![p] = {"reserve", "settle"}]
             /\ pending' = pending - Total(p)
             /\ float' = float + row[p].amount
             /\ fees' = fees + row[p].fee
             /\ UNCHANGED <<held, wallet>>
    <3>1. p \in Payouts /\ held[p] = row[p].amount + row[p].fee /\ Total(p) = held[p]
          /\ row[p].amount \in Nat /\ row[p].fee \in Nat /\ float \in Int /\ fees \in Int
      BY <1>0, <2>1 DEF TypeOK, RowMatchesReserve, Total
    <3>2. HoldStage[p] = "held" /\ HoldStage' = [HoldStage EXCEPT ![p] = "spent"]
      BY <1>0, <2>1, <3>1, StageMoves DEF HoldStage, Settled
    <3>3. float' + fees' = (float + fees) + held[p]
      BY <2>1, <3>1
    <3>4. AsHold!Spend(p)
      BY <2>1, <3>1, <3>2, <3>3 DEF AsHold!Spend
    <3> QED BY <3>1, <3>4 DEF AsHold!Next
  <2> QED BY <1>0, <1>1, <1>3, <2>1, SettleCases
<1>4. ASSUME NEW x \in Procs, Reverse(x)
      PROVE  [AsHold!Next]_<<HoldStage, held, wallet, pending, float + fees>>
  <2> DEFINE p == about[x]
             entries == posted[p] \cup {"reverse"}
  <2>1. CASE Reverses(x)
    <3>1. p \in Payouts /\ held[p] = row[p].amount + row[p].fee /\ Total(p) = held[p]
          /\ row[p].amount \in Nat /\ row[p].fee \in Nat /\ float \in Int /\ fees \in Int
          /\ row[p].status \in {"reserved", "sent"} /\ seen[x] = ("settle" \in posted[p])
      BY <1>0, <2>1 DEF TypeOK, RowMatchesReserve, Total, Reverses, Settled
    <3>2. posted[p] \in {{"reserve"}, {"reserve", "settle"}}
      BY <1>0, <3>1 DEF RowTellsLedger
    <3>3. posted' = [posted EXCEPT ![p] = entries]
      BY <2>1 DEF Reverses
    <3>4. HoldStage' = [HoldStage EXCEPT ![p] = "returned"]
      BY <1>0, <3>1, <3>3, StageMoves
    <3>5. HoldStage[p] = IF seen[x] THEN "spent" ELSE "held"
      BY <3>1, <3>2 DEF HoldStage, Settled
    <3>6. /\ wallet' = wallet + held[p]
          /\ pending' = pending - (IF HoldStage[p] = "held" THEN held[p] ELSE 0)
          /\ held' = held
      BY <2>1, <3>1, <3>5 DEF Reverses
    <3>7. float' + fees' = (float + fees) - (IF HoldStage[p] = "spent" THEN held[p] ELSE 0)
      BY <2>1, <3>1, <3>5 DEF Reverses
    <3>8. AsHold!Return(p)
      BY <3>1, <3>4, <3>5, <3>6, <3>7 DEF AsHold!Return
    <3> QED BY <3>1, <3>8 DEF AsHold!Next
  <2> QED BY <1>0, <1>1, <1>4, <2>1, ReverseCases
<1>5. ASSUME NEW r \in Requests, InsertRow(r)
      PROVE  UNCHANGED ledger
  BY <1>5 DEF InsertRow
<1>6. ASSUME NEW x \in Procs, Complete(x)
      PROVE  UNCHANGED ledger
  BY <1>6 DEF Complete
<1> QED BY <1>1, <1>2, <1>3, <1>4, <1>5, <1>6, OtherStepsPostNothing

\* The payout flow implements Hold for any number of payouts, submissions and
\* workers in any role, the screen's refund and resend included, where the
\* submissions of a payout carry one amount and one fee: the money leaves the
\* wallet once and is spent or comes back once, in full.
THEOREM PayoutsAreHolds ==
    ASSUME SameBody
    PROVE  Spec => ImplementsHold
<1>1. Init => HoldInv
  BY InitHasHolds
<1>2. HoldInv /\ [Next]_vars => HoldInv'
  BY NextKeepsHolds
<1>3. Init => AsHold!Init
  <2> SUFFICES ASSUME Init PROVE AsHold!Init
    OBVIOUS
  <2>1. HoldStage = [p \in Payouts |-> "none"]
    BY DEF Init, HoldStage, Settled
  <2> QED BY <2>1, PayoutsAssumption DEF Init, AsHold!Init
<1>4. HoldInv /\ [Next]_vars
        => [AsHold!Next]_<<HoldStage, held, wallet, pending, float + fees>>
  BY StepsAreHoldSteps
<1> QED BY <1>1, <1>2, <1>3, <1>4, PTL DEF Spec, ImplementsHold, AsHold!Spec

-----------------------------------------------------------------------------
(* The books, from the steps of Hold. *)

\* A payout that was never reserved holds nothing.
UnheldIsNothing == \A p \in Payouts : HoldStage[p] = "none" => held[p] = 0

SumInv == HoldInv /\ UnheldIsNothing /\ BooksMatchHolds

\* What a payout has in pending and out of the wallet, by its stage.
LEMMA StageTellsHoldings ==
    ASSUME SumInv
    PROVE  /\ \A p \in Payouts :
                 /\ Holdings[p] = IF HoldStage[p] = "held" THEN held[p] ELSE 0
                 /\ Takings[p] = IF HoldStage[p] = "returned" THEN 0 ELSE held[p]
                 /\ held[p] \in Int
           /\ IsFiniteSet(Payouts)
           /\ IntsOn(Holdings, Payouts) /\ IntsOn(Takings, Payouts)
           /\ SumFunctionOnSet(Holdings, Payouts) \in Int
           /\ SumFunctionOnSet(Takings, Payouts) \in Int
<1>1. ASSUME NEW p \in Payouts
      PROVE  /\ Holdings[p] = IF HoldStage[p] = "held" THEN held[p] ELSE 0
             /\ Takings[p] = IF HoldStage[p] = "returned" THEN 0 ELSE held[p]
             /\ held[p] \in Int
  <2>1. posted[p] \in SUBSET {"reserve", "settle", "reverse"} /\ held[p] \in Int
    BY DEF SumInv, HoldInv, BooksInv, TypeOK
  <2>2. posted[p] = {"reserve"} <=> HoldStage[p] = "held"
    BY <2>1 DEF HoldStage, Settled
  <2>3. "reverse" \in posted[p] <=> HoldStage[p] = "returned"
    BY <2>1 DEF HoldStage, Settled
  <2> QED BY <2>1, <2>2, <2>3 DEF Holdings, Takings, Holding, TakenBy
<1>2. IntsOn(Holdings, Payouts) /\ IntsOn(Takings, Payouts)
  BY <1>1 DEF IntsOn
<1>3. IsFiniteSet(Payouts)
  BY PayoutsAssumption
<1>4. /\ SumFunctionOnSet(Holdings, Payouts) \in Int
      /\ SumFunctionOnSet(Takings, Payouts) \in Int
  BY <1>2, <1>3, SumType
<1> QED BY <1>1, <1>2, <1>3, <1>4

\* A payout moves from one stage to another, and the balances as its hold does.
LEMMA StageMovesBooks ==
    ASSUME SumInv, HoldInv', NEW p \in Payouts, NEW n \in Int, NEW m \in Int,
           \A q \in Payouts \ {p} : HoldStage'[q] = HoldStage[q] /\ held'[q] = held[q],
           n = (IF HoldStage'[p] = "held" THEN held'[p] ELSE 0)
                 - (IF HoldStage[p] = "held" THEN held[p] ELSE 0),
           m = (IF HoldStage'[p] = "returned" THEN 0 ELSE held'[p])
                 - (IF HoldStage[p] = "returned" THEN 0 ELSE held[p]),
           pending' = pending + n, wallet' = wallet - m,
           (float + fees)' = (float + fees) + (m - n)
    PROVE  BooksMatchHolds'
<1>0. /\ pending \in Int /\ wallet \in Int /\ float \in Int /\ fees \in Int
      /\ pending' \in Int /\ wallet' \in Int /\ float' \in Int /\ fees' \in Int
      /\ OpeningWallet \in Int /\ OtherHolds \in Int
  BY PayoutsAssumption DEF SumInv, HoldInv, BooksInv, TypeOK
<1>1. ASSUME NEW q \in Payouts
      PROVE  /\ Holdings'[q] = IF HoldStage'[q] = "held" THEN held'[q] ELSE 0
             /\ Takings'[q] = IF HoldStage'[q] = "returned" THEN 0 ELSE held'[q]
             /\ held'[q] \in Int
  <2>1. posted'[q] \in SUBSET {"reserve", "settle", "reverse"} /\ held'[q] \in Int
    BY DEF HoldInv, BooksInv, TypeOK
  <2>2. posted'[q] = {"reserve"} <=> HoldStage'[q] = "held"
    BY <2>1 DEF HoldStage, Settled
  <2>3. "reverse" \in posted'[q] <=> HoldStage'[q] = "returned"
    BY <2>1 DEF HoldStage, Settled
  <2> QED BY <2>1, <2>2, <2>3 DEF Holdings, Takings, Holding, TakenBy
<1>2. /\ \A q \in Payouts \ {p} : Holdings[q] = Holdings'[q] /\ Takings[q] = Takings'[q]
      /\ Holdings'[p] \in Int /\ Takings'[p] \in Int
      /\ Holdings'[p] - Holdings[p] = n /\ Takings'[p] - Takings[p] = m
  <2>1. \A q \in Payouts :
          /\ Holdings[q] = IF HoldStage[q] = "held" THEN held[q] ELSE 0
          /\ Takings[q] = IF HoldStage[q] = "returned" THEN 0 ELSE held[q]
    BY StageTellsHoldings
  <2>2. ASSUME NEW q \in Payouts \ {p}
        PROVE  Holdings[q] = Holdings'[q] /\ Takings[q] = Takings'[q]
    <3>1. HoldStage'[q] = HoldStage[q] /\ held'[q] = held[q]
      OBVIOUS
    <3>2. /\ Holdings[q] = IF HoldStage[q] = "held" THEN held[q] ELSE 0
          /\ Takings[q] = IF HoldStage[q] = "returned" THEN 0 ELSE held[q]
      BY <2>1
    <3>3. /\ Holdings'[q] = IF HoldStage'[q] = "held" THEN held'[q] ELSE 0
          /\ Takings'[q] = IF HoldStage'[q] = "returned" THEN 0 ELSE held'[q]
      BY <1>1
    <3> QED BY <3>1, <3>2, <3>3, Zenon
  <2>3. /\ Holdings'[p] = IF HoldStage'[p] = "held" THEN held'[p] ELSE 0
        /\ Takings'[p] = IF HoldStage'[p] = "returned" THEN 0 ELSE held'[p]
        /\ held'[p] \in Int
    BY <1>1
  <2>4. Holdings'[p] \in Int /\ Takings'[p] \in Int
    BY <2>3
  <2>5. Holdings'[p] - Holdings[p] = n /\ Takings'[p] - Takings[p] = m
    BY <2>1, <2>3, Zenon
  <2> QED BY <2>2, <2>4, <2>5
<1>3. SumFunctionOnSet(Holdings', Payouts) = SumFunctionOnSet(Holdings, Payouts) + n
  BY <1>2, StageTellsHoldings, SumChange
<1>4. SumFunctionOnSet(Takings', Payouts) = SumFunctionOnSet(Takings, Payouts) + m
  BY <1>2, StageTellsHoldings, SumChange
<1>5. /\ pending = OtherHolds + SumFunctionOnSet(Holdings, Payouts)
      /\ wallet = OpeningWallet - SumFunctionOnSet(Takings, Payouts)
      /\ wallet + pending + float + fees = OpeningWallet + OtherHolds
  BY DEF SumInv, BooksMatchHolds
<1>6. /\ SumFunctionOnSet(Holdings, Payouts) \in Int
      /\ SumFunctionOnSet(Takings, Payouts) \in Int
  BY StageTellsHoldings
<1>7. /\ pending' = OtherHolds + SumFunctionOnSet(Holdings', Payouts)
      /\ wallet' = OpeningWallet - SumFunctionOnSet(Takings', Payouts)
  BY <1>0, <1>3, <1>4, <1>5, <1>6
<1>8. wallet' + pending' + float' + fees' = OpeningWallet + OtherHolds
  BY <1>0, <1>5
<1> QED BY <1>7, <1>8 DEF BooksMatchHolds

\* A step that moves no hold.
LEMMA NoStageMoves ==
    ASSUME SumInv, HoldInv', UNCHANGED <<HoldStage, held, wallet, pending, float + fees>>
    PROVE  UnheldIsNothing' /\ BooksMatchHolds'
<1>1. UnheldIsNothing'
  BY DEF SumInv, UnheldIsNothing
<1>2. PICK p \in Payouts : TRUE
  BY PayoutsAssumption
<1>3. held[p] \in Int /\ wallet \in Int /\ pending \in Int /\ float + fees \in Int
  BY DEF SumInv, HoldInv, BooksInv, TypeOK
<1>4. /\ 0 = (IF HoldStage'[p] = "held" THEN held'[p] ELSE 0)
                - (IF HoldStage[p] = "held" THEN held[p] ELSE 0)
      /\ 0 = (IF HoldStage'[p] = "returned" THEN 0 ELSE held'[p])
                - (IF HoldStage[p] = "returned" THEN 0 ELSE held[p])
  <2>1. HoldStage'[p] = HoldStage[p] /\ held'[p] = held[p]
    OBVIOUS
  <2> QED BY <1>3, <2>1
<1>5. /\ pending' = pending + 0 /\ wallet' = wallet - 0
      /\ (float + fees)' = (float + fees) + (0 - 0)
  BY <1>3
<1>6. \A q \in Payouts \ {p} : HoldStage'[q] = HoldStage[q] /\ held'[q] = held[q]
  OBVIOUS
<1>7. BooksMatchHolds'
  BY <1>4, <1>5, <1>6, StageMovesBooks
<1> QED BY <1>1, <1>7

LEMMA HoldStepsKeepBooks ==
    ASSUME SumInv, HoldInv', AsHold!Next
    PROVE  UnheldIsNothing' /\ BooksMatchHolds'
<1>0. /\ wallet \in Int /\ pending \in Int /\ float + fees \in Int
      /\ held \in [Payouts -> Nat]
      /\ DOMAIN HoldStage = Payouts
  BY DEF SumInv, HoldInv, BooksInv, TypeOK, HoldStage
<1>1. ASSUME NEW p \in Payouts, AsHold!Reserve(p)
      PROVE  UnheldIsNothing' /\ BooksMatchHolds'
  <2>1. PICK n \in 1..wallet : /\ held' = [held EXCEPT ![p] = n]
                               /\ wallet' = wallet - n /\ pending' = pending + n
    BY <1>1 DEF AsHold!Reserve
  <2>2. /\ HoldStage[p] = "none" /\ HoldStage'[p] = "held" /\ held'[p] = n /\ held[p] = 0
        /\ \A q \in Payouts \ {p} : HoldStage'[q] = HoldStage[q] /\ held'[q] = held[q]
    BY <1>0, <1>1, <2>1 DEF AsHold!Reserve, SumInv, UnheldIsNothing
  <2>3. (float + fees)' = (float + fees) + (n - n) /\ n \in Int
    BY <1>0, <1>1 DEF AsHold!Reserve
  <2>4. BooksMatchHolds'
    BY <1>0, <2>1, <2>2, <2>3, StageMovesBooks
  <2> QED BY <2>2, <2>4 DEF SumInv, UnheldIsNothing
<1>2. ASSUME NEW p \in Payouts, AsHold!Spend(p)
      PROVE  UnheldIsNothing' /\ BooksMatchHolds'
  <2>1. /\ HoldStage[p] = "held" /\ HoldStage'[p] = "spent" /\ UNCHANGED <<held, wallet>>
        /\ \A q \in Payouts \ {p} : HoldStage'[q] = HoldStage[q] /\ held'[q] = held[q]
    BY <1>0, <1>2 DEF AsHold!Spend
  <2>2. held[p] \in Int /\ 0 - held[p] \in Int
    BY <1>0
  <2>3. /\ pending' = pending + (0 - held[p]) /\ wallet' = wallet - (held[p] - held[p])
        /\ (float + fees)' = (float + fees) + ((held[p] - held[p]) - (0 - held[p]))
    BY <1>0, <1>2, <2>2 DEF AsHold!Spend
  <2>4. BooksMatchHolds'
    <3>1. held[p] - held[p] \in Int
      BY <2>2
    <3> QED BY <2>1, <2>2, <2>3, <3>1, StageMovesBooks
  <2> QED BY <2>1, <2>4 DEF SumInv, UnheldIsNothing
<1>3. ASSUME NEW p \in Payouts, AsHold!Return(p)
      PROVE  UnheldIsNothing' /\ BooksMatchHolds'
  <2> DEFINE n == IF HoldStage[p] = "held" THEN held[p] ELSE 0
             g == IF HoldStage[p] = "spent" THEN held[p] ELSE 0
  <2>1. /\ HoldStage[p] \in {"held", "spent"} /\ HoldStage'[p] = "returned" /\ held' = held
        /\ \A q \in Payouts \ {p} : HoldStage'[q] = HoldStage[q] /\ held'[q] = held[q]
    BY <1>0, <1>3 DEF AsHold!Return
  <2>2. held[p] \in Int /\ n \in Int /\ g \in Int /\ n + g = held[p]
    BY <1>0, <2>1
  <2>3. /\ pending' = pending - n /\ wallet' = wallet + held[p]
        /\ (float + fees)' = (float + fees) - g
    BY <1>3 DEF AsHold!Return
  <2>4. BooksMatchHolds'
    <3>1. /\ 0 - n \in Int /\ 0 - held[p] \in Int
          /\ pending' = pending + (0 - n) /\ wallet' = wallet - (0 - held[p])
          /\ (float + fees)' = (float + fees) + ((0 - held[p]) - (0 - n))
      BY <1>0, <2>2, <2>3
    <3> QED BY <2>1, <3>1, StageMovesBooks
  <2> QED BY <2>1, <2>4 DEF SumInv, UnheldIsNothing
<1> QED BY <1>1, <1>2, <1>3 DEF AsHold!Next

\* #reserve, #settle, fail and the recovery screen, for any number of payouts,
\* submissions and workers: the pending account is what the open holds and the
\* other holds have in it, the wallet lacks what is held or spent, and nothing is
\* created or lost between the four accounts.
THEOREM BooksAlwaysMatch ==
    ASSUME SameBody
    PROVE  Spec => []BooksMatchHolds
<1>1. Init => SumInv
  <2> SUFFICES ASSUME Init PROVE SumInv
    OBVIOUS
  <2>1. /\ \A p \in Payouts : Holdings[p] = 0 /\ Takings[p] = 0
        /\ UnheldIsNothing
    BY DEF Init, Holdings, Takings, Holding, TakenBy, UnheldIsNothing
  <2>2. SumFunctionOnSet(Holdings, Payouts) = 0 /\ SumFunctionOnSet(Takings, Payouts) = 0
    BY <2>1, SumZero, PayoutsAssumption
  <2>3. BooksMatchHolds
    BY <2>2, PayoutsAssumption DEF Init, BooksMatchHolds
  <2> QED BY <2>1, <2>3, InitHasHolds DEF SumInv
<1>2. SumInv /\ [Next]_vars => SumInv'
  <2> SUFFICES ASSUME SumInv, [Next]_vars PROVE SumInv'
    OBVIOUS
  <2>1. HoldInv'
    BY NextKeepsHolds DEF SumInv
  <2>2. [AsHold!Next]_<<HoldStage, held, wallet, pending, float + fees>>
    BY StepsAreHoldSteps DEF SumInv
  <2>3. UnheldIsNothing' /\ BooksMatchHolds'
    BY <2>1, <2>2, HoldStepsKeepBooks, NoStageMoves
  <2> QED BY <2>1, <2>3 DEF SumInv
<1> QED BY <1>1, <1>2, PTL DEF Spec, SumInv
=============================================================================
