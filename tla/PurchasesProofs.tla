--------------------------- MODULE PurchasesProofs ----------------------------
(* Catalogue purchases for any number of keys, references, submissions and      *)
(* workers: the books (BooksInv), what is ordered and decided (OrderInv) and    *)
(* the refinement of Hold (HoldInv).                                            *)
EXTENDS Purchases, TLAPS

\* Requests and workers are processes.
LEMMA RequestsAreProcs == Requests \subseteq Procs /\ Workers \subseteq Procs
BY DEF Procs

\* A reference to rest at exists, and so does the home of every process.
LEMMA HomeIsKey == AnyReference \in References /\ \A x \in Procs : Home(x) \in Keys
<1>1. AnyReference \in References
  BY PurchasesAssumption DEF AnyReference
<1> QED BY <1>1, PurchasesAssumption DEF Home, Key, Procs

\* Ending a handler keeps the type of the process state.
LEMMA FinishTypes ==
    ASSUME TypeOK, NEW x \in Procs, Finish(x)
    PROVE  /\ pc' \in [Procs -> Places]
           /\ role' \in [Procs -> AllRoles \cup {"request", "none"}]
           /\ about' \in [Procs -> Keys]
           /\ verdict' \in [Procs -> {"none", "pending", "delivered", "failed", "unknown",
                                      "rejected"}]
BY HomeIsKey DEF TypeOK, Finish, Goto, Places

\* What stopped waiting is still a message, and the message it was.
LEMMA OrphanedFrom ==
    ASSUME TypeOK, NEW x \in Procs, NEW n \in Orphaned(x)
    PROVE  \E m \in wire : /\ n.ref = m.ref
                           /\ n.from = IF m.from = x THEN Nobody ELSE m.from
                           /\ n = [m EXCEPT !.from = IF m.from = x THEN Nobody ELSE m.from]
                           /\ n \in [from : Requests \cup {Nobody}, ref : References]
<1>1. PICK m \in wire : n = [m EXCEPT !.from = IF m.from = x THEN Nobody ELSE m.from]
  BY DEF Orphaned
<1>2. m \in [from : Requests \cup {Nobody}, ref : References]
  BY DEF TypeOK
<1>3. \A f \in Requests \cup {Nobody} :
           /\ [m EXCEPT !.from = f].ref = m.ref /\ [m EXCEPT !.from = f].from = f
           /\ [m EXCEPT !.from = f] \in [from : Requests \cup {Nobody}, ref : References]
  BY <1>2
<1>4. (IF m.from = x THEN Nobody ELSE m.from) \in Requests \cup {Nobody}
  BY <1>2
<1> QED BY <1>1, <1>3, <1>4

\* A step that leaves the rows and the entries alone keeps the books.
LEMMA QuietStepKeepsBooks ==
    ASSUME BooksInv, TypeOK', UNCHANGED <<row, posted>>,
           \A r \in Requests : pc'[r] = "insert" => pc[r] = "insert"
    PROVE  BooksInv'
<1>1. RowTellsLedger' /\ RowIsHeld' /\ OutcomesAreOfRows'
  BY DEF BooksInv, RowTellsLedger, RowIsHeld, OutcomesAreOfRows, Written
<1>2. InsertAfterReserve'
  BY DEF BooksInv, InsertAfterReserve
<1> QED BY <1>1, <1>2 DEF BooksInv

\* Where the word of the provider can lead.
LEMMA AfterWordType ==
    \A v, j : /\ AfterWord(v) \in {"reverse", "settle", "finish"}
              /\ AfterStatus(j, v) \in {"reverse", "settle", "finish"}
BY DEF AfterWord, AfterStatus

\* The handlers' steps that post nothing.
LEMMA HandlerKeepsBooks ==
    ASSUME BooksInv, NEW x \in Procs,
           \/ x \in Requests /\ (Submit(x) \/ Decline(x) \/ Dispatch(x) \/ GiveUp(x) \/ Answered(x))
           \/ Return(x)
           \/ x \in Workers /\ (Ask(x) \/ \E j \in Roles, k \in Keys : Start(x, k, j))
           \/ Crash(x)
    PROVE  BooksInv'
<1> USE RequestsAreProcs
<1>0. TypeOK
  BY DEF BooksInv
<1>1. CASE Finish(x) /\ UNCHANGED <<row, ledger, provider, bought, misread>>
           /\ (wire' = wire \/ wire' = Orphaned(x))
  <2>1. wire' \subseteq [from : Requests \cup {Nobody}, ref : References]
    BY <1>0, <1>1, OrphanedFrom DEF TypeOK
  <2>2. TypeOK'
    BY <1>0, <1>1, <2>1, FinishTypes DEF TypeOK, ledger
  <2>3. \A y \in Procs : pc'[y] = "insert" => pc[y] = "insert"
    BY <1>0, <1>1 DEF TypeOK, Finish, Goto
  <2> QED BY <1>1, <2>2, <2>3, QuietStepKeepsBooks DEF ledger
<1>2. CASE x \in Requests /\ Submit(x)
  <2>1. CASE pc' = [pc EXCEPT ![x] = "reserve"] /\ UNCHANGED <<row, ledger, world, local>>
    <3>1. TypeOK'
      BY <1>0, <2>1 DEF TypeOK, ledger, world, local, Places
    <3>2. \A y \in Procs : pc'[y] = "insert" => pc[y] = "insert"
      BY <1>0, <2>1 DEF TypeOK
    <3> QED BY <2>1, <3>1, <3>2, QuietStepKeepsBooks DEF ledger
  <2> QED BY <1>1, <1>2, <2>1 DEF Submit, Goto, world
<1>3. CASE (x \in Requests /\ Decline(x)) \/ Return(x)
  BY <1>1, <1>3 DEF Decline, Return, world
<1>4. CASE (x \in Requests /\ GiveUp(x)) \/ Crash(x)
  BY <1>1, <1>4 DEF GiveUp, Crash
<1>5. CASE x \in Requests /\ Dispatch(x)
  <2>1. [from |-> x, ref |-> For[x]] \in [from : Requests \cup {Nobody}, ref : References]
    BY <1>5, PurchasesAssumption
  <2>2. TypeOK'
    BY <1>0, <1>5, <2>1 DEF TypeOK, Dispatch, Goto, ledger, local, Places
  <2>3. \A y \in Procs : pc'[y] = "insert" => pc[y] = "insert"
    BY <1>0, <1>5 DEF TypeOK, Dispatch, Goto
  <2> QED BY <1>5, <2>2, <2>3, QuietStepKeepsBooks DEF Dispatch, ledger
<1>6. CASE x \in Requests /\ Answered(x)
  <2>1. TypeOK'
    BY <1>0, <1>6, AfterWordType DEF TypeOK, Answered, Goto, ledger, world, local, Places
  <2>2. \A y \in Procs : pc'[y] = "insert" => pc[y] = "insert"
    BY <1>0, <1>6, AfterWordType DEF TypeOK, Answered, Goto
  <2> QED BY <1>6, <2>1, <2>2, QuietStepKeepsBooks DEF Answered, ledger
<1>7. CASE x \in Workers /\ Ask(x)
  <2>1. PICK v \in Words(Ref(x)) :
           /\ verdict' = [verdict EXCEPT ![x] = v]
           /\ Misread(Ref(x), provider[Ref(x)], v)
           /\ Goto(x, AfterStatus(role[x], v))
    BY <1>7 DEF Ask
  <2>2. /\ v \in {"none", "pending", "delivered", "failed", "unknown", "rejected"}
        /\ misread' \subseteq References
    BY <1>0, <2>1 DEF TypeOK, Words, Ref, Misread
  <2>3. TypeOK'
    BY <1>0, <1>7, <2>1, <2>2, AfterWordType DEF TypeOK, Ask, Goto, ledger, Places
  <2>4. \A y \in Procs : pc'[y] = "insert" => pc[y] = "insert"
    BY <1>0, <2>1, AfterWordType DEF TypeOK, Goto
  <2> QED BY <1>7, <2>3, <2>4, QuietStepKeepsBooks DEF Ask, ledger
<1>8. CASE x \in Workers /\ \E j \in Roles, k \in Keys : Start(x, k, j)
  <2>1. PICK j \in Roles, k \in Keys : Start(x, k, j)
    BY <1>8
  <2>2. TypeOK'
    BY <1>0, <2>1, PurchasesAssumption DEF TypeOK, Start, Goto, ledger, world, Places
  <2>3. \A y \in Procs : pc'[y] = "insert" => pc[y] = "insert"
    BY <1>0, <2>1 DEF TypeOK, Start, Goto
  <2> QED BY <2>1, <2>2, <2>3, QuietStepKeepsBooks DEF Start, ledger
<1> QED BY <1>2, <1>3, <1>4, <1>5, <1>6, <1>7, <1>8

\* An answer reaches the sender that waits for it, or nobody.
LEMMA TellTypes ==
    ASSUME TypeOK, NEW m \in wire,
           NEW v \in {"pending", "delivered", "failed", "rejected"}, Tell(m, v)
    PROVE  /\ pc' \in [Procs -> Places]
           /\ verdict' \in [Procs -> {"none", "pending", "delivered", "failed", "unknown",
                                      "rejected"}]
           /\ m.from \in Requests \cup {Nobody} /\ m.ref \in References
           /\ \A y \in Procs : y # m.from => pc'[y] = pc[y] /\ verdict'[y] = verdict[y]
           /\ m.from \in Requests => pc'[m.from] = "answered" /\ verdict'[m.from] = v
<1> USE RequestsAreProcs
<1>1. m.from \in Requests \cup {Nobody} /\ m.ref \in References /\ Nobody \notin Requests
  BY PurchasesAssumption DEF TypeOK
<1>2. CASE m.from = Nobody
  <2>1. pc' = pc /\ verdict' = verdict
    BY <1>2 DEF Tell
  <2> QED BY <1>1, <1>2, <2>1 DEF TypeOK
<1>3. CASE m.from # Nobody
  <2>1. /\ m.from \in Procs
        /\ pc' = [pc EXCEPT ![m.from] = "answered"]
        /\ verdict' = [verdict EXCEPT ![m.from] = v]
    BY <1>1, <1>3 DEF Tell, Goto
  <2>2. pc \in [Procs -> Places] /\ "answered" \in Places
    BY DEF TypeOK, Places
  <2>3. /\ pc' \in [Procs -> Places]
        /\ pc'[m.from] = "answered" /\ \A y \in Procs : y # m.from => pc'[y] = pc[y]
    BY <2>1, <2>2
  <2>4. /\ verdict' \in [Procs -> {"none", "pending", "delivered", "failed", "unknown",
                                   "rejected"}]
        /\ verdict'[m.from] = v /\ \A y \in Procs : y # m.from => verdict'[y] = verdict[y]
    BY <2>1 DEF TypeOK
  <2> QED BY <1>1, <2>3, <2>4
<1> QED BY <1>2, <1>3

\* The provider's steps touch neither the rows nor the entries.
LEMMA ProviderKeepsBooks ==
    ASSUME BooksInv, ProviderStep
    PROVE  BooksInv'
<1> USE RequestsAreProcs
<1>0. TypeOK
  BY DEF BooksInv
<1>1. ASSUME NEW m \in wire, ProviderAccept(m)
      PROVE  BooksInv'
  <2>1. PICK state \in {"pending", "delivered", "failed"},
              v \in {"pending", "delivered", "failed"} :
           /\ provider' = [provider EXCEPT ![m.ref] = state]
           /\ Tell(m, v) /\ Misread(m.ref, state, v)
    BY <1>1 DEF ProviderAccept
  <2>2. /\ provider' \in [References -> {"none", "pending", "delivered", "failed"}]
        /\ misread' \subseteq References
    BY <1>0, <2>1 DEF TypeOK, Misread
  <2>3. bought' \in [References -> Nat]
    BY <1>0, <1>1 DEF TypeOK, ProviderAccept
  <2>4. TypeOK'
    BY <1>0, <1>1, <2>1, <2>2, <2>3, TellTypes DEF TypeOK, ProviderAccept, ledger
  <2>5. \A y \in Requests : pc'[y] = "insert" => pc[y] = "insert"
    BY <1>0, <2>1, TellTypes
  <2> QED BY <1>1, <2>4, <2>5, QuietStepKeepsBooks DEF ProviderAccept, ledger
<1>2. ASSUME NEW m \in wire, ProviderRefuse(m)
      PROVE  BooksInv'
  <2>1. TypeOK'
    BY <1>0, <1>2, TellTypes DEF TypeOK, ProviderRefuse, ledger
  <2>2. \A y \in Requests : pc'[y] = "insert" => pc[y] = "insert"
    BY <1>0, <1>2, TellTypes DEF ProviderRefuse
  <2> QED BY <1>2, <2>1, <2>2, QuietStepKeepsBooks DEF ProviderRefuse, ledger
<1>3. ASSUME NEW p \in References, ProviderDecide(p)
      PROVE  BooksInv'
  <2>1. TypeOK'
    BY <1>0, <1>3 DEF TypeOK, ProviderDecide, ledger, local
  <2> QED BY <1>3, <2>1, QuietStepKeepsBooks DEF ProviderDecide, ledger, local
<1> QED BY <1>1, <1>2, <1>3 DEF ProviderStep

\* Nothing is posted for a reference before its hold.
LEMMA PostedNeedsReserve ==
    ASSUME BooksInv, NEW p \in References, "reserve" \notin posted[p]
    PROVE  posted[p] = {} /\ ~Written(p)
<1>1. ~Written(p) /\ posted[p] \in SUBSET {"reserve", "settle", "reverse"}
  BY PurchasesAssumption DEF BooksInv, TypeOK, RowIsHeld, Written
<1> QED BY <1>1 DEF BooksInv, OutcomesAreOfRows

\* The hold: taken once, and only from a wallet that covers it.
LEMMA ReserveCases ==
    ASSUME BooksInv, NEW r \in Requests, Reserve(r)
    PROVE  \/ pc' = [pc EXCEPT ![r] = "insert"] /\ "reserve" \in posted[For[r]]
              /\ UNCHANGED <<row, ledger, world, local>>
           \/ Finish(r) /\ UNCHANGED <<row, ledger, world>>
           \/ /\ posted[For[r]] = {} /\ wallet >= AmountOf[r]
              /\ posted' = [posted EXCEPT ![For[r]] = {"reserve"}]
              /\ held' = [held EXCEPT ![For[r]] = AmountOf[r]]
              /\ wallet' = wallet - AmountOf[r]
              /\ pending' = pending + AmountOf[r]
              /\ pc' = [pc EXCEPT ![r] = "insert"]
              /\ UNCHANGED <<row, float, world, local>>
<1> DEFINE p == For[r]
<1>1. p \in References /\ posted \in [References -> SUBSET {"reserve", "settle", "reverse"}]
      /\ wallet \in Nat /\ AmountOf[r] \in Nat
  BY PurchasesAssumption DEF BooksInv, TypeOK
<1>2. CASE "reserve" \in posted[p] \/ wallet < AmountOf[r]
  BY <1>2 DEF Reserve, Goto
<1>3. CASE "reserve" \notin posted[p] /\ ~(wallet < AmountOf[r])
  <2>1. posted[p] = {}
    BY <1>1, <1>3, PostedNeedsReserve
  <2>2. posted' = [posted EXCEPT ![p] = @ \cup {"reserve"}]
    BY <1>3 DEF Reserve
  <2>3. posted' = [posted EXCEPT ![p] = {"reserve"}]
    BY <1>1, <2>1, <2>2
  <2> QED BY <1>1, <1>3, <2>1, <2>3 DEF Reserve, Goto
<1> QED BY <1>2, <1>3

\* The row of one key and the entries of one of its references move: the other
\* rows tell what they told.
LEMMA RowTellsFromMover ==
    ASSUME BooksInv, NEW k \in Keys, NEW p \in References, KeyOf[p] = k,
           \A j \in Keys : j # k => row'[j] = row[j],
           \A q \in References : q # p => posted'[q] = posted[q],
           row'[k].status = "delivered" => posted'[row'[k].ref] \ {"reserve"} = {"settle"},
           row'[k].status = "reversed" => posted'[row'[k].ref] \ {"reserve"} = {"reverse"},
           row'[k].status = "reserved" => posted'[row'[k].ref] \ {"reserve"} = {},
           row'[k].status \notin {"delivered", "reversed", "reserved"}
              => \A q \in References : KeyOf[q] = k => posted'[q] \subseteq {"reserve"}
    PROVE  RowTellsLedger'
<1>0. RowTellsLedger /\ RowIsHeld /\ \A j \in Keys : row[j].ref \in References
  BY DEF BooksInv, TypeOK
<1> DEFINE Tells(j, st, p1, P) ==
             /\ st = "delivered" => p1 \ {"reserve"} = {"settle"}
             /\ st = "reversed" => p1 \ {"reserve"} = {"reverse"}
             /\ st = "reserved" => p1 \ {"reserve"} = {}
             /\ st \notin {"delivered", "reversed", "reserved"}
                   => \A q \in References : KeyOf[q] = j => P[q] \subseteq {"reserve"}
<1>1. \A j \in Keys : Tells(j, row[j].status, posted[row[j].ref], posted)
  BY <1>0 DEF RowTellsLedger
<1>2. ASSUME NEW j \in Keys, j # k
      PROVE  Tells(j, row'[j].status, posted'[row'[j].ref], posted')
  <2>1. row'[j] = row[j] /\ Tells(j, row[j].status, posted[row[j].ref], posted)
    BY <1>1, <1>2
  <2>2. row[j].status # "absent" => posted'[row[j].ref] = posted[row[j].ref]
    BY <1>0, <1>2 DEF RowIsHeld
  <2>3. \A q \in References : KeyOf[q] = j => posted'[q] = posted[q]
    BY <1>2
  <2>4. row[j].status \in {"delivered", "reversed", "reserved"} => row[j].status # "absent"
    OBVIOUS
  <2> QED BY <2>1, <2>2, <2>3, <2>4
<1>3. Tells(k, row'[k].status, posted'[row'[k].ref], posted')
  OBVIOUS
<1>4. \A j \in Keys : Tells(j, row'[j].status, posted'[row'[j].ref], posted')
  BY <1>2, <1>3
<1> QED BY <1>4 DEF RowTellsLedger

\* A hold keeps the books.
LEMMA ReserveKeepsBooks ==
    ASSUME BooksInv, NEW r \in Requests, Reserve(r)
    PROVE  BooksInv'
<1> USE RequestsAreProcs, PurchasesAssumption
<1>0. TypeOK /\ RowTellsLedger /\ InsertAfterReserve /\ RowIsHeld /\ OutcomesAreOfRows
  BY DEF BooksInv
<1> DEFINE p == For[r]
           n == AmountOf[r]
<1>1. p \in References /\ n \in Nat
  OBVIOUS
<1>2. CASE pc' = [pc EXCEPT ![r] = "insert"] /\ "reserve" \in posted[p]
           /\ UNCHANGED <<row, ledger, world, local>>
  <2>1. TypeOK'
    BY <1>0, <1>2 DEF TypeOK, ledger, world, local, Places
  <2>2. InsertAfterReserve'
    BY <1>0, <1>2 DEF TypeOK, InsertAfterReserve, ledger
  <2>3. RowTellsLedger' /\ RowIsHeld' /\ OutcomesAreOfRows'
    BY <1>0, <1>2 DEF RowTellsLedger, RowIsHeld, OutcomesAreOfRows, Written, ledger
  <2> QED BY <2>1, <2>2, <2>3 DEF BooksInv
<1>3. CASE Finish(r) /\ UNCHANGED <<row, ledger, world>>
  <2>1. TypeOK'
    BY <1>0, <1>3, FinishTypes DEF TypeOK, ledger, world
  <2>2. \A y \in Requests : pc'[y] = "insert" => pc[y] = "insert"
    BY <1>0, <1>3 DEF Finish, Goto, TypeOK
  <2> QED BY <1>3, <2>1, <2>2, QuietStepKeepsBooks DEF ledger
<1>4. CASE /\ posted[p] = {} /\ wallet >= n
           /\ posted' = [posted EXCEPT ![p] = {"reserve"}]
           /\ held' = [held EXCEPT ![p] = n]
           /\ wallet' = wallet - n
           /\ pending' = pending + n
           /\ pc' = [pc EXCEPT ![r] = "insert"]
           /\ UNCHANGED <<row, float, world, local>>
  <2>1. posted'[p] = {"reserve"} /\ \A q \in References : q # p => posted'[q] = posted[q]
    BY <1>0, <1>1, <1>4 DEF TypeOK
  <2>2. TypeOK'
    BY <1>0, <1>1, <1>4 DEF TypeOK, world, local, Places
  <2>3. InsertAfterReserve'
    BY <1>0, <1>1, <1>4, <2>1 DEF TypeOK, InsertAfterReserve
  <2>4. ~Written(p)
    BY <1>4, PostedNeedsReserve
  <2>5. \A k \in Keys : row[k].status # "absent" => row[k].ref # p
    BY <1>0, <2>4 DEF RowIsHeld, Written
  <2>6. \A k \in Keys : row[k].ref \in References /\ row[k].status \in Statuses
    BY <1>0 DEF TypeOK
  <2>7. RowTellsLedger'
    <3> DEFINE k == KeyOf[p]
    <3>1. k \in Keys /\ row' = row
      BY <1>1, <1>4
    <3>2. /\ row[k].status = "delivered" => posted[row[k].ref] \ {"reserve"} = {"settle"}
          /\ row[k].status = "reversed" => posted[row[k].ref] \ {"reserve"} = {"reverse"}
          /\ row[k].status = "reserved" => posted[row[k].ref] \ {"reserve"} = {}
      BY <1>0, <3>1 DEF RowTellsLedger
    <3>3. row[k].status \notin {"delivered", "reversed", "reserved"}
             => \A q \in References : KeyOf[q] = k => posted[q] \subseteq {"reserve"}
      BY <1>0, <3>1 DEF RowTellsLedger
    <3>4. row[k].status # "absent" => posted'[row[k].ref] = posted[row[k].ref]
      BY <2>1, <2>5, <2>6, <3>1
    <3>5. \A q \in References : posted[q] \subseteq {"reserve"} => posted'[q] \subseteq {"reserve"}
      BY <1>1, <2>1
    <3> QED BY <1>1, <2>1, <3>1, <3>2, <3>3, <3>4, <3>5, RowTellsFromMover
  <2>8. RowIsHeld' /\ OutcomesAreOfRows'
    BY <1>0, <1>4, <2>1, <2>5, <2>6 DEF RowIsHeld, OutcomesAreOfRows, Written
  <2> QED BY <2>2, <2>3, <2>7, <2>8 DEF BooksInv
<1> QED BY <1>2, <1>3, <1>4, ReserveCases

\* The row: written over a hold that is posted, for a key without one.
LEMMA InsertRowCases ==
    ASSUME BooksInv, NEW r \in Requests, InsertRow(r)
    PROVE  \/ Finish(r) /\ UNCHANGED <<row, ledger, world>>
           \/ /\ row[Key(r)].status = "absent" /\ "reserve" \in posted[For[r]]
              /\ row' = [row EXCEPT ![Key(r)] =
                           [status |-> "reserved", ref |-> For[r], amount |-> AmountOf[r]]]
              /\ row'[Key(r)] = [status |-> "reserved", ref |-> For[r], amount |-> AmountOf[r]]
              /\ \A k \in Keys : k # Key(r) => row'[k] = row[k]
              /\ pc' = [pc EXCEPT ![r] = "order"]
              /\ UNCHANGED <<ledger, world, local>>
BY PurchasesAssumption DEF BooksInv, TypeOK, InsertRow, InsertAfterReserve, Goto, Key

LEMMA InsertRowKeepsBooks ==
    ASSUME BooksInv, NEW r \in Requests, InsertRow(r)
    PROVE  BooksInv'
<1> USE RequestsAreProcs, PurchasesAssumption
<1>0. TypeOK /\ RowTellsLedger /\ InsertAfterReserve /\ RowIsHeld /\ OutcomesAreOfRows
  BY DEF BooksInv
<1> DEFINE p == For[r]
           new == [status |-> "reserved", ref |-> p, amount |-> AmountOf[r]]
<1>1. p \in References /\ Key(r) \in Keys /\ Key(r) = KeyOf[p]
  BY DEF Key
<1>2. CASE Finish(r) /\ UNCHANGED <<row, ledger, world>>
  <2>1. TypeOK'
    BY <1>0, <1>2, FinishTypes DEF TypeOK, ledger, world
  <2>2. \A y \in Requests : pc'[y] = "insert" => pc[y] = "insert"
    BY <1>0, <1>2 DEF Finish, Goto, TypeOK
  <2> QED BY <1>2, <2>1, <2>2, QuietStepKeepsBooks DEF ledger
<1>3. CASE /\ row[Key(r)].status = "absent" /\ "reserve" \in posted[p]
           /\ row' = [row EXCEPT ![Key(r)] = new] /\ row'[Key(r)] = new
           /\ \A k \in Keys : k # Key(r) => row'[k] = row[k]
           /\ pc' = [pc EXCEPT ![r] = "order"]
           /\ UNCHANGED <<ledger, world, local>>
  <2>1. new \in [status : Statuses, ref : References, amount : Nat]
    BY <1>1 DEF Statuses
  <2>2. TypeOK'
    BY <1>0, <1>1, <1>3, <2>1 DEF TypeOK, Places, ledger, world, local
  <2>3. InsertAfterReserve'
    BY <1>0, <1>3 DEF TypeOK, InsertAfterReserve, ledger
  <2>4. posted[p] = {"reserve"} /\ posted' = posted
    BY <1>0, <1>1, <1>3 DEF RowTellsLedger, ledger
  <2>5. new.status = "reserved" /\ new.ref = p
    OBVIOUS
  <2> HIDE DEF new
  <2>6. RowTellsLedger'
    BY <1>1, <1>3, <2>4, <2>5, RowTellsFromMover
  <2>7. RowIsHeld' /\ OutcomesAreOfRows'
    BY <1>0, <1>1, <1>3, <2>4, <2>5 DEF RowIsHeld, OutcomesAreOfRows, Written
  <2> QED BY <2>2, <2>3, <2>6, <2>7 DEF BooksInv
<1> QED BY <1>2, <1>3, InsertRowCases

\* Moving a row changes its status and nothing else.
LEMMA RowMoves ==
    ASSUME TypeOK, NEW k \in Keys, NEW st \in Statuses,
           row' = [row EXCEPT ![k].status = st]
    PROVE  /\ row' \in [Keys -> [status : Statuses, ref : References, amount : Nat]]
           /\ row'[k].status = st /\ row'[k].ref = row[k].ref /\ row'[k].amount = row[k].amount
           /\ \A j \in Keys : j # k => row'[j] = row[j]
<1> DEFINE Rec == [status : Statuses, ref : References, amount : Nat]
           new == [row[k] EXCEPT !.status = st]
<1>1. row \in [Keys -> Rec] /\ row[k] \in Rec
  BY DEF TypeOK
<1>2. \A rec \in Rec : /\ [rec EXCEPT !.status = st] \in Rec
                       /\ [rec EXCEPT !.status = st].status = st
                       /\ [rec EXCEPT !.status = st].ref = rec.ref
                       /\ [rec EXCEPT !.status = st].amount = rec.amount
  OBVIOUS
<1>3. new \in Rec /\ new.status = st /\ new.ref = row[k].ref /\ new.amount = row[k].amount
  BY <1>1, <1>2
<1>4. row' = [row EXCEPT ![k] = new]
  OBVIOUS
<1> HIDE DEF new, Rec
<1>5. row' \in [Keys -> Rec] /\ row'[k] = new /\ \A j \in Keys : j # k => row'[j] = row[j]
  BY <1>1, <1>3, <1>4
<1> QED BY <1>3, <1>5 DEF Rec

\* An outcome: posted over an open hold that pending covers, and the row with it.
Decides(x, e, st) ==
    LET k == about[x]
        p == Ref(x)
        n == row[k].amount
    IN
    /\ row[k].status = "reserved" /\ pending >= n
    /\ posted[p] = {"reserve"} /\ posted' = [posted EXCEPT ![p] = {"reserve", e}]
    /\ row' = [row EXCEPT ![k].status = st]
    /\ pending' = pending - n
    /\ held' = held
    /\ IF e = "settle" THEN wallet' = wallet /\ float' = float + n
       ELSE wallet' = wallet + n /\ float' = float

\* Every decision is one of: nothing posted, or an outcome over an open hold.
LEMMA DecisionCases ==
    ASSUME BooksInv, NEW x \in Procs, Settle(x) \/ Reverse(x)
    PROVE  /\ pc' = [pc EXCEPT ![x] = "finish"] /\ UNCHANGED <<world, local>>
           /\ \/ UNCHANGED <<row, ledger>>
              \/ Settle(x) /\ Decides(x, "settle", "delivered")
              \/ Reverse(x) /\ Decides(x, "reverse", "reversed")
<1> DEFINE k == about[x]
           p == Ref(x)
<1>1. /\ k \in Keys /\ p \in References
      /\ posted \in [References -> SUBSET {"reserve", "settle", "reverse"}]
  BY DEF BooksInv, TypeOK, Ref
<1>2. row[k].status = "reserved" => posted[p] = {"reserve"}
  BY <1>1 DEF BooksInv, RowTellsLedger, RowIsHeld, Ref
<1>3. ASSUME NEW e, row[k].status = "reserved", posted' = [posted EXCEPT ![p] = @ \cup {e}]
      PROVE  posted' = [posted EXCEPT ![p] = {"reserve", e}]
  BY <1>1, <1>2, <1>3
<1>4. CASE Settle(x)
  BY <1>2, <1>3, <1>4 DEF Settle, StillReserved, Decides, Goto, ledger
<1>5. CASE Reverse(x)
  BY <1>2, <1>3, <1>5 DEF Reverse, StillReserved, Decides, Goto, ledger
<1> QED BY <1>4, <1>5

LEMMA DecisionKeepsBooks ==
    ASSUME BooksInv, NEW x \in Procs, Settle(x) \/ Reverse(x)
    PROVE  BooksInv'
<1> USE RequestsAreProcs, PurchasesAssumption
<1>0. TypeOK /\ RowTellsLedger /\ InsertAfterReserve /\ RowIsHeld /\ OutcomesAreOfRows
  BY DEF BooksInv
<1> DEFINE k == about[x]
           p == Ref(x)
           n == row[k].amount
<1>1. k \in Keys /\ p \in References /\ p = row[k].ref /\ n \in Nat
  BY <1>0 DEF TypeOK, Ref
<1>2. /\ pc' \in [Procs -> Places] /\ UNCHANGED <<world, local>>
      /\ \A r \in Requests : pc'[r] = "insert" => pc[r] = "insert"
  BY <1>0, DecisionCases DEF TypeOK, Places
<1>3. CASE UNCHANGED <<row, ledger>>
  <2>1. TypeOK'
    BY <1>0, <1>2, <1>3 DEF TypeOK, ledger, world, local
  <2> QED BY <1>2, <1>3, <2>1, QuietStepKeepsBooks DEF ledger
<1>4. ASSUME NEW e, NEW st, Decides(x, e, st),
             <<e, st>> \in {<<"settle", "delivered">>, <<"reverse", "reversed">>}
      PROVE  BooksInv'
  <2>0. /\ row[k].status = "reserved" /\ pending >= n /\ pending' = pending - n
        /\ posted[p] = {"reserve"} /\ posted' = [posted EXCEPT ![p] = {"reserve", e}]
        /\ row' = [row EXCEPT ![k].status = st] /\ held' = held
        /\ IF e = "settle" THEN wallet' = wallet /\ float' = float + n
           ELSE wallet' = wallet + n /\ float' = float
    BY <1>4 DEF Decides
  <2>1. /\ row' \in [Keys -> [status : Statuses, ref : References, amount : Nat]]
        /\ row'[k].status = st /\ row'[k].ref = p
        /\ \A j \in Keys : j # k => row'[j] = row[j]
    BY <1>0, <1>1, <1>4, <2>0, RowMoves DEF Statuses
  <2>2. /\ posted'[p] = {"reserve", e} /\ \A q \in References : q # p => posted'[q] = posted[q]
        /\ posted' \in [References -> SUBSET {"reserve", "settle", "reverse"}]
    BY <1>0, <1>1, <1>4, <2>0 DEF TypeOK
  <2>3. TypeOK'
    BY <1>0, <1>1, <1>2, <1>4, <2>0, <2>1, <2>2 DEF TypeOK, world, local
  <2>4. /\ KeyOf[p] = k
        /\ \A j \in Keys : row[j].ref \in References /\ row[j].status \in Statuses
    BY <1>0, <1>1, <2>0 DEF RowIsHeld, TypeOK
  <2>5. \A j \in Keys : j # k /\ row[j].status # "absent" => row[j].ref # p
    BY <1>0, <2>4 DEF RowIsHeld
  <2>6. RowTellsLedger'
    <3>1. row'[k].ref = p /\ posted'[p] \ {"reserve"} = {e}
      BY <1>4, <2>1, <2>2
    <3> QED BY <1>1, <1>4, <2>1, <2>2, <2>4, <3>1, RowTellsFromMover
  <2>7. RowIsHeld'
    BY <1>0, <1>1, <1>4, <2>0, <2>1, <2>2, <2>4, <2>5 DEF RowIsHeld
  <2>8. OutcomesAreOfRows'
    BY <1>0, <1>1, <1>4, <2>0, <2>1, <2>2, <2>4 DEF OutcomesAreOfRows, Written
  <2>9. InsertAfterReserve'
    BY <1>0, <1>2, <2>0, <2>2 DEF InsertAfterReserve
  <2> QED BY <2>3, <2>6, <2>7, <2>8, <2>9 DEF BooksInv
<1>5. CASE Decides(x, "settle", "delivered")
  BY <1>4, <1>5
<1>6. CASE Decides(x, "reverse", "reversed")
  BY <1>4, <1>6
<1> QED BY <1>3, <1>5, <1>6, DecisionCases

\* Before the first purchase nothing is posted and no row is written.
LEMMA InitHasBooks == Init => BooksInv
<1> SUFFICES ASSUME Init PROVE BooksInv
  OBVIOUS
<1>1. Absent \in [status : Statuses, ref : References, amount : Nat] /\ Absent.status = "absent"
  BY HomeIsKey DEF Absent, Statuses
<1>2. TypeOK
  BY <1>1, HomeIsKey, PurchasesAssumption DEF Init, TypeOK, Places
<1>3. /\ RowTellsLedger /\ InsertAfterReserve /\ RowIsHeld /\ OutcomesAreOfRows
  BY <1>1, RequestsAreProcs
     DEF Init, RowTellsLedger, InsertAfterReserve, RowIsHeld, OutcomesAreOfRows
<1> QED BY <1>2, <1>3 DEF BooksInv

\* Every step of every process, and of the provider, keeps the books.
LEMMA NextKeepsBooks == BooksInv /\ [Next]_vars => BooksInv'
<1> SUFFICES ASSUME BooksInv, [Next]_vars PROVE BooksInv'
  OBVIOUS
<1> USE RequestsAreProcs
<1>1. ASSUME NEW r \in Requests, RequestStep(r) PROVE BooksInv'
  BY <1>1, HandlerKeepsBooks, ReserveKeepsBooks, InsertRowKeepsBooks DEF RequestStep
<1>2. ASSUME NEW w \in Workers, WorkerStep(w) PROVE BooksInv'
  BY <1>2, HandlerKeepsBooks DEF WorkerStep
<1>3. ASSUME NEW x \in Procs, CommonStep(x) \/ Crash(x) PROVE BooksInv'
  BY <1>3, HandlerKeepsBooks, DecisionKeepsBooks DEF CommonStep
<1>4. CASE ProviderStep
  BY <1>4, ProviderKeepsBooks
<1>5. CASE UNCHANGED vars
  <2>1. TypeOK'
    BY <1>5 DEF BooksInv, TypeOK, vars
  <2> QED BY <1>5, <2>1, QuietStepKeepsBooks DEF vars
<1> QED BY <1>1, <1>2, <1>3, <1>4, <1>5 DEF Next

\* BooksInv holds in every state, for any keys, submissions, workers and roles:
\* the purchases row and the ledger never disagree.
THEOREM BooksAlwaysHold == Spec => []BooksInv
BY InitHasBooks, NextKeepsBooks, PTL DEF Spec

\* Every variable keeps its type; in particular no path overdraws the wallet or
\* the pending account, which #reserve, settle and reverse debit.
THEOREM PurchaseTypes == Spec => []TypeOK
<1>1. BooksInv => TypeOK
  BY DEF BooksInv
<1> QED BY <1>1, BooksAlwaysHold, PTL

\* The status of a purchase's row is what the ledger holds under its keys, the
\* staff refund included, whatever snapshots the concurrent deciders held.
THEOREM RowsTellTheLedger == Spec => []RowTellsLedger
<1>1. BooksInv => RowTellsLedger
  BY DEF BooksInv
<1> QED BY <1>1, BooksAlwaysHold, PTL

-----------------------------------------------------------------------------
(* What is ordered and what is decided, where staff do not refund unasked.    *)

\* What no step takes back.
Stays ==
    /\ \A k \in Keys : row[k].status # "absent" =>
          row'[k].status # "absent" /\ row'[k].ref = row[k].ref
    /\ \A p \in References :
          /\ provider[p] = "delivered" => provider'[p] = "delivered"
          /\ Quiet(p) /\ Written(p) => Quiet(p)'
          /\ Over(p) => Over(p)'

\* The step is x's: the other processes are where they were.
Alone(x) ==
    \A y \in Procs \ {x} : /\ pc'[y] = pc[y] /\ role'[y] = role[y]
                           /\ about'[y] = about[y] /\ verdict'[y] = verdict[y]

\* The rows of the keys that have one stay, whoever decides.
LEMMA RowsStay ==
    ASSUME BooksInv, [Next]_vars
    PROVE  \A k \in Keys : row[k].status # "absent" =>
              row'[k].status # "absent" /\ row'[k].ref = row[k].ref
<1> USE RequestsAreProcs
<1> DEFINE Goal == \A k \in Keys : row[k].status # "absent" =>
                      row'[k].status # "absent" /\ row'[k].ref = row[k].ref
<1>0. TypeOK
  BY DEF BooksInv
<1>1. ASSUME NEW r \in Requests, InsertRow(r)
      PROVE  Goal
  BY <1>1, InsertRowCases
<1>2. ASSUME NEW x \in Procs, NEW st \in {"delivered", "reversed"},
             row' = [row EXCEPT ![about[x]].status = st]
      PROVE  Goal
  <2>1. about[x] \in Keys /\ st \in Statuses /\ st # "absent"
    BY <1>0 DEF TypeOK, Statuses
  <2>2. row'[about[x]].status = st /\ row'[about[x]].ref = row[about[x]].ref
    BY <1>0, <1>2, <2>1, RowMoves
  <2>3. \A j \in Keys : j # about[x] => row'[j] = row[j]
    BY <1>0, <1>2, <2>1, RowMoves
  <2> QED BY <2>1, <2>2, <2>3
<1>3. ASSUME UNCHANGED row
      PROVE  Goal
  BY <1>3
<1>4. ASSUME NEW x \in Procs, Settle(x) \/ Reverse(x)
      PROVE  Goal
  <2>1. UNCHANGED row \/ \E st \in {"delivered", "reversed"} :
                            row' = [row EXCEPT ![about[x]].status = st]
    BY <1>4, DecisionCases DEF Decides
  <2> QED BY <1>2, <1>3, <2>1
<1>5. ASSUME NEW r \in Requests, RequestStep(r), ~InsertRow(r)
      PROVE  UNCHANGED row
  BY <1>5 DEF RequestStep, Submit, Decline, Reserve, Dispatch, GiveUp, Answered
<1>6. ASSUME NEW w \in Workers, WorkerStep(w)
      PROVE  UNCHANGED row
  BY <1>6 DEF WorkerStep, Start, Ask
<1>7. ASSUME NEW x \in Procs, CommonStep(x) \/ Crash(x), ~(Settle(x) \/ Reverse(x))
      PROVE  UNCHANGED row
  BY <1>7 DEF CommonStep, Return, Crash
<1>8. ProviderStep => UNCHANGED row
  BY DEF ProviderStep, ProviderAccept, ProviderRefuse, ProviderDecide
<1> HIDE DEF Goal
<1>9. Goal
  BY <1>1, <1>3, <1>4, <1>5, <1>6, <1>7, <1>8 DEF Next, vars
<1> QED BY <1>9 DEF Goal

\* A step that orders nothing and is not the provider's.
LEMMA HandlerStays ==
    ASSUME OrderInv, NEW x \in Procs, UNCHANGED <<provider, bought>>,
           misread \subseteq misread', wire' = wire \/ wire' = Orphaned(x),
           \A r \in Requests : pc'[r] = "order" => pc[r] = "order",
           \A k \in Keys : row[k].status # "absent" =>
              row'[k].status # "absent" /\ row'[k].ref = row[k].ref
    PROVE  /\ Stays
           /\ OneSender' /\ BoughtIsTaken'
           /\ \A m \in wire' : Written(m.ref)'
           /\ \A p \in References : bought'[p] # 0 => Written(p)'
<1> USE PurchasesAssumption
<1>0. TypeOK /\ OneSender /\ BoughtIsTaken /\ RowIsFirst
  BY DEF OrderInv, BooksInv
<1>1. \A n \in wire' : \E m \in wire : n.ref = m.ref
  BY <1>0, OrphanedFrom
<1>2. \A m \in wire : m.ref \in References
  BY <1>0 DEF TypeOK
<1>3. \A p \in References : Quiet(p) => Quiet(p)'
  BY <1>1 DEF Quiet
<1>4. \A p \in References : Written(p) => Written(p)'
  BY DEF Written
<1>5. Stays
  BY <1>3, <1>4 DEF Stays, Over
<1>6. \A n, o \in wire' : n.ref = o.ref => n = o
  <2>1. CASE wire' = wire
    BY <1>0, <2>1 DEF OneSender
  <2>2. CASE wire' = Orphaned(x)
    <3> SUFFICES ASSUME NEW n \in wire', NEW o \in wire', n.ref = o.ref PROVE n = o
      OBVIOUS
    <3>1. PICK m \in wire : /\ n.ref = m.ref
                            /\ n = [m EXCEPT !.from = IF m.from = x THEN Nobody ELSE m.from]
      BY <1>0, <2>2, OrphanedFrom
    <3>2. PICK l \in wire : /\ o.ref = l.ref
                            /\ o = [l EXCEPT !.from = IF l.from = x THEN Nobody ELSE l.from]
      BY <1>0, <2>2, OrphanedFrom
    <3>3. m = l
      BY <1>0, <3>1, <3>2 DEF OneSender
    <3> QED BY <3>1, <3>2, <3>3
  <2> QED BY <2>1, <2>2
<1>7. OneSender'
  BY <1>0, <1>1, <1>6 DEF OneSender
<1>8. BoughtIsTaken'
  BY <1>0 DEF BoughtIsTaken
<1>9. \A n \in wire' : Written(n.ref)'
  BY <1>0, <1>1, <1>2, <1>4 DEF RowIsFirst
<1>10. \A p \in References : bought'[p] # 0 => Written(p)'
  BY <1>0, <1>4 DEF RowIsFirst
<1> QED BY <1>5, <1>7, <1>8, <1>9, <1>10

\* Only requests order, after a step of x that orders nothing.
LEMMA HandlerOrders ==
    ASSUME OrderInv, NEW x \in Procs, Alone(x), Stays,
           wire' = Orphaned(x) \/ (wire' = wire /\ pc[x] # "wait"),
           x \in Requests => /\ about'[x] = Key(x) /\ pc'[x] # "ask"
                             /\ Works(x)' => row'[Key(x)].ref = For[x],
           x \in Workers => /\ pc'[x] \notin {"reserve", "insert", "order", "wait", "answered"}
                            /\ role'[x] # "refund"
    PROVE  RequestsOrder'
<1> USE RequestsAreProcs, PurchasesAssumption
<1>0. TypeOK /\ RequestsOrder /\ RowIsFirst
  BY DEF OrderInv, BooksInv
<1>1. \A n \in wire' : n.from \in Requests =>
          n.from # x /\ pc[n.from] = "wait" /\ For[n.from] = n.ref
  <2>1. CASE wire' = wire /\ pc[x] # "wait"
    BY <1>0, <2>1 DEF RequestsOrder
  <2>2. CASE wire' = Orphaned(x)
    <3> SUFFICES ASSUME NEW n \in wire', n.from \in Requests
                 PROVE  n.from # x /\ pc[n.from] = "wait" /\ For[n.from] = n.ref
      OBVIOUS
    <3>1. PICK m \in wire : n.ref = m.ref /\ n.from = IF m.from = x THEN Nobody ELSE m.from
      BY <1>0, <2>2, OrphanedFrom
    <3> QED BY <1>0, <3>1 DEF RequestsOrder
  <2> QED BY <2>1, <2>2
<1>2. ASSUME NEW r \in Requests
      PROVE  about'[r] = Key(r) /\ pc'[r] # "ask" /\ (Works(r)' => row'[Key(r)].ref = For[r])
  <2>1. CASE r = x
    BY <2>1
  <2>2. CASE r # x
    <3>1. pc'[r] = pc[r] /\ about'[r] = about[r] /\ about[r] = Key(r) /\ Key(r) \in Keys
      BY <1>0, <2>2 DEF Alone, RequestsOrder, Key
    <3>2. Works(r)' => Works(r)
      BY <3>1 DEF Works
    <3>3. Works(r) => row[Key(r)].status # "absent" /\ row[Key(r)].ref = For[r]
      BY <1>0, <3>1 DEF RowIsFirst, RequestsOrder
    <3>4. Works(r)' => row'[Key(r)].ref = For[r]
      BY <3>1, <3>2, <3>3 DEF Stays
    <3> QED BY <1>0, <3>1, <3>4 DEF RequestsOrder
  <2> QED BY <2>1, <2>2
<1>3. \A n \in wire' : n.from \in Requests => pc'[n.from] = "wait" /\ For[n.from] = n.ref
  BY <1>1 DEF Alone
<1>4. \A w \in Workers : /\ pc'[w] \notin {"reserve", "insert", "order", "wait", "answered"}
                         /\ role'[w] # "refund"
  BY <1>0 DEF RequestsOrder, Alone
<1> QED BY <1>2, <1>3, <1>4 DEF RequestsOrder

\* The other processes' grounds stay good, so OrderInv needs looking at only for
\* the process that moved, if one did.
LEMMA OrderInvFromMover ==
    ASSUME OrderInv, BooksInv', NEW x, Alone(x), Stays,
           OneSender', BoughtIsTaken', RequestsOrder',
           \A m \in wire' : Written(m.ref)',
           \A p \in References : bought'[p] # 0 => Written(p)',
           x \in Procs => /\ Works(x)' => row'[about'[x]].status # "absent"
                          /\ OnAnAnswer(x)',
           \A p \in References : "reverse" \in posted'[p] => "reverse" \in posted[p] \/ Over(p),
           \A p \in References : "settle" \in posted'[p]
                                 => "settle" \in posted[p] \/ provider[p] = "delivered"
    PROVE  OrderInv'
<1> USE PurchasesAssumption
<1>0. /\ TypeOK /\ RowIsFirst /\ DecidesOnAnAnswer /\ OutcomeIsTheProviders
      /\ \A y \in Procs : about[y] \in Keys /\ Ref(y) \in References
  BY DEF OrderInv, BooksInv, TypeOK, Ref
<1>1. \A y \in Procs : y # x =>
          /\ pc'[y] = pc[y] /\ role'[y] = role[y] /\ about'[y] = about[y]
          /\ verdict'[y] = verdict[y]
  BY DEF Alone
<1>2. \A y \in Procs : y # x /\ Works(y) =>
          /\ row[about[y]].status # "absent" /\ row'[about[y]].status # "absent"
          /\ Ref(y)' = Ref(y)
  BY <1>0, <1>1 DEF RowIsFirst, Stays, Ref
<1>3. RowIsFirst'
  BY <1>1, <1>2 DEF RowIsFirst, Works
<1>4. ASSUME NEW y \in Procs, y # x
      PROVE  OnAnAnswer(y)'
  <2>1. CASE ~Works(y)
    BY <1>1, <1>4, <2>1 DEF OnAnAnswer, Works
  <2>2. CASE Works(y)
    <3> DEFINE p == Ref(y)
    <3>1. /\ pc'[y] = pc[y] /\ verdict'[y] = verdict[y] /\ Ref(y)' = p /\ p \in References
          /\ row[about[y]].status # "absent" /\ about[y] \in Keys
      BY <1>0, <1>1, <1>2, <1>4, <2>2
    <3>2. Written(p)
      BY <3>1 DEF OrderInv, BooksInv, RowIsHeld, Written, Ref
    <3>3. /\ provider[p] = "delivered" => provider'[p] = "delivered"
          /\ Quiet(p) => Quiet(p)'
          /\ Over(p) => Over(p)'
      BY <3>1, <3>2 DEF Stays
    <3>4. OnAnAnswer(y)
      BY <1>0 DEF DecidesOnAnAnswer
    <3>5. Over(Ref(y))' = Over(p)' /\ Quiet(Ref(y))' = Quiet(p)'
      BY <3>1 DEF Over, Quiet, Written
    <3> HIDE DEF p
    <3> QED BY <3>1, <3>3, <3>4, <3>5 DEF OnAnAnswer, p
  <2> QED BY <2>1, <2>2
<1>5. DecidesOnAnAnswer'
  BY <1>4 DEF DecidesOnAnAnswer
<1>6. OutcomeIsTheProviders'
  BY <1>0 DEF OutcomeIsTheProviders, Stays
<1> QED BY <1>3, <1>5, <1>6 DEF OrderInv

\* A handler that ends has nothing left to decide.
LEMMA FinishKeepsOrders ==
    ASSUME OrderInv, BooksInv', NEW x \in Procs, Finish(x),
           UNCHANGED <<provider, bought, misread>>,
           wire' = Orphaned(x) \/ (wire' = wire /\ pc[x] # "wait"), UNCHANGED <<row, posted>>
    PROVE  OrderInv'
<1> USE RequestsAreProcs, PurchasesAssumption
<1>0. TypeOK
  BY DEF OrderInv, BooksInv
<1>1. Alone(x) /\ pc'[x] \in {"idle", "done"} /\ role'[x] \in {"request", "none"}
  BY <1>0 DEF Alone, Finish, Goto, TypeOK
<1>2. x \in Requests => about'[x] = Key(x)
  BY <1>0 DEF Finish, Home, TypeOK
<1>3. \A r \in Requests : pc'[r] = "order" => pc[r] = "order"
  BY <1>1 DEF Alone
<1>4. /\ Stays /\ OneSender' /\ BoughtIsTaken'
      /\ \A m \in wire' : Written(m.ref)'
      /\ \A p \in References : bought'[p] # 0 => Written(p)'
  BY <1>3, HandlerStays
<1>5. ~Works(x)' /\ OnAnAnswer(x)'
  BY <1>1 DEF Works, OnAnAnswer
<1>6. RequestsOrder'
  BY <1>1, <1>2, <1>4, <1>5, HandlerOrders
<1> QED BY <1>1, <1>4, <1>5, <1>6, OrderInvFromMover

\* A step of x that moves x alone, on grounds it has.
LEMMA MoveKeepsOrders ==
    ASSUME OrderInv, BooksInv', NEW x \in Procs, Alone(x),
           UNCHANGED <<provider, bought, wire>>, misread \subseteq misread',
           pc[x] # "wait", pc'[x] # "order",
           x \in Requests => /\ about'[x] = Key(x) /\ pc'[x] # "ask"
                             /\ Works(x)' => row'[Key(x)].ref = For[x],
           x \in Workers => /\ pc'[x] \notin {"reserve", "insert", "wait", "answered"}
                            /\ role'[x] # "refund",
           \A k \in Keys : row[k].status # "absent" =>
              row'[k].status # "absent" /\ row'[k].ref = row[k].ref,
           Works(x)' => row'[about'[x]].status # "absent",
           Stays => OnAnAnswer(x)',
           \A p \in References : "reverse" \in posted'[p] => "reverse" \in posted[p] \/ Over(p),
           \A p \in References : "settle" \in posted'[p]
                                 => "settle" \in posted[p] \/ provider[p] = "delivered"
    PROVE  OrderInv'
<1> USE RequestsAreProcs
<1>1. \A r \in Requests : pc'[r] = "order" => pc[r] = "order"
  BY DEF Alone
<1>2. /\ Stays /\ OneSender' /\ BoughtIsTaken'
      /\ \A m \in wire' : Written(m.ref)'
      /\ \A p \in References : bought'[p] # 0 => Written(p)'
  BY <1>1, HandlerStays
<1>3. RequestsOrder'
  BY <1>2, HandlerOrders
<1> QED BY <1>2, <1>3, OrderInvFromMover

\* The request's steps up to its row.
LEMMA RequestKeepsOrders ==
    ASSUME OrderInv, BooksInv', NEW r \in Requests, Submit(r) \/ Decline(r) \/ Reserve(r)
    PROVE  OrderInv'
<1> USE RequestsAreProcs, PurchasesAssumption
<1>0. BooksInv /\ TypeOK /\ RequestsOrder
  BY DEF OrderInv, BooksInv
<1>1. pc[r] # "wait" /\ UNCHANGED <<row, world>>
  BY DEF Submit, Decline, Reserve
<1>2. CASE Finish(r) /\ UNCHANGED ledger
  BY <1>1, <1>2, FinishKeepsOrders DEF ledger, world
<1>3. CASE /\ pc' = [pc EXCEPT ![r] = "reserve"] \/ pc' = [pc EXCEPT ![r] = "insert"]
           /\ UNCHANGED local
           /\ \A p \in References : posted'[p] \subseteq posted[p] \cup {"reserve"}
  <2>1. Alone(r) /\ pc'[r] \in {"reserve", "insert"}
    BY <1>0, <1>3 DEF Alone, TypeOK, local
  <2>2. about'[r] = Key(r)
    BY <1>0, <1>3 DEF RequestsOrder, local
  <2>3. ~Works(r)' /\ OnAnAnswer(r)'
    BY <2>1 DEF Works, OnAnAnswer
  <2>4. r \notin Workers
    OBVIOUS
  <2>5. \A p \in References : /\ "reverse" \in posted'[p] => "reverse" \in posted[p]
                              /\ "settle" \in posted'[p] => "settle" \in posted[p]
    BY <1>3
  <2> QED BY <1>1, <2>1, <2>2, <2>3, <2>4, <2>5, MoveKeepsOrders DEF world
<1>4. Submit(r) => \/ Finish(r) /\ UNCHANGED ledger
                   \/ pc' = [pc EXCEPT ![r] = "reserve"] /\ UNCHANGED <<local, ledger>>
  BY DEF Submit, Goto
<1>5. Decline(r) => Finish(r) /\ UNCHANGED ledger
  BY DEF Decline
<1>6. Reserve(r) => \/ Finish(r) /\ UNCHANGED ledger
                    \/ /\ pc' = [pc EXCEPT ![r] = "insert"] /\ UNCHANGED local
                       /\ posted' = posted \/ posted' = [posted EXCEPT ![For[r]] = {"reserve"}]
  BY <1>0, ReserveCases DEF ledger
<1>7. posted' = posted \/ posted' = [posted EXCEPT ![For[r]] = {"reserve"}]
        => \A p \in References : posted'[p] \subseteq posted[p] \cup {"reserve"}
  BY <1>0 DEF TypeOK
<1> QED BY <1>2, <1>3, <1>4, <1>5, <1>6, <1>7 DEF ledger

\* The row: its reference had no order, no sender and nothing at the provider.
LEMMA InsertRowKeepsOrders ==
    ASSUME OrderInv, BooksInv', NEW r \in Requests, InsertRow(r)
    PROVE  OrderInv'
<1> USE RequestsAreProcs, PurchasesAssumption
<1>0. BooksInv /\ TypeOK /\ OneSender /\ BoughtIsTaken /\ RowIsFirst /\ RequestsOrder
  BY DEF OrderInv, BooksInv
<1> DEFINE p == For[r]
           k == Key(r)
<1>1. p \in References /\ k \in Keys /\ KeyOf[p] = k /\ pc[r] = "insert"
  BY DEF Key, InsertRow
<1>2. CASE Finish(r) /\ UNCHANGED <<row, ledger, world>>
  BY <1>1, <1>2, FinishKeepsOrders DEF ledger, world
<1>3. CASE /\ row[k].status = "absent"
           /\ row'[k] = [status |-> "reserved", ref |-> p, amount |-> AmountOf[r]]
           /\ \A j \in Keys : j # k => row'[j] = row[j]
           /\ pc' = [pc EXCEPT ![r] = "order"]
           /\ UNCHANGED <<ledger, world, local>>
  <2>1. row'[k].status = "reserved" /\ row'[k].ref = p
    BY <1>3
  <2>2. Alone(r) /\ pc'[r] = "order" /\ about'[r] = k
    BY <1>0, <1>3 DEF Alone, TypeOK, local, RequestsOrder
  <2>3. ~Written(p) /\ Written(p)'
    BY <1>1, <1>3, <2>1 DEF Written
  <2>4. /\ bought[p] = 0
        /\ \A m \in wire : m.ref # p
        /\ \A s \in Requests : pc[s] = "order" => For[s] # p
    <3>1. \A s \in Requests : pc[s] = "order" => Written(For[s])
      BY <1>0 DEF RowIsFirst, Works, RequestsOrder, Written, Key
    <3> QED BY <1>0, <1>1, <2>3, <3>1 DEF RowIsFirst
  <2>5. \A q \in References : Written(q) => Written(q)'
    BY <1>3, <1>1 DEF Written
  <2>6. \A s \in Requests : pc'[s] = "order" => s = r \/ (s # r /\ pc[s] = "order")
    BY <2>2 DEF Alone
  <2>7. Stays
    <3>1. \A q \in References : Quiet(q) /\ Written(q) => Quiet(q)'
      BY <1>3, <2>3, <2>6 DEF Quiet, world
    <3>2. \A q \in References : Over(q) => Over(q)'
      BY <1>3, <2>5, <3>1 DEF Over, world
    <3> QED BY <1>3, <3>1, <3>2 DEF Stays, world
  <2>8. OneSender' /\ BoughtIsTaken'
    BY <1>0, <1>3, <2>4, <2>6 DEF OneSender, BoughtIsTaken, world
  <2>9. RequestsOrder'
    BY <1>0, <1>1, <1>3, <2>1, <2>2, <2>7, HandlerOrders DEF world
  <2>10. /\ \A m \in wire' : Written(m.ref)'
         /\ \A q \in References : bought'[q] # 0 => Written(q)'
    BY <1>0, <1>3, <2>5 DEF RowIsFirst, TypeOK, world
  <2>11. row'[about'[r]].status # "absent" /\ OnAnAnswer(r)'
    BY <2>1, <2>2 DEF OnAnAnswer
  <2> QED BY <1>3, <2>2, <2>7, <2>8, <2>9, <2>10, <2>11, OrderInvFromMover DEF ledger
<1> QED BY <1>0, <1>2, <1>3, InsertRowCases

\* The order leaves: its sender was the only one.
LEMMA DispatchKeepsOrders ==
    ASSUME OrderInv, BooksInv', NEW r \in Requests, Dispatch(r)
    PROVE  OrderInv'
<1> USE RequestsAreProcs, PurchasesAssumption
<1> DEFINE m == [from |-> r, ref |-> For[r]]
<1>0. BooksInv /\ TypeOK /\ OneSender /\ BoughtIsTaken /\ RowIsFirst /\ RequestsOrder
  BY DEF OrderInv, BooksInv
<1>1. r \notin Workers /\ For[r] \in References /\ Key(r) \in Keys /\ Key(r) = KeyOf[For[r]]
  BY DEF Key
<1>2. /\ pc[r] = "order" /\ pc' = [pc EXCEPT ![r] = "wait"] /\ wire' = wire \cup {m}
      /\ m.from = r /\ m.ref = For[r]
      /\ UNCHANGED <<row, ledger, provider, bought, misread, role, about, verdict>>
  BY DEF Dispatch, Goto, local
<1> HIDE DEF m
<1>3. Alone(r) /\ pc'[r] = "wait"
  BY <1>0, <1>2 DEF Alone, TypeOK
<1>4. \A s \in Requests : pc'[s] = "order" => s # r /\ pc[s] = "order"
  BY <1>3 DEF Alone
<1>5. \A q \in References : (Quiet(q) => q # m.ref /\ Quiet(q)') /\ Written(q)' = Written(q)
  BY <1>2, <1>4 DEF Quiet, Written
<1>6. Stays
  BY <1>2, <1>5 DEF Stays, Over
<1>7. OneSender' /\ BoughtIsTaken'
  <2>1. \A n \in wire : n.ref # m.ref
    BY <1>0, <1>2 DEF OneSender
  <2>2. bought[m.ref] = 0
    BY <1>0, <1>2 DEF OneSender
  <2>3. \A s \in Requests : pc'[s] = "order" => For[s] # m.ref
    BY <1>0, <1>2, <1>4 DEF OneSender
  <2>4. OneSender'
    BY <1>0, <1>2, <1>4, <2>1, <2>2, <2>3 DEF OneSender
  <2> QED BY <1>0, <1>2, <2>4 DEF BoughtIsTaken
<1>8. RequestsOrder'
  <2>1. \A n \in wire : n.from # r
    BY <1>0, <1>2 DEF RequestsOrder
  <2>2. \A n \in wire' : n.from \in Requests => pc'[n.from] = "wait" /\ For[n.from] = n.ref
    BY <1>0, <1>2, <1>3, <2>1 DEF RequestsOrder, Alone
  <2>3. \A s \in Requests : pc'[s] # "ask" /\ (Works(s)' => Works(s))
    BY <1>0, <1>2, <1>3 DEF RequestsOrder, Works, Alone
  <2>4. \A w \in Workers : w # r
    BY <1>1
  <2> QED BY <1>0, <1>2, <1>3, <2>2, <2>3, <2>4 DEF RequestsOrder, Alone
<1>9. Written(m.ref) /\ row[Key(r)].status # "absent"
  BY <1>0, <1>1, <1>2 DEF RowIsFirst, Works, RequestsOrder, Written
<1>10. /\ \A n \in wire' : Written(n.ref)'
       /\ \A q \in References : bought'[q] # 0 => Written(q)'
       /\ row'[about'[r]].status # "absent"
  BY <1>0, <1>2, <1>9 DEF RowIsFirst, RequestsOrder, Written
<1>11. OnAnAnswer(r)'
  BY <1>3 DEF OnAnAnswer
<1> QED BY <1>2, <1>3, <1>6, <1>7, <1>8, <1>10, <1>11, OrderInvFromMover DEF ledger

\* The decisions: each is taken on the grounds OnAnAnswer gives its process.
LEMMA DecisionKeepsOrders ==
    ASSUME OrderInv, BooksInv', [Next]_vars, NEW x \in Procs,
           (x \in Requests /\ Answered(x)) \/ Settle(x) \/ Reverse(x)
    PROVE  OrderInv'
<1> USE RequestsAreProcs, PurchasesAssumption
<1> DEFINE p == Ref(x)
<1>0. /\ BooksInv /\ TypeOK /\ RowIsFirst /\ RequestsOrder /\ OnAnAnswer(x)
      /\ p \in References /\ about[x] \in Keys
      /\ \A k \in Keys : row[k].status # "absent" =>
            row'[k].status # "absent" /\ row'[k].ref = row[k].ref
  BY RowsStay DEF OrderInv, BooksInv, DecidesOnAnAnswer, TypeOK, Ref
<1>1. pc[x] \in {"answered", "settle", "reverse"} /\ Works(x) /\ Written(p)
  <2>1. pc[x] \in {"answered", "settle", "reverse"}
    BY DEF Answered, Settle, Reverse
  <2>2. row[about[x]].status # "absent" /\ Works(x)
    BY <1>0, <2>1 DEF RowIsFirst, Works
  <2> QED BY <1>0, <2>1, <2>2 DEF BooksInv, RowIsHeld, Written, Ref
<1>2. row[about[x]].status # "absent"
  BY <1>0, <1>1 DEF RowIsFirst
\* What the cases below have in common.
<1>3. ASSUME pc' = [pc EXCEPT ![x] = pc'[x]], UNCHANGED <<world, local>>,
             pc'[x] \in {"settle", "reverse", "finish"},
             pc'[x] = "settle" => provider[p] = "delivered",
             pc'[x] = "reverse" => Over(p),
             \A q \in References : "reverse" \in posted'[q] => "reverse" \in posted[q] \/ Over(q),
             \A q \in References : "settle" \in posted'[q]
                                   => "settle" \in posted[q] \/ provider[q] = "delivered"
      PROVE  OrderInv'
  <2>1. Alone(x) /\ about'[x] = about[x] /\ row'[about[x]].ref = p
    BY <1>0, <1>2, <1>3 DEF Alone, TypeOK, local, Ref
  <2>2. x \in Requests => about'[x] = Key(x) /\ row'[Key(x)].ref = For[x]
    BY <1>0, <1>1, <2>1 DEF RequestsOrder, Ref
  <2>3. x \in Workers => role'[x] # "refund"
    BY <1>0, <1>3 DEF RequestsOrder, local
  <2>4. Stays => OnAnAnswer(x)'
    <3>0. PICK q \in References : q = p
      BY <1>0
    <3>1. Stays => /\ Over(q) => Over(q)'
                   /\ provider[q] = "delivered" => provider'[q] = "delivered"
      BY DEF Stays
    <3>2. Ref(x)' = q
      BY <2>1, <3>0 DEF Ref
    <3>3. Over(Ref(x))' = Over(q)'
      BY <3>2 DEF Over, Quiet, Written
    <3>4. /\ pc'[x] = "settle" => provider[q] = "delivered"
          /\ pc'[x] = "reverse" => Over(q)
      BY <1>3, <3>0
    <3> QED BY <1>3, <3>1, <3>2, <3>3, <3>4 DEF OnAnAnswer
  <2> QED BY <1>0, <1>1, <1>2, <1>3, <2>1, <2>2, <2>3, <2>4, MoveKeepsOrders
          DEF world
<1>4. CASE x \in Requests /\ Answered(x)
  <2>1. pc' = [pc EXCEPT ![x] = AfterWord(verdict[x])] /\ pc[x] = "answered"
        /\ UNCHANGED <<row, ledger, world, local>>
    BY <1>4 DEF Answered, Goto
  <2>2. pc'[x] = AfterWord(verdict[x])
    BY <1>0, <2>1 DEF TypeOK
  <2>3. /\ pc'[x] = "settle" => provider[p] = "delivered"
        /\ pc'[x] = "reverse" => Over(p)
    BY <1>0, <2>1, <2>2 DEF AfterWord, OnAnAnswer
  <2> QED BY <1>3, <2>1, <2>2, <2>3, AfterWordType DEF ledger
<1>5. CASE Settle(x) \/ Reverse(x)
  <2>1. /\ pc' = [pc EXCEPT ![x] = "finish"] /\ UNCHANGED <<world, local>>
        /\ \/ posted' = posted
           \/ pc[x] = "settle" /\ posted' = [posted EXCEPT ![p] = {"reserve", "settle"}]
           \/ pc[x] = "reverse" /\ posted' = [posted EXCEPT ![p] = {"reserve", "reverse"}]
    BY <1>0, <1>5, DecisionCases DEF Decides, ledger, Settle, Reverse
  <2>2. pc'[x] = "finish"
    BY <1>0, <2>1 DEF TypeOK
  <2>3. /\ pc[x] = "settle" => provider[p] = "delivered"
        /\ pc[x] = "reverse" => Over(p)
    BY <1>0 DEF OnAnAnswer
  <2>4. \A q \in References : /\ q # p => posted'[q] = posted[q]
                              /\ "reverse" \in posted'[p] => "reverse" \in posted[p] \/ Over(p)
                              /\ "settle" \in posted'[p]
                                    => "settle" \in posted[p] \/ provider[p] = "delivered"
    BY <1>0, <2>1, <2>3 DEF TypeOK
  <2> QED BY <1>3, <2>1, <2>2, <2>4
<1> QED BY <1>4, <1>5

\* The steps of the sweep and the screen up to their decision.
LEMMA WorkerKeepsOrders ==
    ASSUME OrderInv, BooksInv', "refund" \notin Roles, NEW x \in Workers, WorkerStep(x)
    PROVE  OrderInv'
<1> USE RequestsAreProcs, PurchasesAssumption
<1>0. /\ BooksInv /\ TypeOK /\ OneSender /\ BoughtIsTaken /\ RowIsFirst /\ RequestsOrder
      /\ OnAnAnswer(x) /\ x \notin Requests /\ Ref(x) \in References
  BY DEF OrderInv, BooksInv, DecidesOnAnAnswer, TypeOK, Ref
<1>1. ASSUME NEW k \in Keys, NEW j \in Roles, Start(x, k, j)
      PROVE  OrderInv'
  <2>1. /\ pc[x] = "idle" /\ row[k].status = "reserved" /\ Aged(k) /\ j # "refund"
        /\ pc' = [pc EXCEPT ![x] = "ask"] /\ role' = [role EXCEPT ![x] = j]
        /\ about' = [about EXCEPT ![x] = k]
        /\ UNCHANGED <<row, ledger, world, verdict>>
    BY <1>1 DEF Start, Goto
  <2>2. Alone(x) /\ pc'[x] = "ask" /\ role'[x] = j /\ about'[x] = k
    BY <1>0, <2>1 DEF Alone, TypeOK
  <2>3. KeyOf[row[k].ref] = k
    BY <1>0, <2>1 DEF BooksInv, RowIsHeld
  <2>4. Quiet(row[k].ref)
    BY <1>0, <2>1, <2>3 DEF Aged, Quiet, Key
  <2>5. Ref(x)' = row[k].ref
    BY <2>1, <2>2 DEF Ref
  <2>6. Quiet(Ref(x))'
    <3> DEFINE q == row[k].ref
    <3>1. \A r \in Requests : pc'[r] = "order" => pc[r] = "order"
      BY <2>2 DEF Alone
    <3>2. \A r \in Requests : pc'[r] = "order" => For[r] # q
      BY <2>4, <3>1 DEF Quiet
    <3>3. \A m \in wire' : m.ref # q
      BY <2>1, <2>4 DEF Quiet, world
    <3> HIDE DEF q
    <3>4. Ref(x)' = q
      BY <2>5 DEF q
    <3> QED BY <3>2, <3>3, <3>4 DEF Quiet
  <2>7. OnAnAnswer(x)'
    BY <2>2, <2>6 DEF OnAnAnswer
  <2> QED BY <1>0, <2>1, <2>2, <2>7, MoveKeepsOrders DEF ledger, world
<1>2. CASE Ask(x)
  <2> DEFINE p == Ref(x)
  <2>0. PICK v \in Words(p) :
           /\ verdict' = [verdict EXCEPT ![x] = v]
           /\ Misread(p, provider[p], v)
           /\ pc' = [pc EXCEPT ![x] = AfterStatus(role[x], v)]
    BY <1>2 DEF Ask, Goto
  <2>1. /\ pc[x] = "ask" /\ role[x] # "refund"
        /\ UNCHANGED <<row, ledger, provider, bought, wire, role, about>>
    BY <1>0, <1>2 DEF Ask, RequestsOrder
  <2>2. /\ Alone(x) /\ pc'[x] = AfterWord(v) /\ about'[x] = about[x]
        /\ pc'[x] \in {"reverse", "settle", "finish"}
    <3>1. AfterStatus(role[x], v) = AfterWord(v)
      BY <2>1 DEF AfterStatus
    <3>2. Alone(x) /\ pc'[x] = AfterStatus(role[x], v)
      BY <1>0, <2>0, <2>1 DEF Alone, TypeOK
    <3> QED BY <2>1, <3>1, <3>2, AfterWordType
  <2>3. row[about[x]].status # "absent" /\ about[x] \in Keys
    BY <1>0, <2>1 DEF RowIsFirst, Works, TypeOK
  <2>4. Written(p) /\ Quiet(p)
    BY <1>0, <2>1, <2>3 DEF BooksInv, RowIsHeld, Written, Ref, OnAnAnswer
  <2>5. /\ misread \subseteq misread'
        /\ v = "failed" => provider[p] \in {"none", "failed"} \/ p \in misread'
        /\ v = "delivered" => provider[p] = "delivered"
        /\ v # "rejected"
    <3>1. provider[p] \in {"none", "pending", "delivered", "failed"}
      BY <1>0 DEF TypeOK
    <3> HIDE DEF p
    <3> QED BY <2>0, <3>1 DEF Words, Misread
  <2>6. /\ pc'[x] = "reverse" => Over(p) \/ p \in misread'
        /\ pc'[x] = "settle" => provider[p] = "delivered"
    BY <2>2, <2>4, <2>5 DEF AfterWord, Over
  <2>7. Stays => OnAnAnswer(x)'
    <3>0. PICK q \in References : q = p
      BY <1>0
    <3>1. Stays => /\ Over(q) => Over(q)'
                   /\ provider[q] = "delivered" => provider'[q] = "delivered"
      BY DEF Stays
    <3>2. Ref(x)' = q
      BY <2>1, <2>2, <3>0 DEF Ref
    <3>3. Over(Ref(x))' = Over(q)'
      BY <3>2 DEF Over, Quiet, Written
    <3>4. /\ pc'[x] = "settle" => provider[q] = "delivered"
          /\ pc'[x] = "reverse" => Over(q) \/ q \in misread'
      BY <2>6, <3>0
    <3>5. q \in misread' => Over(q)'
      <4>1. Written(q)'
        BY <2>1, <2>4, <3>0 DEF Written
      <4> QED BY <4>1 DEF Over
    <3> QED BY <2>2, <3>1, <3>2, <3>3, <3>4, <3>5 DEF OnAnAnswer
  <2> QED BY <1>0, <2>1, <2>2, <2>3, <2>5, <2>7, MoveKeepsOrders DEF ledger, RequestsOrder
<1> QED BY <1>1, <1>2 DEF WorkerStep

\* The provider: it takes one order per reference, and its answer reaches the
\* request that waits for it.
LEMMA ProviderKeepsOrders ==
    ASSUME OrderInv, BooksInv', ProviderStep
    PROVE  OrderInv'
<1> USE RequestsAreProcs, PurchasesAssumption
<1>0. /\ BooksInv /\ TypeOK /\ OneSender /\ BoughtIsTaken /\ RowIsFirst /\ RequestsOrder
      /\ DecidesOnAnAnswer
  BY DEF OrderInv, BooksInv
\* The message m is handled: refused, or taken with the word v.
<1>1. ASSUME NEW m \in wire, NEW v \in {"pending", "delivered", "failed", "rejected"},
             NEW state \in {"pending", "delivered", "failed"},
             Tell(m, v), wire' = wire \ {m}, UNCHANGED <<row, ledger, role, about>>,
             IF v = "rejected" THEN UNCHANGED <<provider, bought, misread>>
             ELSE /\ provider' = [provider EXCEPT ![m.ref] = state]
                  /\ bought' = [bought EXCEPT ![m.ref] = @ + 1]
                  /\ v \in {state, "failed"} /\ Misread(m.ref, state, v)
      PROVE  OrderInv'
  <2> DEFINE p == m.ref
  <2>1. /\ p \in References /\ bought[p] = 0 /\ provider[p] = "none" /\ Written(p)
        /\ m.from \in Requests \cup {Nobody}
        /\ \A n \in wire' : n \in wire /\ n.ref # p
        /\ \A r \in Requests : pc[r] = "order" => For[r] # p
    BY <1>0, <1>1 DEF TypeOK, OneSender, BoughtIsTaken, RowIsFirst
  <2>2. /\ provider'[p] = (IF v = "rejected" THEN "none" ELSE state)
        /\ bought'[p] = (IF v = "rejected" THEN 0 ELSE 1)
        /\ \A q \in References : q # p => provider'[q] = provider[q] /\ bought'[q] = bought[q]
    BY <1>0, <1>1, <2>1 DEF TypeOK
  <2>3. /\ \A y \in Procs : y # m.from => pc'[y] = pc[y] /\ verdict'[y] = verdict[y]
        /\ m.from \in Requests => pc'[m.from] = "answered" /\ verdict'[m.from] = v
    BY <1>0, <1>1, TellTypes
  <2>4. \A r \in Requests : pc'[r] = "order" => pc[r] = "order"
    BY <2>3
  <2>5. Quiet(p)'
    BY <2>1, <2>4 DEF Quiet
  <2>6. \A q \in References : (Quiet(q) => Quiet(q)') /\ (Written(q)' = Written(q))
    BY <1>1, <2>1, <2>4 DEF Quiet, Written
  <2>7. ~Quiet(p)
    BY <1>1 DEF Quiet
  <2>0. /\ misread \subseteq misread'
        /\ v = "failed" => state = "failed" \/ p \in misread'
        /\ v = "delivered" => state = "delivered"
    BY <1>1 DEF Misread
  <2>8. Stays
    BY <1>1, <2>0, <2>1, <2>2, <2>6, <2>7 DEF Stays, Over
  <2>9. OneSender'
    BY <1>0, <2>1, <2>2, <2>4 DEF OneSender, TypeOK
  <2>10. BoughtIsTaken'
    BY <1>0, <2>2 DEF BoughtIsTaken
  <2>11. m.from \in Requests => /\ pc[m.from] = "wait" /\ For[m.from] = p
                                /\ about[m.from] = Key(m.from)
                                /\ row[Key(m.from)].ref = p /\ Ref(m.from) = p
    BY <1>0, <1>1 DEF RequestsOrder, Works, Ref
  <2>12. RequestsOrder'
    <3>1. \A n \in wire' : n.from \in Requests => n.from # m.from
      BY <1>0, <1>1, <2>1 DEF RequestsOrder
    <3>2. \A r \in Requests : Works(r)' => Works(r)
      BY <2>3, <2>11 DEF Works
    <3>3. \A w \in Workers : w # m.from
      BY <2>1 DEF Procs
    <3> QED BY <1>0, <1>1, <2>1, <2>3, <3>1, <3>2, <3>3 DEF RequestsOrder
  <2>13. /\ \A n \in wire' : Written(n.ref)'
         /\ \A q \in References : bought'[q] # 0 => Written(q)'
    BY <1>0, <2>1, <2>2, <2>6 DEF RowIsFirst, TypeOK
  <2>14. CASE m.from = Nobody
    <3>1. Alone(Nobody) /\ Nobody \notin Procs
      BY <1>1, <2>3, <2>14 DEF Alone
    <3> QED BY <1>1, <2>8, <2>9, <2>10, <2>12, <2>13, <3>1, OrderInvFromMover DEF ledger
  <2>15. CASE m.from \in Requests
    <3> DEFINE x == m.from
    <3>1. Alone(x)
      BY <1>1, <2>3 DEF Alone
    <3>2. Ref(x)' = p /\ row'[about'[x]].status # "absent"
      BY <1>0, <1>1, <2>11, <2>15 DEF Ref, RowIsFirst, Works
    <3>3. v \in {"rejected", "failed"} => Over(p)'
      BY <2>0, <2>1, <2>2, <2>5, <2>6 DEF Over
    <3>4. Over(Ref(x))' = Over(p)'
      BY <3>2 DEF Over, Quiet, Written
    <3>5. OnAnAnswer(x)'
      <4> HIDE DEF p, x
      <4>1. pc'[x] = "answered" /\ verdict'[x] = v
        BY <2>3, <2>15 DEF x
      <4> QED BY <2>0, <2>2, <3>2, <3>3, <3>4, <4>1 DEF OnAnAnswer
    <3> QED BY <1>1, <2>8, <2>9, <2>10, <2>12, <2>13, <2>15, <3>1, <3>2, <3>5, OrderInvFromMover
            DEF ledger
  <2> QED BY <2>1, <2>14, <2>15
<1>2. ASSUME NEW m \in wire, ProviderAccept(m)
      PROVE  OrderInv'
  <2>1. PICK state \in {"pending", "delivered", "failed"},
              v \in {"pending", "delivered", "failed"} :
           /\ v \in {state, "failed"} /\ provider' = [provider EXCEPT ![m.ref] = state]
           /\ Tell(m, v) /\ Misread(m.ref, state, v)
    BY <1>2 DEF ProviderAccept
  <2>2. v # "rejected" /\ v \in {"pending", "delivered", "failed", "rejected"}
    OBVIOUS
  <2> QED BY <1>1, <1>2, <2>1, <2>2 DEF ProviderAccept
<1>3. ASSUME NEW m \in wire, ProviderRefuse(m)
      PROVE  OrderInv'
  BY <1>1, <1>3 DEF ProviderRefuse
<1>4. ASSUME NEW p \in References, ProviderDecide(p)
      PROVE  OrderInv'
  <2>1. PICK v \in {"delivered", "failed"} : provider' = [provider EXCEPT ![p] = v]
    BY <1>4 DEF ProviderDecide
  <2>2. /\ provider[p] = "pending"
        /\ UNCHANGED <<row, ledger, bought, misread, wire, pc, role, about, verdict>>
    BY <1>4 DEF ProviderDecide, local
  <2>3. provider'[p] = v /\ \A q \in References : q # p => provider'[q] = provider[q]
    BY <1>0, <2>1 DEF TypeOK
  <2>4. /\ Alone(Nobody) /\ Nobody \notin Procs
        /\ \A q \in References : Quiet(q)' = Quiet(q) /\ Written(q)' = Written(q)
    BY <2>2 DEF Alone, Quiet, Written
  <2>5. Stays
    BY <2>2, <2>3, <2>4 DEF Stays, Over
  <2>6. OneSender' /\ BoughtIsTaken'
    BY <1>0, <2>2, <2>3 DEF OneSender, BoughtIsTaken
  <2>7. RequestsOrder'
    BY <1>0, <2>2 DEF RequestsOrder, Works
  <2>8. /\ \A m \in wire' : Written(m.ref)'
        /\ \A q \in References : bought'[q] # 0 => Written(q)'
    BY <1>0, <2>2 DEF RowIsFirst, Written
  <2> QED BY <2>2, <2>4, <2>5, <2>6, <2>7, <2>8, OrderInvFromMover DEF ledger
<1> QED BY <1>2, <1>3, <1>4 DEF ProviderStep

\* Before the first purchase nothing is at the provider.
LEMMA InitHasOrders == Init => OrderInv
<1> SUFFICES ASSUME Init PROVE OrderInv
  OBVIOUS
<1> USE RequestsAreProcs, PurchasesAssumption
<1>1. wire = {} /\ \A p \in References : posted[p] = {} /\ provider[p] = "none" /\ bought[p] = 0
  BY DEF Init
<1>2. \A x \in Procs : pc[x] = "idle" /\ role[x] \in {"request", "none"}
  BY DEF Init
<1>3. \A r \in Requests : about[r] = Key(r)
  BY DEF Init, Home
<1> QED BY <1>1, <1>2, <1>3, InitHasBooks
        DEF OrderInv, OneSender, BoughtIsTaken, RowIsFirst, Works, RequestsOrder,
            DecidesOnAnAnswer, OnAnAnswer, OutcomeIsTheProviders

\* Every step keeps OrderInv while staff do not refund unasked.
LEMMA NextKeepsOrders ==
    ASSUME "refund" \notin Roles
    PROVE  OrderInv /\ [Next]_vars => OrderInv'
<1> SUFFICES ASSUME OrderInv, [Next]_vars PROVE OrderInv'
  OBVIOUS
<1> USE RequestsAreProcs
<1>0. BooksInv'
  BY NextKeepsBooks DEF OrderInv
<1>1. ASSUME NEW x \in Procs, (x \in Requests /\ GiveUp(x)) \/ Crash(x) \/ Return(x)
      PROVE  OrderInv'
  <2>1. /\ Finish(x) /\ UNCHANGED <<row, posted, provider, bought, misread>>
        /\ wire' = Orphaned(x) \/ (wire' = wire /\ pc[x] # "wait")
    BY <1>1 DEF GiveUp, Crash, Return, ledger, world
  <2> QED BY <1>0, <2>1, FinishKeepsOrders
<1>2. ASSUME NEW r \in Requests, RequestStep(r) PROVE OrderInv'
  BY <1>0, <1>1, <1>2, RequestKeepsOrders, InsertRowKeepsOrders, DispatchKeepsOrders,
     DecisionKeepsOrders DEF RequestStep
<1>3. ASSUME NEW w \in Workers, WorkerStep(w) PROVE OrderInv'
  BY <1>0, <1>3, WorkerKeepsOrders
<1>4. ASSUME NEW x \in Procs, CommonStep(x) \/ Crash(x) PROVE OrderInv'
  BY <1>0, <1>1, <1>4, DecisionKeepsOrders DEF CommonStep
<1>5. CASE ProviderStep
  BY <1>0, <1>5, ProviderKeepsOrders
<1>6. CASE UNCHANGED vars
  <2>1. UNCHANGED <<row, posted, provider, bought, misread, wire, pc, role, about, verdict>>
    BY <1>6 DEF vars
  <2> QED BY <1>0, <2>1
          DEF OrderInv, OneSender, BoughtIsTaken, RowIsFirst, Works, RequestsOrder,
              DecidesOnAnAnswer, OnAnAnswer, OutcomeIsTheProviders, Over, Quiet, Written, Ref
<1> QED BY <1>2, <1>3, <1>4, <1>5, <1>6 DEF Next

\* OrderInv holds in every state of a deployment where staff do not refund on a
\* provider that is silent.
LEMMA OrdersAlwaysHold ==
    ASSUME "refund" \notin Roles
    PROVE  Spec => []OrderInv
<1>1. Init => OrderInv
  BY InitHasOrders
<1>2. OrderInv /\ [Next]_vars => OrderInv'
  BY NextKeepsOrders
<1> QED BY <1>1, <1>2, PTL DEF Spec

\* A second eSIM or number is never bought: however often the form is submitted
\* with one key, whoever dies and however late an order arrives, the provider,
\* which does not de-duplicate, takes one order per reference.
THEOREM NeverBoughtTwice ==
    ASSUME "refund" \notin Roles
    PROVE  Spec => []BoughtOnce
<1>1. OrderInv => BoughtOnce
  BY DEF OrderInv, BoughtIsTaken, BoughtOnce
<1> QED BY <1>1, OrdersAlwaysHold, PTL

\* A purchase given back was not delivered and never will be, or was given back
\* on an answer the adapter read as "failed"; and one recorded as delivered was.
\* It holds in every interleaving of the request, the sweep and the recovery
\* screen, where staff do not refund on a silent provider.
THEOREM DeliveredXorReturned ==
    ASSUME "refund" \notin Roles
    PROVE  Spec => []DeliveredOrReturned
<1>1. OrderInv => DeliveredOrReturned
  BY DEF OrderInv, OutcomeIsTheProviders, Over, DeliveredOrReturned
<1> QED BY <1>1, OrdersAlwaysHold, PTL

-----------------------------------------------------------------------------
(* The purchase flow implements Hold, where submissions of one purchase agree. *)

\* The steps that leave the entries, the rows and so the holds alone.
LEMMA OtherStepsPostNothing ==
    ASSUME [Next]_vars,
           \A r \in Requests : ~Reserve(r) /\ ~InsertRow(r),
           \A x \in Procs : ~Settle(x) /\ ~Reverse(x)
    PROVE  UNCHANGED <<row, ledger>>
<1>1. ASSUME NEW r \in Requests, RequestStep(r)
      PROVE  UNCHANGED <<row, ledger>>
  BY <1>1 DEF RequestStep, Submit, Decline, Dispatch, GiveUp, Answered
<1>2. ASSUME NEW w \in Workers, WorkerStep(w)
      PROVE  UNCHANGED <<row, ledger>>
  BY <1>2 DEF WorkerStep, Start, Ask
<1>3. ASSUME NEW x \in Procs, CommonStep(x) \/ Crash(x)
      PROVE  UNCHANGED <<row, ledger>>
  BY <1>3 DEF CommonStep, Return, Crash
<1>4. ProviderStep => UNCHANGED <<row, ledger>>
  BY DEF ProviderStep, ProviderAccept, ProviderRefuse, ProviderDecide
<1> QED BY <1>1, <1>2, <1>3, <1>4 DEF Next, vars, ledger

\* Before the first purchase nothing is held.
LEMMA InitHasHolds == Init => HoldInv
<1> SUFFICES ASSUME Init PROVE HoldInv
  OBVIOUS
<1>1. /\ \A p \in References : posted[p] = {}
      /\ \A k \in Keys : row[k].status = "absent"
  BY DEF Init, Absent
<1> QED BY <1>1, InitHasBooks, PurchasesAssumption DEF HoldInv, HoldIsBody, RowMatchesReserve

\* The row, the hold and the submissions keep agreeing.
LEMMA NextKeepsHolds ==
    ASSUME SameBody
    PROVE  HoldInv /\ [Next]_vars => HoldInv'
<1> SUFFICES ASSUME HoldInv, [Next]_vars PROVE HoldInv'
  OBVIOUS
<1> USE PurchasesAssumption
<1>0. /\ BooksInv /\ BooksInv' /\ TypeOK /\ HoldIsBody /\ RowMatchesReserve
      /\ \A r \in Requests : For[r] \in References /\ AmountOf[r] \in Nat /\ Key(r) \in Keys
  BY NextKeepsBooks DEF HoldInv, BooksInv, Key
<1>1. ASSUME UNCHANGED <<row, ledger>>
      PROVE  HoldInv'
  BY <1>0, <1>1 DEF HoldInv, HoldIsBody, RowMatchesReserve, ledger
<1>2. ASSUME NEW r \in Requests, Reserve(r)
      PROVE  HoldInv'
  <2> DEFINE p == For[r]
  <2>1. CASE UNCHANGED <<row, ledger>>
    BY <1>1, <2>1
  <2>2. CASE /\ row' = row /\ posted[p] = {}
             /\ posted' = [posted EXCEPT ![p] = {"reserve"}]
             /\ held' = [held EXCEPT ![p] = AmountOf[r]]
    <3>1. /\ held'[p] = AmountOf[r]
          /\ \A q \in References : q # p => held'[q] = held[q] /\ posted'[q] = posted[q]
      BY <1>0, <2>2 DEF TypeOK
    <3>2. HoldIsBody'
      BY <1>0, <3>1 DEF HoldIsBody, SameBody
    <3>3. \A k \in Keys : row[k].status # "absent" => row[k].ref # p /\ row[k].ref \in References
      BY <1>0, <2>2 DEF BooksInv, RowIsHeld, TypeOK
    <3>4. RowMatchesReserve'
      BY <1>0, <2>2, <3>1, <3>3 DEF RowMatchesReserve
    <3> QED BY <1>0, <3>2, <3>4 DEF HoldInv
  <2> QED BY <1>0, <1>2, <2>1, <2>2, ReserveCases
<1>3. ASSUME NEW r \in Requests, InsertRow(r)
      PROVE  HoldInv'
  <2> DEFINE p == For[r]
             new == [status |-> "reserved", ref |-> p, amount |-> AmountOf[r]]
  <2>1. CASE UNCHANGED <<row, ledger>>
    BY <1>1, <2>1
  <2>2. CASE /\ "reserve" \in posted[p] /\ row'[Key(r)] = new
             /\ \A k \in Keys : k # Key(r) => row'[k] = row[k]
             /\ UNCHANGED ledger
    <3>1. held[p] = AmountOf[r] /\ new.ref = p /\ new.amount = AmountOf[r]
      BY <1>0, <2>2 DEF HoldIsBody
    <3> HIDE DEF new
    <3>2. HoldIsBody'
      BY <1>0, <2>2 DEF HoldIsBody, ledger
    <3>3. RowMatchesReserve'
      BY <1>0, <2>2, <3>1 DEF RowMatchesReserve, ledger
    <3> QED BY <1>0, <3>2, <3>3 DEF HoldInv
  <2> QED BY <1>0, <1>3, <2>1, <2>2, InsertRowCases
\* The decisions move the status of a written row and add to a posted hold.
<1>4. ASSUME NEW x \in Procs, NEW e \in {"settle", "reverse"},
             NEW st \in {"delivered", "reversed"}, Decides(x, e, st)
      PROVE  HoldInv'
  <2>1. /\ about[x] \in Keys /\ Ref(x) \in References /\ st \in Statuses
        /\ row[about[x]].status = "reserved" /\ held' = held
        /\ posted[Ref(x)] = {"reserve"} /\ posted' = [posted EXCEPT ![Ref(x)] = {"reserve", e}]
        /\ row' = [row EXCEPT ![about[x]].status = st]
    BY <1>0, <1>4 DEF TypeOK, Ref, Decides, Statuses
  <2>2. /\ row'[about[x]].ref = row[about[x]].ref /\ row'[about[x]].amount = row[about[x]].amount
        /\ \A j \in Keys : j # about[x] => row'[j] = row[j]
    BY <1>0, <2>1, RowMoves
  <2>3. \A q \in References : "reserve" \in posted'[q] => "reserve" \in posted[q]
    BY <1>0, <2>1 DEF TypeOK
  <2>4. HoldIsBody'
    BY <1>0, <2>1, <2>3 DEF HoldIsBody
  <2>5. RowMatchesReserve'
    BY <1>0, <2>1, <2>2 DEF RowMatchesReserve
  <2> QED BY <1>0, <2>4, <2>5 DEF HoldInv
<1>5. ASSUME NEW x \in Procs, Settle(x) \/ Reverse(x)
      PROVE  HoldInv'
  BY <1>0, <1>1, <1>4, <1>5, DecisionCases
<1> QED BY <1>1, <1>2, <1>3, <1>5, OtherStepsPostNothing

\* The stages of the holds when the entries of one reference change.
LEMMA StageMoves ==
    ASSUME TypeOK, NEW p \in References, NEW entries, NEW st,
           posted' = [posted EXCEPT ![p] = entries],
           st = IF "reverse" \in entries THEN "returned"
                ELSE IF "settle" \in entries THEN "spent"
                ELSE IF "reserve" \in entries THEN "held" ELSE "none"
    PROVE  HoldStage' = [HoldStage EXCEPT ![p] = st]
<1>1. \A q \in References : posted'[q] = IF q = p THEN entries ELSE posted[q]
  BY DEF TypeOK
<1> QED BY <1>1 DEF HoldStage

\* Every step is a step of Hold or leaves its variables alone.
LEMMA StepsAreHoldSteps ==
    ASSUME HoldInv, [Next]_vars
    PROVE  [AsHold!Next]_<<HoldStage, held, wallet, pending, float>>
<1> USE PurchasesAssumption
<1> DEFINE Goal == [AsHold!Next]_<<HoldStage, held, wallet, pending, float>>
<1>0. BooksInv /\ TypeOK /\ RowMatchesReserve
  BY DEF HoldInv, BooksInv
<1>1. ASSUME UNCHANGED ledger
      PROVE  Goal
  BY <1>1 DEF ledger, HoldStage
<1>2. ASSUME NEW r \in Requests, Reserve(r)
      PROVE  Goal
  <2> DEFINE p == For[r]
             n == AmountOf[r]
  <2>1. CASE UNCHANGED ledger
    BY <1>1, <2>1
  <2>2. CASE /\ posted[p] = {} /\ wallet >= n
             /\ posted' = [posted EXCEPT ![p] = {"reserve"}]
             /\ held' = [held EXCEPT ![p] = n]
             /\ wallet' = wallet - n
             /\ pending' = pending + n
             /\ UNCHANGED float
    <3>1. p \in References /\ n \in 1..wallet
      BY <1>0, <2>2 DEF TypeOK
    <3>2. HoldStage[p] = "none" /\ HoldStage' = [HoldStage EXCEPT ![p] = "held"]
      BY <1>0, <2>2, <3>1, StageMoves DEF HoldStage
    <3>3. AsHold!Reserve(p)
      BY <2>2, <3>1, <3>2 DEF AsHold!Reserve
    <3> QED BY <3>1, <3>3 DEF AsHold!Next
  <2> QED BY <1>0, <1>2, <2>1, <2>2, ReserveCases
\* What a decision moves is what the reserve holds.
<1>3. ASSUME NEW x \in Procs, NEW e, NEW st, Decides(x, e, st)
      PROVE  /\ Ref(x) \in References /\ row[about[x]].amount = held[Ref(x)]
             /\ held[Ref(x)] \in Nat /\ HoldStage[Ref(x)] = "held"
             /\ posted' = [posted EXCEPT ![Ref(x)] = {"reserve", e}]
  <2>1. /\ about[x] \in Keys /\ Ref(x) \in References /\ row[about[x]].status = "reserved"
        /\ posted[Ref(x)] = {"reserve"} /\ posted' = [posted EXCEPT ![Ref(x)] = {"reserve", e}]
    BY <1>0, <1>3 DEF TypeOK, Ref, Decides
  <2>2. HoldStage[Ref(x)] = "held"
    BY <2>1 DEF HoldStage
  <2> QED BY <1>0, <2>1, <2>2 DEF RowMatchesReserve, Ref, TypeOK
<1>4. ASSUME NEW x \in Procs, Decides(x, "settle", "delivered")
      PROVE  Goal
  <2> DEFINE p == Ref(x)
  <2>1. /\ p \in References /\ row[about[x]].amount = held[p] /\ HoldStage[p] = "held"
        /\ posted' = [posted EXCEPT ![p] = {"reserve", "settle"}]
    BY <1>3, <1>4
  <2>2. HoldStage' = [HoldStage EXCEPT ![p] = "spent"]
    BY <1>0, <2>1, StageMoves
  <2>3. /\ pending' = pending - held[p] /\ float' = float + held[p]
        /\ UNCHANGED <<held, wallet>>
    BY <1>4, <2>1 DEF Decides
  <2>4. AsHold!Spend(p)
    BY <2>1, <2>2, <2>3 DEF AsHold!Spend
  <2> QED BY <2>1, <2>4 DEF AsHold!Next
<1>5. ASSUME NEW x \in Procs, Decides(x, "reverse", "reversed")
      PROVE  Goal
  <2> DEFINE p == Ref(x)
  <2>1. /\ p \in References /\ row[about[x]].amount = held[p] /\ HoldStage[p] = "held"
        /\ posted' = [posted EXCEPT ![p] = {"reserve", "reverse"}]
    BY <1>3, <1>5
  <2>2. HoldStage' = [HoldStage EXCEPT ![p] = "returned"]
    BY <1>0, <2>1, StageMoves
  <2>3. /\ pending' = pending - held[p] /\ wallet' = wallet + held[p]
        /\ UNCHANGED <<held, float>> /\ float \in Nat
    BY <1>0, <1>5, <2>1 DEF Decides, TypeOK
  <2>4. AsHold!Return(p)
    BY <2>1, <2>2, <2>3 DEF AsHold!Return
  <2> QED BY <2>1, <2>4 DEF AsHold!Next
<1>6. ASSUME NEW x \in Procs, Settle(x) \/ Reverse(x)
      PROVE  Goal
  BY <1>0, <1>1, <1>4, <1>5, <1>6, DecisionCases
<1>7. ASSUME NEW r \in Requests, InsertRow(r)
      PROVE  UNCHANGED ledger
  BY <1>7 DEF InsertRow
<1> HIDE DEF Goal
<1>8. Goal
  BY <1>1, <1>2, <1>6, <1>7, OtherStepsPostNothing
<1> QED BY <1>8 DEF Goal

\* The purchase flow implements Hold for any number of keys, references,
\* submissions and workers, the staff refund included, where the submissions of
\* a purchase carry one amount: the money leaves the wallet once and is spent or
\* comes back once, in full.
THEOREM PurchasesAreHolds ==
    ASSUME SameBody
    PROVE  Spec => ImplementsHold
<1>1. Init => HoldInv
  BY InitHasHolds
<1>2. HoldInv /\ [Next]_vars => HoldInv'
  BY NextKeepsHolds
<1>3. Init => AsHold!Init
  <2> SUFFICES ASSUME Init PROVE AsHold!Init
    OBVIOUS
  <2>1. HoldStage = [p \in References |-> "none"]
    BY DEF Init, HoldStage
  <2> QED BY <2>1, PurchasesAssumption DEF Init, AsHold!Init
<1>4. HoldInv /\ [Next]_vars => [AsHold!Next]_<<HoldStage, held, wallet, pending, float>>
  BY StepsAreHoldSteps
<1> QED BY <1>1, <1>2, <1>3, <1>4, PTL DEF Spec, ImplementsHold, AsHold!Spec
=============================================================================
