------------------------------ MODULE Purchases -------------------------------
(***************************************************************************)
(* Catalogue purchases of one customer (airtime, data, bills, eSIMs and     *)
(* numbers): PurchaseService.buy, PurchaseOutcome, the reconciliation sweep  *)
(* and the recovery screen, in apps/api/src/purchases and src/admin, against *)
(* a provider that does not de-duplicate orders and whose answers get lost.  *)
(*                                                                          *)
(* A reference, hashed from the customer, the service and the idempotency    *)
(* key, names the ledger entries; the key alone names the row.  One ledger   *)
(* post with its precondition and onEntry is one step.                       *)
(***************************************************************************)
EXTENDS Integers, FiniteSetsExt

CONSTANTS
    Keys,           \* the idempotency keys the customer used
    References,
    KeyOf,          \* reference -> its idempotency key
    Requests,       \* submissions of the buy form
    Workers,        \* runs of the sweep and of the recovery screen
    Nobody,         \* the sender of a message whose sender no longer listens
    For,            \* request -> the reference derived from it
    AmountOf,       \* request -> the amount in its body
    Roles,          \* what the workers do in this deployment
    OpeningWallet,  \* the customer's balance before the first purchase
    OtherHolds      \* what payouts and cards keep in pending

Procs == Requests \cup Workers

AllRoles == {"sweep", "resolve", "refund"}

ASSUME PurchasesAssumption ==
    /\ Requests \cap Workers = {}
    /\ Nobody \notin Procs
    /\ Keys # {} /\ References # {}
    /\ KeyOf \in [References -> Keys]
    /\ For \in [Requests -> References]
    /\ AmountOf \in [Requests -> Nat \ {0}]
    /\ Roles \subseteq AllRoles
    /\ OpeningWallet \in Nat
    /\ OtherHolds \in Nat

VARIABLES
    row,       \* purchases: status ("absent" before the insert), reference, amount
    posted,    \* the ledger entries under the reference's three keys
    held,      \* the amount of the reserve entry
    wallet, pending, float,   \* the balances the entries move
    provider,  \* what the provider holds under the reference
    bought,    \* how many orders it took under it
    misread,   \* orders it has whose answer the adapter read as "failed"
    wire,      \* orders on their way to the provider
    pc, role, about, verdict  \* each process

ledger == <<posted, held, wallet, pending, float>>
world == <<provider, bought, misread, wire>>
local == <<role, about, verdict>>
vars == <<row, posted, held, wallet, pending, float, provider, bought, misread, wire,
          pc, role, about, verdict>>

AnyReference == CHOOSE p \in References : TRUE

Absent == [status |-> "absent", ref |-> AnyReference, amount |-> 0]

Key(r) == KeyOf[For[r]]

Home(x) == IF x \in Requests THEN Key(x) ELSE KeyOf[AnyReference]

\* The reference of the row a process works on.
Ref(x) == row[about[x]].ref

Goto(x, place) == pc' = [pc EXCEPT ![x] = place]

\* The handler returns or throws: a request is over, a worker may run again.
Finish(x) ==
    /\ Goto(x, IF x \in Requests THEN "done" ELSE "idle")
    /\ role' = [role EXCEPT ![x] = IF x \in Requests THEN "request" ELSE "none"]
    /\ about' = [about EXCEPT ![x] = Home(x)]
    /\ verdict' = [verdict EXCEPT ![x] = "none"]

-----------------------------------------------------------------------------
Init ==
    /\ row = [k \in Keys |-> Absent]
    /\ posted = [p \in References |-> {}]
    /\ held = [p \in References |-> 0]
    /\ wallet = OpeningWallet
    /\ pending = OtherHolds
    /\ float = 0
    /\ provider = [p \in References |-> "none"]
    /\ bought = [p \in References |-> 0]
    /\ misread = {}
    /\ wire = {}
    /\ pc = [x \in Procs |-> "idle"]
    /\ role = [x \in Procs |-> IF x \in Requests THEN "request" ELSE "none"]
    /\ about = [x \in Procs |-> Home(x)]
    /\ verdict = [x \in Procs |-> "none"]

-----------------------------------------------------------------------------
(* PurchaseService.buy *)

\* #byKey: a key already used answers with its row.
Submit(r) ==
    /\ pc[r] = "idle"
    /\ IF row[Key(r)].status # "absent"
       THEN Finish(r)
       ELSE Goto(r, "reserve") /\ UNCHANGED local
    /\ UNCHANGED <<row, ledger, world>>

\* The service is off, the account is frozen, the price is not the provider's,
\* or the daily ceiling is reached.
Decline(r) ==
    /\ pc[r] = "reserve"
    /\ Finish(r)
    /\ UNCHANGED <<row, ledger, world>>

\* #reserve, the post: wallet -> pending under the reference's own key.
Reserve(r) ==
    LET p == For[r] IN
    /\ pc[r] = "reserve"
    /\ IF "reserve" \in posted[p]
       THEN Goto(r, "insert") /\ UNCHANGED <<ledger, local>>
       ELSE IF wallet < AmountOf[r]
       THEN Finish(r) /\ UNCHANGED ledger
       ELSE /\ posted' = [posted EXCEPT ![p] = @ \cup {"reserve"}]
            /\ held' = [held EXCEPT ![p] = AmountOf[r]]
            /\ wallet' = wallet - AmountOf[r]
            /\ pending' = pending + AmountOf[r]
            /\ Goto(r, "insert")
            /\ UNCHANGED <<float, local>>
    /\ UNCHANGED <<row, world>>

\* Faulty variant: the submission that lost the insert orders as well.
InsertRowBothOrder(r) ==
    /\ pc[r] = "insert"
    /\ row' = [row EXCEPT ![Key(r)] =
                 IF @.status = "absent"
                 THEN [status |-> "reserved", ref |-> For[r], amount |-> AmountOf[r]] ELSE @]
    /\ Goto(r, "order")
    /\ UNCHANGED <<ledger, world, local>>

\* #reserve, the row: ON CONFLICT (user_id, idempotency_key) DO NOTHING.  Only
\* the request that wrote the row orders; the other answers with the row.
InsertRow(r) ==
    /\ pc[r] = "insert"
    /\ IF row[Key(r)].status = "absent"
       THEN /\ row' = [row EXCEPT ![Key(r)] =
                         [status |-> "reserved", ref |-> For[r], amount |-> AmountOf[r]]]
            /\ Goto(r, "order")
            /\ UNCHANGED local
       ELSE Finish(r) /\ UNCHANGED row
    /\ UNCHANGED <<ledger, world>>

\* port.purchase: the order leaves.
Dispatch(r) ==
    /\ pc[r] = "order"
    /\ wire' = wire \cup {[from |-> r, ref |-> For[r]]}
    /\ Goto(r, "wait")
    /\ UNCHANGED <<row, ledger, provider, bought, misread, local>>

\* An order whose sender stopped waiting is still on its way.
Orphaned(x) ==
    {[m EXCEPT !.from = IF m.from = x THEN Nobody ELSE m.from] : m \in wire}

\* Faulty variant: an order without an answer is given back.
GiveUpAndReverse(r) ==
    /\ pc[r] = "wait"
    /\ wire' = Orphaned(r)
    /\ Goto(r, "reverse")
    /\ UNCHANGED <<row, ledger, provider, bought, misread, local>>

\* Timeout, reset, 5xx or unreadable answer (not providerDidNothing): the money
\* stays held and the request answers with the row.
GiveUp(r) ==
    /\ pc[r] = "wait"
    /\ wire' = Orphaned(r)
    /\ Finish(r)
    /\ UNCHANGED <<row, ledger, provider, bought, misread>>

\* What a definite word of the provider leads to.
AfterWord(v) ==
    CASE v \in {"failed", "rejected"} -> "reverse"
      [] v = "delivered"              -> "settle"
      [] OTHER                        -> "finish"

\* The answer to the order: reversed, settled, or left pending with the
\* provider's reference recorded.
Answered(r) ==
    /\ pc[r] = "answered"
    /\ Goto(r, AfterWord(verdict[r]))
    /\ UNCHANGED <<row, ledger, world, local>>

-----------------------------------------------------------------------------
(* PurchaseOutcome *)

\* stillReserved: under the row lock, reserved and neither outcome posted.
StillReserved(k) ==
    row[k].status = "reserved" /\ posted[row[k].ref] \cap {"settle", "reverse"} = {}

\* Faulty variant: posts on the caller's snapshot and marks the row afterwards.
SettleUnlocked(x) ==
    LET p == Ref(x)
        n == row[about[x]].amount
    IN
    /\ pc[x] = "settle"
    /\ posted' = [posted EXCEPT ![p] = @ \cup {"settle"}]
    /\ pending' = pending - n
    /\ float' = float + n
    /\ row' = [row EXCEPT ![about[x]].status = IF @ = "reserved" THEN "delivered" ELSE @]
    /\ Goto(x, "finish")
    /\ UNCHANGED <<held, wallet, world, local>>

\* settle: pending -> provider_float and the row delivered, in one transaction.
\* A purchase somebody else decided is left alone; one that pending does not
\* cover throws.
Settle(x) ==
    LET n == row[about[x]].amount IN
    /\ pc[x] = "settle"
    /\ IF StillReserved(about[x]) /\ pending >= n
       THEN /\ posted' = [posted EXCEPT ![Ref(x)] = @ \cup {"settle"}]
            /\ pending' = pending - n
            /\ float' = float + n
            /\ row' = [row EXCEPT ![about[x]].status = "delivered"]
            /\ UNCHANGED <<held, wallet>>
       ELSE UNCHANGED <<row, ledger>>
    /\ Goto(x, "finish")
    /\ UNCHANGED <<world, local>>

\* Faulty variant: the row is left to a later statement.
ReverseWithoutRow(x) ==
    LET n == row[about[x]].amount IN
    /\ pc[x] = "reverse"
    /\ IF StillReserved(about[x]) /\ pending >= n
       THEN /\ posted' = [posted EXCEPT ![Ref(x)] = @ \cup {"reverse"}]
            /\ pending' = pending - n
            /\ wallet' = wallet + n
            /\ UNCHANGED <<held, float>>
       ELSE UNCHANGED ledger
    /\ Goto(x, "finish")
    /\ UNCHANGED <<row, world, local>>

\* reverse: pending -> wallet naming the reserve entry, and the row reversed,
\* on the same terms.
Reverse(x) ==
    LET n == row[about[x]].amount IN
    /\ pc[x] = "reverse"
    /\ IF StillReserved(about[x]) /\ pending >= n
       THEN /\ posted' = [posted EXCEPT ![Ref(x)] = @ \cup {"reverse"}]
            /\ pending' = pending - n
            /\ wallet' = wallet + n
            /\ row' = [row EXCEPT ![about[x]].status = "reversed"]
            /\ UNCHANGED <<held, float>>
       ELSE UNCHANGED <<row, ledger>>
    /\ Goto(x, "finish")
    /\ UNCHANGED <<world, local>>

Return(x) ==
    /\ pc[x] = "finish"
    /\ Finish(x)
    /\ UNCHANGED <<row, ledger, world>>

-----------------------------------------------------------------------------
(* ReconciliationService and the recovery screen *)

\* The grace period is longer than an order's timeout: the request has its
\* answer or gave up, and its order has reached the provider or never will.
Aged(k) ==
    /\ \A r \in Requests : Key(r) = k => pc[r] \notin {"order", "wait"}
    /\ \A m \in wire : KeyOf[m.ref] # k

\* #claim under the advisory lock; #held for resolveOne (the recovery list and
\* its recover button) and for refund.
Start(w, k, j) ==
    /\ pc[w] = "idle"
    /\ row[k].status = "reserved"
    /\ Aged(k)
    /\ j = "sweep" => \A v \in Workers : role[v] # "sweep"
    /\ role' = [role EXCEPT ![w] = j]
    /\ about' = [about EXCEPT ![w] = k]
    /\ Goto(w, "ask")
    /\ UNCHANGED <<row, ledger, world, verdict>>

\* port.status: what the provider has, or "failed" for an order it never saw
\* (Twilio); an outage is "unknown".  VTpass's adapter says "failed" on every
\* code but success and processing, so on a question it refused as well.
Words(p) == {"unknown", "failed"} \cup ({provider[p]} \ {"none"})

\* The provider's answer is taken for a failure of an order it has not failed.
Misread(p, state, v) ==
    misread' = IF v = "failed" /\ state \in {"pending", "delivered"}
               THEN misread \cup {p} ELSE misread

\* Faulty variant: a delivery the sweep learns of is not recorded.
AfterStatusFailuresOnly(j, v) == IF v = "failed" THEN "reverse" ELSE "finish"

\* #resolve does only what the provider said; refund gives back on anything but
\* "delivered".
AfterStatus(j, v) ==
    IF j = "refund" THEN IF v = "delivered" THEN "finish" ELSE "reverse"
    ELSE AfterWord(v)

Ask(w) ==
    /\ pc[w] = "ask"
    /\ \E v \in Words(Ref(w)) :
          /\ verdict' = [verdict EXCEPT ![w] = v]
          /\ Misread(Ref(w), provider[Ref(w)], v)
          /\ Goto(w, AfterStatus(role[w], v))
    /\ UNCHANGED <<row, ledger, provider, bought, wire, role, about>>

-----------------------------------------------------------------------------
(* The provider and the network, and the death of a process. *)

Tell(m, v) ==
    IF m.from = Nobody THEN UNCHANGED <<pc, verdict>>
    ELSE Goto(m.from, "answered") /\ verdict' = [verdict EXCEPT ![m.from] = v]

\* The provider takes an order, whether or not it has one under the reference;
\* the adapter reads its answer, or reads a code it does not know as "failed".
ProviderAccept(m) ==
    /\ \E state \in {"pending", "delivered", "failed"} : \E v \in {state, "failed"} :
          /\ provider' = [provider EXCEPT ![m.ref] = state]
          /\ Tell(m, v)
          /\ Misread(m.ref, state, v)
    /\ bought' = [bought EXCEPT ![m.ref] = @ + 1]
    /\ wire' = wire \ {m}
    /\ UNCHANGED <<row, ledger, role, about>>

\* It refuses the order, or the connection was never made.
ProviderRefuse(m) ==
    /\ wire' = wire \ {m}
    /\ Tell(m, "rejected")
    /\ UNCHANGED <<row, ledger, provider, bought, misread, role, about>>

\* The product is delivered, or the order fails.
ProviderDecide(p) ==
    /\ provider[p] = "pending"
    /\ \E v \in {"delivered", "failed"} : provider' = [provider EXCEPT ![p] = v]
    /\ UNCHANGED <<row, ledger, bought, misread, wire, pc, local>>

\* The process dies between two steps.
Crash(x) ==
    /\ pc[x] \notin {"idle", "done"}
    /\ wire' = Orphaned(x)
    /\ Finish(x)
    /\ UNCHANGED <<row, ledger, provider, bought, misread>>

RequestStep(r) ==
    \/ Submit(r) \/ Decline(r) \/ Reserve(r) \/ InsertRow(r)
    \/ Dispatch(r) \/ GiveUp(r) \/ Answered(r)

WorkerStep(w) ==
    \/ \E k \in Keys, j \in Roles : Start(w, k, j)
    \/ Ask(w)

CommonStep(x) == Settle(x) \/ Reverse(x) \/ Return(x)

ProviderStep ==
    \/ \E m \in wire : ProviderAccept(m) \/ ProviderRefuse(m)
    \/ \E p \in References : ProviderDecide(p)

Next ==
    \/ \E r \in Requests : RequestStep(r)
    \/ \E w \in Workers : WorkerStep(w)
    \/ \E x \in Procs : CommonStep(x) \/ Crash(x)
    \/ ProviderStep

Spec == Init /\ [][Next]_vars

\* The provider answers a question about the purchase.
AskAnswered(w) == Ask(w) /\ verdict'[w] # "unknown"

\* Requests run, and the sweep runs again and again, neither dying at the same
\* statement nor finding the provider mute for ever.  Nothing obliges the
\* provider to decide an order.
Fairness ==
    /\ \A r \in Requests : WF_vars(RequestStep(r) \/ CommonStep(r))
    /\ WF_vars(\E m \in wire : ProviderAccept(m) \/ ProviderRefuse(m))
    /\ \A w \in Workers :
          /\ \A k \in Keys : SF_vars(Start(w, k, "sweep"))
          /\ SF_vars(AskAnswered(w))
          /\ SF_vars(Settle(w)) /\ SF_vars(Reverse(w))
          /\ WF_vars(Return(w))

FairSpec == Spec /\ Fairness

-----------------------------------------------------------------------------
(* Properties. *)

Statuses == {"absent", "reserved", "delivered", "reversed"}

Places == {"idle", "reserve", "insert", "order", "wait", "answered", "settle", "reverse",
           "ask", "finish", "done"}

\* The type of every variable; neither wallet nor pending is ever overdrawn.
TypeOK ==
    /\ row \in [Keys -> [status : Statuses, ref : References, amount : Nat]]
    /\ posted \in [References -> SUBSET {"reserve", "settle", "reverse"}]
    /\ held \in [References -> Nat]
    /\ wallet \in Nat /\ pending \in Nat /\ float \in Nat
    /\ provider \in [References -> {"none", "pending", "delivered", "failed"}]
    /\ bought \in [References -> Nat]
    /\ misread \subseteq References
    /\ wire \subseteq [from : Requests \cup {Nobody}, ref : References]
    /\ pc \in [Procs -> Places]
    /\ role \in [Procs -> AllRoles \cup {"request", "none"}]
    /\ about \in [Procs -> Keys]
    /\ verdict \in [Procs -> {"none", "pending", "delivered", "failed", "unknown", "rejected"}]

\* A purchase is delivered or given back, and never both unless the adapter
\* itself took the provider's answer for a failure: no timeout, lost answer, late
\* order, crash or second decider gives back what the provider took, and a row
\* says delivered only of a product it delivered.
DeliveredOrReturned ==
    \A p \in References :
        /\ "reverse" \in posted[p] => provider[p] \in {"none", "failed"} \/ p \in misread
        /\ "settle" \in posted[p] => provider[p] = "delivered"

\* No second eSIM or number: one purchase is ordered at most once, however
\* often the form is submitted and whoever dies on the way.
BoughtOnce == \A p \in References : bought[p] <= 1

\* The row says what the ledger did, whatever order the deciders come in.
RowTellsLedger ==
    \A k \in Keys :
        LET done == posted[row[k].ref] \ {"reserve"} IN
        CASE row[k].status = "delivered" -> done = {"settle"}
          [] row[k].status = "reversed"  -> done = {"reverse"}
          [] row[k].status = "reserved"  -> done = {}
          [] OTHER                       -> \A p \in References : KeyOf[p] = k =>
                                               posted[p] \subseteq {"reserve"}

HoldStage ==
    [p \in References |-> IF "reverse" \in posted[p] THEN "returned"
                          ELSE IF "settle" \in posted[p] THEN "spent"
                          ELSE IF "reserve" \in posted[p] THEN "held" ELSE "none"]

AsHold == INSTANCE Hold WITH Holds <- References, stage <- HoldStage, amount <- held,
                             gone <- float

\* The purchase flow implements Hold: the money leaves the wallet once, and is
\* spent or comes back once and in full, without touching another hold.
ImplementsHold == AsHold!Spec

\* A held purchase the provider has decided is decided here too, though the
\* request and the sweeps that could have learned of it die.
DecisionIsLearned ==
    \A k \in Keys :
        (row[k].status = "reserved" /\ provider[row[k].ref] \in {"delivered", "failed"})
            ~> row[k].status \in {"delivered", "reversed"}

-----------------------------------------------------------------------------
(* The inductive invariants behind these properties. *)

\* A request writes its row only when the hold is posted.
InsertAfterReserve == \A r \in Requests : pc[r] = "insert" => "reserve" \in posted[For[r]]

\* The row of the reference is written.
Written(p) == row[KeyOf[p]].status # "absent" /\ row[KeyOf[p]].ref = p

\* A row names a reference of its own key, and one that is held.
RowIsHeld ==
    \A k \in Keys : row[k].status # "absent" =>
        KeyOf[row[k].ref] = k /\ "reserve" \in posted[row[k].ref]

\* An outcome is posted only for the reference its row names.
OutcomesAreOfRows == \A p \in References : posted[p] \subseteq {"reserve"} \/ Written(p)

BooksInv == TypeOK /\ RowTellsLedger /\ InsertAfterReserve /\ RowIsHeld /\ OutcomesAreOfRows

\* Submissions of one purchase carry the same amount.
SameBody == \A r, s \in Requests : For[r] = For[s] => AmountOf[r] = AmountOf[s]

HoldIsBody == \A r \in Requests : "reserve" \in posted[For[r]] => held[For[r]] = AmountOf[r]

\* The row's amount is what the reserve entry really holds.
RowMatchesReserve ==
    \A k \in Keys : row[k].status # "absent" => row[k].amount = held[row[k].ref]

HoldInv == BooksInv /\ HoldIsBody /\ RowMatchesReserve

\* No order under the reference is on its way, nor about to be.
Quiet(p) ==
    /\ \A r \in Requests : pc[r] = "order" => For[r] # p
    /\ \A m \in wire : m.ref # p

\* The provider did not deliver the purchase and never will, or it said so.
Over(p) ==
    /\ Written(p)
    /\ (Quiet(p) /\ provider[p] \in {"none", "failed"}) \/ p \in misread

\* A reference has one sender, and the provider has no order under it yet.
OneSender ==
    /\ \A r, s \in Requests : pc[r] = "order" /\ pc[s] = "order" /\ For[r] = For[s] => r = s
    /\ \A r \in Requests : pc[r] = "order" => bought[For[r]] = 0
    /\ \A r \in Requests, m \in wire : pc[r] = "order" => For[r] # m.ref
    /\ \A m, n \in wire : m.ref = n.ref => m = n
    /\ \A m \in wire : bought[m.ref] = 0

BoughtIsTaken ==
    \A p \in References : /\ bought[p] = 0 <=> provider[p] = "none"
                          /\ bought[p] <= 1

\* Whatever happens to a purchase happens after its row was written.
Works(x) == pc[x] \notin {"idle", "done", "reserve", "insert"}

RowIsFirst ==
    /\ \A x \in Procs : Works(x) => row[about[x]].status # "absent"
    /\ \A m \in wire : Written(m.ref)
    /\ \A p \in References : bought[p] # 0 => Written(p)

\* Only requests order, each for its own reference; a message names its sender
\* while the sender waits.
RequestsOrder ==
    /\ \A r \in Requests : /\ about[r] = Key(r) /\ pc[r] # "ask"
                           /\ Works(r) => row[Key(r)].ref = For[r]
    /\ \A m \in wire : m.from \in Requests => pc[m.from] = "wait" /\ For[m.from] = m.ref
    /\ \A w \in Workers : pc[w] \notin {"reserve", "insert", "order", "wait", "answered"}
    /\ \A w \in Workers : role[w] # "refund"

\* Who is about to decide has what the decision needs from the provider.
OnAnAnswer(x) ==
    /\ pc[x] = "reverse" => Over(Ref(x))
    /\ pc[x] = "answered" /\ verdict[x] \in {"failed", "rejected"} => Over(Ref(x))
    /\ pc[x] = "answered" /\ verdict[x] = "delivered" => provider[Ref(x)] = "delivered"
    /\ pc[x] = "settle" => provider[Ref(x)] = "delivered"
    /\ pc[x] = "ask" => Quiet(Ref(x))

DecidesOnAnAnswer == \A x \in Procs : OnAnAnswer(x)

OutcomeIsTheProviders ==
    \A p \in References : /\ "reverse" \in posted[p] => Over(p)
                          /\ "settle" \in posted[p] => provider[p] = "delivered"

OrderInv ==
    /\ BooksInv
    /\ OneSender /\ BoughtIsTaken /\ RowIsFirst /\ RequestsOrder
    /\ DecidesOnAnAnswer /\ OutcomeIsTheProviders
=============================================================================
