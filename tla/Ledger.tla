-------------------------------- MODULE Ledger --------------------------------
(***************************************************************************)
(* The double-entry ledger: LedgerService.post (packages/ledger/src) over   *)
(* the tables and triggers of packages/ledger/sql/001_ledger.sql.           *)
(*                                                                          *)
(* A poster is one call of post() on a pool connection.  Its transaction is *)
(* split at every statement that may wait or fail, because that is where    *)
(* PostgreSQL lets another transaction in: the unique index on the          *)
(* idempotency key, the unique index on an account's role, and the row lock *)
(* taken on account_balances by the trigger of each posting.  Nothing of a  *)
(* transaction is visible to others before COMMIT.                          *)
(***************************************************************************)
EXTENDS Integers, Sequences, FiniteSets, Functions

CONSTANTS
    Posters,      \* concurrent callers of post()
    Keys,         \* idempotency keys
    NoKey,        \* "names no entry" (reversesEntryId is undefined)
    NoOne,        \* nobody holds the lock
    Accounts,     \* account roles: (owner, kind, currency)
    Customer,     \* roles of kind customer_wallet, customer_card, customer_pending
    Currencies,
    CurrencyOf,   \* the currency in an account's role
    Intents,      \* the entries callers may try to post
    MaxCalls      \* bound: calls of post() per poster

\* PostingIntent: one signed leg of an entry.
Leg == [account : Accounts, amount : Int]

\* LedgerIntent: what a caller hands to post().  Kinds are kept as far as the
\* target rule tells them apart.
Intent == [key : Keys, kind : {"must_name", "may_name", "plain"},
           target : Keys \cup {NoKey}, legs : Seq(Leg)]

ASSUME LedgerAssumption ==
    /\ NoOne \notin Posters
    /\ NoKey \notin Keys
    /\ Customer \subseteq Accounts
    /\ IsFiniteSet(Accounts)
    /\ CurrencyOf \in [Accounts -> Currencies]
    /\ \A i \in Intents : i \in Intent
    /\ MaxCalls \in Nat

VARIABLES
    accounts,   \* committed rows of accounts
    balance,    \* committed account_balances.balance_minor, 0 before the row exists
    journal,    \* committed journal_entries with their postings, in commit order
    hooks,      \* committed rows written by the callers' onEntry hooks
    keyLock,    \* key -> the transaction with an uncommitted journal entry under it
    newLock,    \* account -> the transaction with an uncommitted accounts row for it
    rowLock,    \* account -> the transaction that updated its balance row
    pc,         \* where each poster is inside post()
    intent,     \* what each poster was called with
    leg,        \* index of the posting the poster is writing
    delta,      \* the poster's uncommitted changes of the balance rows
    answer,     \* how the poster's last call ended
    calls       \* calls made, for the bound

tables == <<accounts, balance, journal, hooks>>
locks == <<keyLock, newLock, rowLock>>
vars == <<accounts, balance, journal, hooks, keyLock, newLock, rowLock,
          pc, intent, leg, delta, answer, calls>>

-----------------------------------------------------------------------------
(* Pure parts. *)

AmountsOf(legs) == [n \in DOMAIN legs |-> legs[n].amount]

\* The legs of one currency sum to zero (summed per currency, never across).
BalancedIn(legs, c) ==
    SumFunctionOnSet(AmountsOf(legs), {n \in DOMAIN legs : CurrencyOf[legs[n].account] = c}) = 0

\* Faulty variant: one sum over all currencies, so that kobo cancel cents.
BalancedWhole(legs) == Len(legs) >= 2 /\ SumFunction(AmountsOf(legs)) = 0

\* assert_entry_balances at COMMIT, and the sums of assertBalanced.
Balanced(legs) ==
    /\ Len(legs) >= 2
    /\ \A c \in Currencies : BalancedIn(legs, c)

\* assertBalanced: the target rule, then nonzero legs, then the sums.
WellFormed(i) ==
    /\ i.kind = "must_name" => i.target # NoKey
    /\ i.target # NoKey => i.kind \in {"must_name", "may_name"}
    /\ \A n \in DOMAIN i.legs : i.legs[n].amount # 0
    /\ Balanced(i.legs)

\* UNIQUE (idempotency_key): the committed entry holding a key.
Posted(k) == \E n \in DOMAIN journal : journal[n].key = k

Current(p) == intent[p].legs[leg[p]]

InTransaction(p) ==
    pc[p] \in {"precondition", "insert", "resolve", "create", "posting", "hook", "commit"}

\* p's next statement waits for a lock that q holds.
Waits(p, q) ==
    /\ p # q
    /\ \/ pc[p] = "insert"  /\ keyLock[intent[p].key] = q
       \/ pc[p] = "create"  /\ newLock[Current(p).account] = q
       \/ pc[p] = "posting" /\ rowLock[Current(p).account] = q

\* PostgreSQL's deadlock detector: p is on a cycle of the waits-for graph.
\* Every transaction waits for at most one other, so a set in which each
\* member waits for a member and is waited for by a member is a cycle.
OnCycle(p) ==
    \E S \in SUBSET Posters :
        /\ p \in S
        /\ \A q \in S : (\E r \in S : Waits(q, r)) /\ (\E r \in S : Waits(r, q))

NoIntent == [key |-> NoKey, kind |-> "plain", target |-> NoKey, legs |-> <<>>]

NoDelta == [a \in Accounts |-> 0]

Released(lock, p) == [x \in DOMAIN lock |-> IF lock[x] = p THEN NoOne ELSE lock[x]]

\* Faulty variant: the balance changes of an ended transaction survive it.
EndTransactionKeepingWork(p) ==
    /\ keyLock' = Released(keyLock, p)
    /\ newLock' = Released(newLock, p)
    /\ rowLock' = Released(rowLock, p)
    /\ UNCHANGED delta

\* The transaction of p ends: its locks are free and its work is forgotten.
EndTransaction(p) ==
    /\ keyLock' = Released(keyLock, p)
    /\ newLock' = Released(newLock, p)
    /\ rowLock' = Released(rowLock, p)
    /\ delta' = [delta EXCEPT ![p] = NoDelta]

\* Faulty variant: the connection is given back with its transaction open.
ReturnWithoutRollback(p, then, how) ==
    /\ pc' = [pc EXCEPT ![p] = then]
    /\ answer' = [answer EXCEPT ![p] = [how |-> how, entry |-> 0]]
    /\ UNCHANGED <<tables, locks, delta, intent, leg, calls>>

\* ROLLBACK, then `then` is the next place in post() and `how` its answer.
Rollback(p, then, how) ==
    /\ EndTransaction(p)
    /\ pc' = [pc EXCEPT ![p] = then]
    /\ answer' = [answer EXCEPT ![p] = [how |-> how, entry |-> 0]]
    /\ UNCHANGED <<tables, intent, leg, calls>>

-----------------------------------------------------------------------------
Init ==
    /\ accounts = {}
    /\ balance = [a \in Accounts |-> 0]
    /\ journal = <<>>
    /\ hooks = <<>>
    /\ keyLock = [k \in Keys |-> NoOne]
    /\ newLock = [a \in Accounts |-> NoOne]
    /\ rowLock = [a \in Accounts |-> NoOne]
    /\ pc = [p \in Posters |-> "idle"]
    /\ intent = [p \in Posters |-> NoIntent]
    /\ leg = [p \in Posters |-> 1]
    /\ delta = [p \in Posters |-> NoDelta]
    /\ answer = [p \in Posters |-> [how |-> "none", entry |-> 0]]
    /\ calls = [p \in Posters |-> 0]

\* post(intent) is called.  assertBalanced throws before any connection is taken.
Post(p, i) ==
    /\ pc[p] = "idle"
    /\ calls[p] < MaxCalls
    /\ calls' = [calls EXCEPT ![p] = @ + 1]
    /\ intent' = [intent EXCEPT ![p] = i]
    /\ leg' = [leg EXCEPT ![p] = 1]
    /\ pc' = [pc EXCEPT ![p] = IF WellFormed(i) THEN "precondition" ELSE "idle"]
    /\ answer' = [answer EXCEPT ![p] =
                     [how |-> IF WellFormed(i) THEN "none" ELSE "invalid", entry |-> 0]]
    /\ UNCHANGED <<tables, locks, delta>>

\* BEGIN; the caller's precondition lets the entry through.
Precondition(p) ==
    /\ pc[p] = "precondition"
    /\ pc' = [pc EXCEPT ![p] = "insert"]
    /\ UNCHANGED <<tables, locks, intent, leg, delta, answer, calls>>

\* The caller's precondition throws: it refuses the entry.
PreconditionThrows(p) ==
    /\ pc[p] = "precondition"
    /\ Rollback(p, "idle", "refused")

\* Faulty variant: the key is looked up first, with no unique index behind it.
InsertEntryAfterSelect(p) ==
    /\ pc[p] = "insert"
    /\ IF Posted(intent[p].key)
       THEN Rollback(p, "replay", "none")
       ELSE /\ pc' = [pc EXCEPT ![p] = "resolve"]
            /\ UNCHANGED <<tables, locks, intent, leg, delta, answer, calls>>

\* INSERT INTO journal_entries.  It waits for an uncommitted entry under the
\* same key; a committed one is a unique violation, and the catch block goes
\* on to read it.  The target must exist (foreign key).
InsertEntry(p) ==
    LET k == intent[p].key IN
    /\ pc[p] = "insert"
    /\ keyLock[k] = NoOne
    /\ IF Posted(k)
       THEN Rollback(p, "replay", "none")
       ELSE IF intent[p].target # NoKey /\ ~Posted(intent[p].target)
       THEN Rollback(p, "idle", "invalid")
       ELSE /\ keyLock' = [keyLock EXCEPT ![k] = p]
            /\ pc' = [pc EXCEPT ![p] = "resolve"]
            /\ UNCHANGED <<tables, newLock, rowLock, intent, leg, delta, answer, calls>>

\* #resolveAccount, the SELECT: it sees committed rows and its own.
ResolveAccount(p) ==
    LET a == Current(p).account IN
    /\ pc[p] = "resolve"
    /\ pc' = [pc EXCEPT ![p] = IF a \in accounts \/ newLock[a] = p THEN "posting" ELSE "create"]
    /\ UNCHANGED <<tables, locks, intent, leg, delta, answer, calls>>

\* #resolveAccount, the INSERT: it waits for an uncommitted row of the same
\* role.  If that row has committed, the statement is a unique violation and
\* PostgreSQL has aborted the whole transaction, so the re-read in the catch
\* block fails as well and post() throws.
CreateAccount(p) ==
    LET a == Current(p).account IN
    /\ pc[p] = "create"
    /\ newLock[a] = NoOne
    /\ IF a \in accounts
       THEN Rollback(p, "idle", "account_race")
       ELSE /\ newLock' = [newLock EXCEPT ![a] = p]
            /\ pc' = [pc EXCEPT ![p] = "posting"]
            /\ UNCHANGED <<tables, keyLock, rowLock, intent, leg, delta, answer, calls>>

\* The balance row as p's transaction would leave it after its current leg.
NextBalance(p) == LET a == Current(p).account IN balance[a] + delta[p][a] + Current(p).amount

\* assert_no_overdraft lets the update through: platform accounts are exempt.
Covered(p) == Current(p).account \in Customer => NextBalance(p) >= 0

\* Faulty variant: the balance is read and written without holding its row.
InsertPostingUnlocked(p) ==
    LET a == Current(p).account IN
    /\ pc[p] = "posting"
    /\ IF Covered(p)
       THEN /\ delta' = [delta EXCEPT ![p][a] = @ + Current(p).amount]
            /\ leg' = [leg EXCEPT ![p] = @ + 1]
            /\ pc' = [pc EXCEPT ![p] =
                         IF leg[p] = Len(intent[p].legs) THEN "hook" ELSE "resolve"]
            /\ UNCHANGED <<tables, locks, intent, answer, calls>>
       ELSE Rollback(p, "idle", "insufficient")

\* Faulty variant: the last posting is skipped.
InsertPostingsButLast(p) ==
    LET a == Current(p).account IN
    /\ pc[p] = "posting"
    /\ rowLock[a] \in {NoOne, p}
    /\ IF Covered(p)
       THEN /\ rowLock' = [rowLock EXCEPT ![a] = p]
            /\ delta' = [delta EXCEPT ![p][a] = @ + Current(p).amount]
            /\ leg' = [leg EXCEPT ![p] = @ + 1]
            /\ pc' = [pc EXCEPT ![p] =
                         IF leg[p] + 1 >= Len(intent[p].legs) THEN "hook" ELSE "resolve"]
            /\ UNCHANGED <<tables, keyLock, newLock, intent, answer, calls>>
       ELSE Rollback(p, "idle", "insufficient")

\* INSERT INTO postings with its triggers: wait for the balance row, apply the
\* amount relative to it, refuse an overdraft of a customer account.
InsertPosting(p) ==
    LET a == Current(p).account IN
    /\ pc[p] = "posting"
    /\ rowLock[a] \in {NoOne, p}
    /\ IF Covered(p)
       THEN /\ rowLock' = [rowLock EXCEPT ![a] = p]
            /\ delta' = [delta EXCEPT ![p][a] = @ + Current(p).amount]
            /\ leg' = [leg EXCEPT ![p] = @ + 1]
            /\ pc' = [pc EXCEPT ![p] =
                         IF leg[p] = Len(intent[p].legs) THEN "hook" ELSE "resolve"]
            /\ UNCHANGED <<tables, keyLock, newLock, intent, answer, calls>>
       ELSE Rollback(p, "idle", "insufficient")

\* onEntry runs on the entry's own connection, before COMMIT.
OnEntry(p) ==
    /\ pc[p] = "hook"
    /\ pc' = [pc EXCEPT ![p] = "commit"]
    /\ UNCHANGED <<tables, locks, intent, leg, delta, answer, calls>>

\* onEntry throws: the entry goes with it.  The catch block takes a unique violation
\* for one of the key, whatever table it comes from, and goes on to look for the
\* entry.
OnEntryThrows(p) ==
    /\ pc[p] = "hook"
    /\ Rollback(p, "idle", "refused") \/ Rollback(p, "reread", "none")

\* The rows become visible together; the key, the hook's row and the balances
\* are one commit.
Write(p) ==
    /\ accounts' = accounts \cup {a \in Accounts : newLock[a] = p}
    /\ balance' = [a \in Accounts |-> balance[a] + delta[p][a]]
    /\ journal' = Append(journal, [key |-> intent[p].key, legs |-> intent[p].legs])
    /\ hooks' = Append(hooks, intent[p].key)
    /\ EndTransaction(p)

\* COMMIT, with the deferred constraint on the sums.
Commit(p) ==
    /\ pc[p] = "commit"
    /\ IF Balanced(intent[p].legs)
       THEN /\ Write(p)
            /\ pc' = [pc EXCEPT ![p] = "idle"]
            /\ answer' = [answer EXCEPT ![p] = [how |-> "written", entry |-> Len(journal) + 1]]
            /\ UNCHANGED <<intent, leg, calls>>
       ELSE Rollback(p, "idle", "invalid")

\* COMMIT reaches the database and its answer does not reach us: the call
\* throws although the entry stands.
CommitUnheard(p) ==
    /\ pc[p] = "commit"
    /\ Balanced(intent[p].legs)
    /\ Write(p)
    /\ pc' = [pc EXCEPT ![p] = "idle"]
    /\ answer' = [answer EXCEPT ![p] = [how |-> "lost", entry |-> 0]]
    /\ UNCHANGED <<intent, leg, calls>>

\* Faulty variant: a replay runs the hook again.
ReplayWithHook(p) ==
    /\ pc[p] = "replay"
    /\ pc' = [pc EXCEPT ![p] = "idle"]
    /\ hooks' = Append(hooks, intent[p].key)
    /\ UNCHANGED <<accounts, balance, journal, locks, intent, leg, delta, answer, calls>>

\* Faulty variant: a replay answers with the latest entry.
ReplayLatest(p) ==
    /\ pc[p] = "replay"
    /\ pc' = [pc EXCEPT ![p] = "idle"]
    /\ answer' = [answer EXCEPT ![p] = [how |-> "replayed", entry |-> Len(journal)]]
    /\ UNCHANGED <<tables, locks, intent, leg, delta, calls>>

\* #findByIdempotencyKey after a unique violation: the entry already there is
\* the answer, whatever legs it carries, and onEntry does not run.
Replay(p) ==
    LET same == {n \in DOMAIN journal : journal[n].key = intent[p].key} IN
    /\ pc[p] = "replay"
    /\ pc' = [pc EXCEPT ![p] = "idle"]
    /\ answer' = [answer EXCEPT ![p] =
                     IF same # {} THEN [how |-> "replayed", entry |-> CHOOSE n \in same : TRUE]
                                  ELSE [how |-> "unexplained", entry |-> 0]]
    /\ UNCHANGED <<tables, locks, intent, leg, delta, calls>>

\* #findByIdempotencyKey after a unique violation of the hook's: an entry a rival has
\* committed since is the answer, else post() throws what it caught.
RereadAfterHook(p) ==
    LET same == {n \in DOMAIN journal : journal[n].key = intent[p].key} IN
    /\ pc[p] = "reread"
    /\ pc' = [pc EXCEPT ![p] = "idle"]
    /\ \/ /\ same = {}
          /\ answer' = [answer EXCEPT ![p] = [how |-> "refused", entry |-> 0]]
       \/ \E n \in same : answer' = [answer EXCEPT ![p] = [how |-> "replayed", entry |-> n]]
    /\ UNCHANGED <<tables, locks, intent, leg, delta, calls>>

\* The detector aborts one transaction of a cycle; post() rethrows.
DeadlockVictim(p) ==
    /\ OnCycle(p)
    /\ Rollback(p, "idle", "deadlock")

\* The process or its connection dies inside the transaction.
Crash(p) ==
    /\ InTransaction(p)
    /\ Rollback(p, "idle", "lost")

Step(p) ==
    \/ Precondition(p) \/ PreconditionThrows(p)
    \/ InsertEntry(p)
    \/ ResolveAccount(p) \/ CreateAccount(p)
    \/ InsertPosting(p)
    \/ OnEntry(p) \/ OnEntryThrows(p)
    \/ Commit(p) \/ CommitUnheard(p)
    \/ Replay(p) \/ RereadAfterHook(p)
    \/ DeadlockVictim(p)

Next ==
    \E p \in Posters :
        \/ \E i \in Intents : Post(p, i)
        \/ Step(p)
        \/ Crash(p)

Spec == Init /\ [][Next]_vars

\* A running call keeps taking its next statement, and PostgreSQL runs its
\* deadlock detector; nothing obliges a caller to call or a process to die.
FairSpec == Spec /\ \A p \in Posters : WF_vars(Step(p))

-----------------------------------------------------------------------------
(* Properties. *)

Atomic == INSTANCE AtomicLedger

PCs == {"idle", "precondition", "insert", "resolve", "create", "posting", "hook", "commit",
        "replay", "reread"}

Outcomes == {"none", "written", "replayed", "unexplained", "invalid", "refused", "insufficient",
             "account_race", "deadlock", "lost"}

\* The type of every variable of the ledger's transactions.
TypeOK ==
    /\ accounts \in SUBSET Accounts
    /\ balance \in [Accounts -> Int]
    /\ journal \in Seq([key : Keys, legs : Seq(Leg)])
    /\ hooks \in Seq(Keys)
    /\ keyLock \in [Keys -> Posters \cup {NoOne}]
    /\ newLock \in [Accounts -> Posters \cup {NoOne}]
    /\ rowLock \in [Accounts -> Posters \cup {NoOne}]
    /\ pc \in [Posters -> PCs]
    /\ intent \in [Posters -> Intents \cup {NoIntent}]
    /\ leg \in [Posters -> Nat \ {0}]
    /\ delta \in [Posters -> [Accounts -> Int]]
    /\ answer \in [Posters -> [how : Outcomes, entry : Nat]]
    /\ calls \in [Posters -> 0..MaxCalls]

\* assert_no_overdraft under concurrency: no committed balance of a customer
\* account is ever negative, whatever postings race on its row.
NoOverdraft == \A a \in Customer : balance[a] >= 0

AccountsIn(c) == {a \in Accounts : CurrencyOf[a] = c}

\* Money is neither made nor lost: the balances of each currency sum to zero.
Conserved == \A c \in Currencies : SumFunctionOnSet(balance, AccountsIn(c)) = 0

\* What the entries' postings come to for one account.
Derived(a) == SumFunction([n \in DOMAIN journal |-> Atomic!Effect(journal[n].legs, a)])

\* The view ledger_drift is empty: the balance the triggers maintain with
\* relative writes is the sum of the committed postings of the account.
NoDrift == \A a \in Accounts : balance[a] = Derived(a)

\* THE replay guard: racing and repeated deliveries of one business event
\* leave at most one entry under its idempotency key.
OneEntryPerKey ==
    \A m, n \in DOMAIN journal : journal[m].key = journal[n].key => m = n

\* The record a caller writes in onEntry exists if and only if the entry does,
\* once: it is not written by a rolled-back entry nor again on a replay.
HookIffEntry == hooks = [n \in DOMAIN journal |-> journal[n].key]

\* Every answer is true: "written" and "replayed" name a committed entry under
\* the caller's own key, and a refusal of the key always finds that entry.
AnswersAreTrue ==
    \A p \in Posters :
        /\ answer[p].how # "unexplained"
        /\ answer[p].how \in {"written", "replayed"} =>
              /\ answer[p].entry \in DOMAIN journal
              /\ journal[answer[p].entry].key = intent[p].key
        /\ answer[p].how = "written" => journal[answer[p].entry].legs = intent[p].legs

-----------------------------------------------------------------------------
(* The inductive invariant behind the properties: what each place in post()    *)
(* knows, and what each lock protects.                                         *)

\* A running call has a real intent and points at one of its legs.
InStep ==
    \A p \in Posters :
        /\ pc[p] # "idle" => intent[p] \in Intents
        /\ pc[p] \in {"precondition", "insert"} => leg[p] = 1 /\ Len(intent[p].legs) >= 2
        /\ pc[p] \in {"resolve", "create", "posting"} => leg[p] <= Len(intent[p].legs)

\* An uncommitted change of a balance row is made under that row's lock.
ChangesAreLocked ==
    \A p \in Posters, a \in Accounts : rowLock[a] # p => delta[p][a] = 0

\* Each open transaction, were it to commit now, leaves customers covered.
CoveredIfCommitted ==
    \A p \in Posters, a \in Customer : balance[a] + delta[p][a] >= 0

\* Past its INSERT, a transaction owns a key nobody has committed.
KeyIsOwned ==
    \A p \in Posters :
        /\ pc[p] \in {"resolve", "create", "posting", "hook", "commit"} =>
              keyLock[intent[p].key] = p /\ ~Posted(intent[p].key)
        /\ pc[p] = "replay" => Posted(intent[p].key)

IInv ==
    /\ TypeOK
    /\ InStep
    /\ ChangesAreLocked
    /\ NoOverdraft
    /\ CoveredIfCommitted
    /\ KeyIsOwned
    /\ OneEntryPerKey
    /\ HookIffEntry
    /\ AnswersAreTrue

\* The changes d are what the legs in S come to, account by account and currency
\* by currency.
AreMoves(d, legs, S) ==
    /\ \A a \in Accounts :
          d[a] = SumFunctionOnSet(AmountsOf(legs), {n \in S : legs[n].account = a})
    /\ \A c \in Currencies :
          SumFunctionOnSet(d, AccountsIn(c)) =
             SumFunctionOnSet(AmountsOf(legs), {n \in S : CurrencyOf[legs[n].account] = c})

\* The legs p's transaction has written.
LegsDone(p) ==
    IF pc[p] \in {"resolve", "create", "posting", "hook", "commit"} THEN 1..(leg[p] - 1) ELSE {}

\* The work of an open transaction is the legs it has written, and at its COMMIT
\* all of them.
WorkIsLegs ==
    \A p \in Posters :
        /\ pc[p] \in {"hook", "commit"} => leg[p] = Len(intent[p].legs) + 1
        /\ AreMoves(delta[p], intent[p].legs, LegsDone(p))

SumsInv == IInv /\ WorkIsLegs /\ NoDrift /\ Conserved

-----------------------------------------------------------------------------
\* The ledger implements the atomic ledger: although the legs are written one
\* statement at a time while others post, every visible change is one whole
\* balanced entry under a fresh key, appended to an unchanged history.
ImplementsAtomic == Atomic!Spec

\* post() comes back whatever its rivals do: lock waits end, because a holder
\* commits, rolls back or is the victim of the deadlock detector.
PostReturns == \A p \in Posters : pc[p] # "idle" ~> pc[p] = "idle"
=============================================================================
