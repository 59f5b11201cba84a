# Xetral: TLA+ models of the money and session core

Xetral is a wallet: a NestJS API (`apps/api`) over PostgreSQL, a double-entry
ledger (`packages/ledger`), identity (`packages/identity`), provider adapters
(`packages/providers`) and web and mobile clients over a shared session client
(`packages/client`). Its correctness rests on a few things that tests hardly
reach: several processes of the API share the database, providers answer late,
twice or never, and every flow that moves money is a sequence of transactions
that may be cut between any two. These modules model that core, TLC checks small
instances of it, and TLAPS proves every invariant those runs check, and the
refinements, for all instances.

Paths below are relative to `src/`.

## 1. The system

| Part | State it keeps | Operations | What is hard | What makes it correct |
|---|---|---|---|---|
| Ledger: `packages/ledger/src/ledger-service.ts`, `intent.ts`, `sql/001_ledger.sql` | accounts, balances, journal entries and postings | `post(intent, {precondition, onEntry})` | row locks, unique indexes, deadlocks, lost commits, replays | covered customer accounts, derived balances, one entry per key, truthful answers |
| Bank payouts: `apps/api/src/payouts`, recovery screen in `apps/api/src/admin` | `bank_payouts` rows, three ledger keys per payout | submit, settle, complete, reverse; webhook, sweep, staff buttons | the rail's answer lost, deciders with stale rows, crashes | paid or given back, never both; the row tells the ledger; the money is decided in the end |
| Catalogue purchases: `apps/api/src/purchases` | `purchases` rows, three keys | buy, settle, reverse; sweep, staff resolve and refund | as payouts, without a provider that refuses duplicates | delivered or returned, bought once, outcome learned |
| Deposits: `apps/api/src/funding` | virtual accounts, `deposits` | webhooks of three rails, reconciliation, attribution by staff | lost and repeated deliveries, a crash between entry and row | one credit per arrival, though no webhook comes; suspense is where the row says |
| Crypto: `apps/api/src/crypto` | `crypto_withdrawals`, `crypto_deposits` | withdraw, apply a receipt, two sweeps, two kinds of event | failed, then confirmed; events lost or in the wrong order | pending is the open holds; given back only on the provider's word |
| Transfers and limits: `apps/api/src/wallet` | none beyond the ledger | transfer, limit precondition | totals read before the entry is visible, entries dated before they commit | no day over its ceiling, no hour over its count |
| Cards: `apps/api/src/cards` | cards, authorizations, settlements | issue, fund, webhook events, freeze | events repeated and out of order | a hold is closed once and by its own money |
| Gift cards: `apps/api/src/giftcards` | submissions | sell, approve, reject, claw back, release | reviewers and the release sweep race | released or clawed back, never both |
| Notifications: `apps/api/src/notifications` | outbox rows with leases | enqueue, sweep, immediate send | leases that lapse, lost answers | sent or abandoned in the end, one sender per lease |
| Sign-in and sessions: `apps/api/src/auth`, `packages/identity/sql/002_identity.sql`, `packages/ledger/sql/056_reset_codes.sql` | devices, sessions, refresh tokens, reset codes, account status | login, refresh, logout, revoke, change and reset password, freeze, close | a login under way while something is revoked, two presentations of one token | revocation is final and complete, a replay is noticed |
| Session client: `packages/client/src/session.ts`, `client.ts`, `apps/web/src/lib/session.ts`, the web app's route handlers | the access token of a page, a cookie, two latches | boot, refresh, request and retry, sign out, reload | an exchange in the air while another begins, or while the customer signs out | one exchange shared by all, no replay unless an answer is lost, signed out is out |
| Currency exchange: `apps/api/src/fx` | quotes, trades | quote, accept | stale quotes | planned |
| Everything else | settings, cases, verifications, consent, recipients, reports | single-row edits and reads | little | PROJECT.json gives the reason for each |

The parts interact through the database and the ledger. A flow calls
`ledger.post`, whose `precondition` runs inside the transaction before the entry
(where flows re-read and lock their own row, and where the limits are asked) and
whose `onEntry` writes the flow's row on the entry's own transaction. Providers
are called between transactions, never inside one. Webhooks, interval sweeps and
the recovery screen all end in the same settle and reverse functions of a flow,
from their own snapshots of its row. Payouts, purchases, card charges, gift cards
and crypto all keep what they hold in one pending account per customer and
currency. A session lives in the database; clients hold its newest refresh token.

## 2. Modules

| Module | Models | Checked by | Proved in |
|---|---|---|---|
| `AtomicLedger` | what callers believe of `post()`: one atomic step, complete or absent | | |
| `Ledger` | `post()` statement by statement under PostgreSQL's locks | `MCLedger` | `LedgerProofs` |
| `Hold` | what a flow that holds money promises: taken once, then spent or returned once and in full | | |
| `Payouts` | bank payouts, their deciders and the rail | `MCPayouts` | `PayoutsProofs` |
| `Purchases` | catalogue purchases, their deciders and the provider | `MCPurchases` | `PurchasesProofs` |
| `Deposits` | arrivals on three rails, the sweep, attribution | `MCDeposits` | `DeliveryProofs` |
| `CryptoWithdrawals`, `CryptoDeposits` | crypto going out and coming in | `MCCrypto` | `CryptoProofs` |
| `CryptoAccount` | both, over one wallet and one pending account | `MCCrypto` | `CryptoProofs` |
| `Limits` | the ceilings as a precondition of the entry | `MCLimits` | `LedgerProofs` |
| `CardHolds`, `GiftCards` | card events; gift cards under review and on hold | `MCPending` | `PendingProofs` |
| `PendingAccount` | both, over one pending account | `MCPending` | `PendingProofs` |
| `Outbox` | owed mail, its two senders and their leases | `MCOutbox` | `DeliveryProofs` |
| `Sessions` | devices, sessions, refresh tokens, reset codes, account status | `MCSessions` | `SessionsProofs` |
| `SessionClient` | one browser tab over the refresh tokens | `MCSessionClient` | `SessionsProofs` |
| `Sums` | lemmas on sums over finite sets | | itself |

The faulty variants in the modules (named so in their comments) are not part of
any specification: each is the mutation a property of the runs has to notice.

A proof module extends the modules it is about. Where it takes up two of them
(`LedgerProofs` a ledger and the limits asked before it posts, `DeliveryProofs` the
arrivals and the mail that are delivered again and again, `SessionsProofs` the two
ends of a refresh token) the second has names of its own for what both would call
`Init`, `Next` and `Spec`: `LimitsSpec`, `OutboxSpec`, `ClientSpec`.

### Ledger

A poster is one call of `post()`. Its transaction is split exactly where PostgreSQL
lets another one in: the insert under the unique idempotency key (`keyLock`), the
insert of an account (`newLock`) and the balance row locked by each posting's trigger
(`rowLock`). `Post` is `assertBalanced`; `Precondition` (with the BEGIN),
`InsertEntry`, `ResolveAccount`, `CreateAccount`, `InsertPosting`, `OnEntry` and
`Commit` follow the function; `PreconditionThrows`, `OnEntryThrows` and the failing
branches are its errors. `Replay` is the branch after a unique violation on the key;
the catch block takes a unique violation of the hook's for one too, and
`RereadAfterHook` looks for an entry under the key, which only a rival can have
written since. `CommitUnheard` is a COMMIT whose acknowledgement is lost, `Crash` a
dead connection, `DeadlockVictim` the detector aborting one member of a cycle of
waits. Amounts are integers without width: `bigint` and `BIGINT` values do not
overflow at the sums a wallet holds. The order in which balances are locked is the
order of the intent's legs, as in the code.

`AtomicLedger` has one action, `PostEntry`; `ImplementsAtomic` states that the
locked, interleaved ledger implements it.

### Payouts, Purchases and Hold

Each post in these two modules, and in the flows below, is one step, with its
precondition and hook. That is what `ImplementsAtomic` establishes for `Ledger`,
and it keeps the flows small enough to explore their own interleavings: requests
and workers advance by one database transaction or one provider call at a time and
decide on the `snap` (the row as they read it), the `verdict` (what the provider
said) and `seen` (whether they saw a settlement). Requests on the `wire` can be
accepted, refused, or accepted with the answer lost; a process can die in any place
(`Crash`), and its message stays on the wire.

In `Payouts`, `Submit`, `Decline`, `Reserve`, `InsertRow`, `Dispatch`, `GiveUp` and
`Answered` are the submission; `Settle`, `Complete`, `ReadSettlement`, `Reverse` and
`Return` are what every decider shares; `Start`, `ReadRow` and `Ask` are one run of
the webhook, the sweep, the list or a recovery button, chosen by `role`. The rail
remembers references and refuses a duplicate, as `src` relies on. In `Purchases`
the provider need not, so `BoughtOnce` says it is asked once; and an adapter's "failed"
(`Words`) is not the provider's: VTpass's reads every code but two as a failure, of an
order or of a question about one. `misread` is history, the orders that such an answer
was about although the provider had them and had not failed them. `OtherHolds` is money
of other flows in the customer's single pending account: without it a wrong
reversal would be refused by the overdraft guard and go unnoticed.

`Hold` is the abstract specification of both: `AsHold` maps the ledger keys of a
flow to a stage, and `ImplementsHold` says every step of the flow is a step of
`Hold` or a stutter.

One assumption concerns time. The sweep takes a row only after a grace period.
`Aged` states what it is for: by then the request that wrote the row has its answer
or has given up, and what it sent has arrived or never will. The provider can still
be working on the order.

### Deposits

`Deliver` is one delivery of a webhook up to the post, and decides on the ceiling and
the account it reads; `Post` is the ledger entry under the rail's key, `InsertRow` the
`deposits` row in a transaction of its own, `Die` a process that dies in between. The
three rails differ where the code does: which question is asked first (`Resolution`),
whether money above the ceiling has a key of its own (`UsesEventKey`), and whether a
replay is taken for a row already written (`LeavesReplaysAlone`). `tried` is history,
the ways an arrival was read by those who posted, and `ReadApart` says that two of
them differ where one key serves both. `SweepStart`, `SweepLook`, `SweepPost`,
`SweepRow` and `SweepEnd` are the reconciliation under its advisory lock; `Read` is
the window of active accounts with the lowest ids that its query returns; it skips the
rails this deployment cannot ask (`Asked`). `Attribute` is staff moving money out of
suspense; `Close` and `MoveCeiling` change what a delivery reads, at any time.

### CryptoWithdrawals, CryptoDeposits and CryptoAccount

A request to withdraw advances by `Quote`, `Reserve`, `InsertRow`, `Send` (or
`NotSent`, a connection never made) and `Answered`; `GiveUp` leaves the row reserved.
`MarkBroadcast`, `Settle` and `Fail` are `applyReceipt`, shared by the request and by
the sweep, whose `Ask` takes one of the oldest open rows (`Window`). `Moves` is the
provider, which may say *confirmed* of what it called failed. A deposit is told of
by `DeliverSeen`, `DeliverConfirmed` or the `Sweep`; `Hold` and `Note`, `Confirm` and
`Finish` are the two entries with the rows that follow them. `denied` is history:
the withdrawals the provider refused, never got or said failed. `CryptoAccount` puts
both over one wallet and one pending account, so that a wrong settlement is paid
for by somebody's deposit and does not stop at the overdraft guard.

### Limits

`ReadLimits` reads the lower of two ceilings on the pool, before the transaction;
`Begin` takes the time an entry will carry; `Check` is the precondition under the
advisory lock of customer and scope, where a key already posted skips every rule;
`CommitMovement` writes the entry and lets go of the lock. `MoveTier` and `MoveFlow`
are staff, `Tick` the clock. `entries` keeps, with each movement, the ceiling it was
allowed under: history that `DayWithinCeiling` compares with. Purchases have no hourly
count in the code; the instance gives them one too high to bind.

### CardHolds, GiftCards and PendingAccount

`Receive` is a delivery of a card event up to its transaction, with the hold read
without a lock; `Authorize`, `Settle`, `SettleLate`, `Expire` and `Refund` are the
entries of the four kinds, under the row lock where the code takes it. A settlement or
an expiry that names no authorization (`Unnamed`) is `SettleUnnamed` or
`ExpireUnnamed`: it posts what its payload says, with no lock and no row. An
authorization told of again under another event id posts again, while the row keeps
the first (`opening`). `EndWithout` is a replay, a refusal or a death. In `GiftCards`,
`Look` is what a reviewer sees; `Approve`, `Reject` and `Clawback` look again under
the lock; `Mature` is the hold's end, `SweepReads` and `Release` the sweep.
`PendingAccount` composes the two over one `pending`, the way `CryptoAccount` does:
each part alone would hide a hold that takes more than its own behind the overdraft
guard.

### Outbox

`Enqueue` is a row committed with its event. `SweepClaim` and `ClaimNow` lease rows by
pushing `next_attempt_at` out; `Send` is the delivery of one row of the batch up to
what there is to record, `Record` the guarded update, `SenderDies` a process with its
claims. `ComesDue` is a lease that lapses or a backoff that is over. `read` is the
attempts as the claim read them, which is what a failure counts from; `holds` is
history, the leases that have not lapsed. A process without its keyring
(`Reconfigure`) claims rows and leaves them, uncounted (`SendNothing`).

### Sessions

One customer. `Login`, `FindDevice`, `TouchDevice`, `OpenSession` and `LoginCommit`
are the statements of the login transaction, which sees what others have
committed (READ COMMITTED) and holds the row lock of its device from `TouchDevice`
on. `PresentToken` is the first read of `rotate_refresh_token` and `Rotate` the part
under the family's lock; expiry is left to chance there. `RevokeDevice`,
`Evict`/`EvictFind`/`EvictCommit` (sign out other devices, change password),
`RequestReset`/`Reset`/`WrongCode` and `OrderStatus`/`SetStatus` are the ways to
lose a session, split where they read something they use later. The triggers
(`assert_session_device_valid`, `cascade_device_revocation`,
`assert_revocation_final`) are part of the statement that fires them. `opened`,
`floor` and `replayed` are history: they say which password let a session in, which
password the last reset set, and whether a consumed token came back. Access
tokens, which are not stored, are not modelled here.

### SessionClient

The other end of a refresh token family, in one browser tab. A `page` is one pair of
token store and session; a reload or a sign-out makes the next, and what the old
page has in the air goes on. A `flight` is one exchange of the cookie: a *boot* of the
store that finds nothing in memory, or a *refresh* of the session; `latch` and
`refresh` are the two promises that make callers share one. `Handle` is the API,
which rotates the newest token and revokes the family on any other; `Arrive` is the
route handler's answer with its cookie, `Lose` a failure of the network on either
way. `Read`, `Rejected` and `Answered` are a screen's request, with one refresh and
one retry after a 401; `SignOut`, `Clear`, `AskLogout`, `LoggedOut` and `ResetXetral`
the sign-out, step by step; the API may take the logout or not, and the route handler
does not look. `lost` and `raced` are history: an answer was lost, an exchange
was answered after the logout.

## 3. Runs

| Run | What it shows | Distinct states |
|---|---|---|
| `ledger` | covered accounts, no drift, one entry and hook row per key, conservation per currency, true answers, refinement of `AtomicLedger`, every call returns | 285,916 |
| `payouts` | never both paid and returned, row and ledger agree, pending is exactly the open holds, refinement of `Hold` | 650,833 |
| `payouts_live` | a held or sent payout is decided | 5,874 |
| `purchases` | never both delivered and returned unless the adapter misread an answer, ordered once, row and ledger agree, refinement of `Hold`, the provider's decision is learned | 40,306 |
| `deposits` | credited once and suspense is where the rows say, unless two posted on different readings; an arrival within the ceiling that nobody tells of is booked | 244,220 |
| `crypto` | pending is the open holds, given back only on the provider's word, what was decided is learned | 214,683 |
| `limits` | no day over its ceiling, no hour over its count | 2,535,184 (up to symmetry) |
| `pending` | pending is the open holds of both kinds and what went past them, each hold pays itself and is closed once, a gift card's status tells its entries | 1,706,995 (up to symmetry) |
| `outbox` | one sender per lease, every message is sent or given up once the sweep has its keyring | 26,585 |
| `sessions` | no live session on a revoked device, a replay revokes, revocation is final | 3,586,196 (up to symmetry) |
| `sessions_reset` | violated: a login that read the old password outlives the reset | |
| `session_client` | no replay unless an answer is lost, signed out is out, every request ends | 650,253 |

**Bounds.** Races in this code are between two: two calls of `post()`, two
submissions of one key, two deciders of one payout, two holders of one token. The
instances have two of each, and one of what they race for, plus a neighbour that
would pay for a mistake (another hold in pending, a second wallet, a second
device). Every action of every module fires in a passing run except the staff roles
named in section 5. In particular:

- `MCIntents` holds intents that collide on a key, on a balance row in both orders,
  and that are malformed; three calls per poster allow a post, its replay and a
  reversal.
- `deposits` has one deposit per rail, each above the lower ceiling and within the
  higher, one of which arrives (`MaxArrivals = 1`: the deposits share nothing but the
  ceiling and the sweep); every account may be closed; the sweep's window is two of the
  three accounts, so that one is outside it until another is closed; two of the rails
  can be asked.
- `crypto` has one withdrawal submitted twice and one deposit; the fee of one
  withdrawal is the same in both quotes (`FeesMove = FALSE`, section 5); a sweep dies
  at most once (`MaxDeaths`), a request and a webhook as often as they like. The
  batches of a hundred rows of the sweeps of payouts and purchases are larger than
  the instances and not modelled as windows.
- `limits` has an hour of two ticks and a day of three, so that midnight falls into an
  hour, and ends one tick into the second day (`MaxClock = 3`); two ceilings, two
  people to pay, one of them a stranger too many.
- `pending` has a charge authorized twice, settled above and below its hold and expired,
  another settled with a refund, a settlement and an expiry that name neither, and one
  gift card at two desks.
- `outbox` has a batch as large as both messages and a third try that is the last.
- In `sessions`, `MaxGeneration = 1` gives a family one exchanged and one newest token,
  which is all a replay needs; `MaxAttempts = 2` a guess below the ceiling and one at
  it; `MaxPassword = 1` a password before and after.
- `session_client` has two requests, one change of page, three rotations and three
  exchanges in the air: one on each page and the one that overtakes.

**Fairness.** `Ledger`: weak fairness of each poster's own step. A connection that is
neither waiting nor dead proceeds, and the deadlock detector runs. `Payouts` and
`Purchases`: weak fairness of a request's own steps (an event loop runs what is ready)
and of the provider taking in what reached it; a payment rail also decides what it
took in, while a purchase's provider need not (`DecisionIsLearned` is about what it
did decide). The sweep's steps have strong fairness, there and in `Deposits`,
`CryptoAccount` and `Outbox`, because a sweep can die at any of them and the interval
timer starts another: one that gets to a step again and again is not killed there
every time, and not every question it asks stays without an answer. Where `crypto`
bounds the deaths of a sweep instead, what it does with an answer is weakly fair.
`Outbox` adds that time passes, and asks nothing of the immediate send or of the
provider; that the sweep's process has its keyring from some time on is a condition of
`EveryMessageEnds` and no fairness; `Deposits` and `CryptoAccount` ask nothing of the
webhooks. `SessionClient`: weak fairness of each exchange, refresh and request; they
end, in an answer or in a failure. Crashes are never fair and never forbidden.
`Sessions`, `Limits` and `PendingAccount` state no liveness.

**Deadlock** is not checked: every one of these systems may come to rest, with each
request over and nothing left to decide.

## 4. Proofs

Every invariant, every action property and every refinement that a passing run
checks is also a theorem, for any constants that satisfy the modules' assumptions.
Some need one assumption more; each is named, each is what the instance of its run
satisfies too, and section 5 says what the code does without it.

| Hypothesis | Of | What it says |
|---|---|---|
| `SameBody` | `PayoutsAreHolds`, `BooksAlwaysMatch`, `PurchasesAreHolds` | two submissions of one key agree on what they hold |
| roles without the staff refund (and, for payouts, the resend) | `NeverPaidTwice`, `NeverBoughtTwice`, `DeliveredXorReturned` | nobody gives money back or sends it again without the provider's word |
| `~FeesMove` | `PendingIsHeld` (crypto) | two quotes for one withdrawal have one fee |

**Sums.** `NoDrift`, `Conserved`, `BooksMatchHolds`, `PendingIsTheHolds` and
`DayWithinCeiling` are about `SumFunctionOnSet`, which folds over a set in an order it
chooses. `Sums` proves what it computes: the recursion has a solution
(`FoldExists`), the order does not matter (`SumTake`, `SumAdd`), and a sum follows a
change of one value (`SumChange`), adds up value by value (`SumPlus`) and bounds its
parts (`SumOfPart`). The library states induction over a finite set with an operator
as its parameter, which the provers cannot instantiate; these proofs take a
smallest counterexample among the subsets of the set instead (`SmallestSubset`).

**`LedgerProofs`.** `TypeOK`, `NoOverdraft`, `OneEntryPerKey`, `HookIffEntry` and
`AnswersAreTrue` are not inductive. `IInv` adds: a poster in a transaction runs a
well-formed intent and its leg is in range (`InStep`); it has uncommitted changes
only on balance rows it has locked (`ChangesAreLocked`); those changes, if committed
now, leave the account covered (`CoveredIfCommitted`); and it owns its key
(`KeyIsOwned`). Together they say that a commit cannot invalidate what another
transaction relies on, which is the whole argument for the row lock. `SumsInv` adds
what a transaction's changes are: the sums of the legs it has written, account by
account and currency by currency, and of all of them at its COMMIT (`WorkIsLegs`).
`BalancesAreDerived` and `MoneyIsConserved` follow, the second because
`assertBalanced` looked at each currency; and a commit is then one whole entry,
which is `LedgerIsAtomic`, the refinement the flows rely on. `PromiseSuffices` is the
other half: `AtomicLedger` alone implies covered customers, unique keys, derived
balances and conservation, so what the flows take for granted is not too little.

The same module proves the limits. The lock has one holder per scope (`LockIsOne`),
and whoever holds it passed the rules on the entries there are (`LockedPassed`); so no
window of an hour, wherever it begins, overflows (`EveryHour`), although an entry is
dated before others that were committed earlier, and each day's total is within a
ceiling that one of its own movements was allowed under (`EveryDay`). `Debits` are not
negative, so a day that was full stays the day it was.

**`PayoutsProofs`** has four invariants. `BooksInv` (types, row and ledger agree, the
row is inserted only over a reserve) gives `PayoutTypes`, `RowsTellTheLedger` and
`DecisionsAreFinal`. `HoldInv` adds that what the row says was held is what was
held; it gives `PayoutsAreHolds`, the refinement of `Hold`. `SumInv` takes the books
from there: each step is a step of `Hold`, which moves one payout from one stage to
the next and the balances by as much, so pending is the open holds and the wallet
what was not taken (`BooksAlwaysMatch`). `RailInv` adds to `BooksInv` that a payout has
one sender, that whoever decides does so on an answer of the rail, and that a
returned payout is over at the rail; it gives `NeverPaidTwice`.

**`PurchasesProofs`** goes the same way. `BooksInv` gives `PurchaseTypes` and
`RowsTellTheLedger`, for any roles. `OrderInv` adds that an order has one sender, and
that whoever gives money back does so on an answer of the provider; it gives
`NeverBoughtTwice` and `DeliveredXorReturned`: what is returned was failed, was never
got, or is one of the `misread`. `HoldInv` gives `PurchasesAreHolds`, the
refinement of `Hold`.

**`CryptoProofs`** proves the two halves apart. For withdrawals, `OneSender` (a
withdrawal has one request that may send, which wrote its row, and the provider
knows nothing of it until it is heard), `SentOnce`, `RowComesFirst` and `OnItsWord`
are the invariant, and `OnlyTheProviderGivesBack` follows: a refusal is the
refusal of the only message there is, never of a duplicate. For deposits
`DepositsAreHeldFirst` needs only that rows follow entries. `PendingIsHeld` is about
the account both share: an entry of either half changes what one withdrawal or one
deposit has in it, by the amount it moves, and leaves the other half's sum alone.

**`PendingProofs`** has the invariants of the two parts side by side, each part leaving
the other's variables alone. `HoldsPayThemselves`, `HoldsCloseOnce` and
`GiftStatusIsTrue` follow for any events in any order; `PendingTypes` says that
neither account is ever overdrawn; `PendingIsHeld` is the sum, in which a charge that
settled below its hold keeps what was left, an authorization told of again adds what
no row knows of, and an event that names no authorization takes what no hold gave up
(`StrayOf`). It holds for any events: what is past every hold is counted, not assumed
away.

**`DeliveryProofs`.** For `Deposits`, what has to be strengthened is what a handler
between two transactions relies on (`ArrivalInv`): an entry was posted by somebody who
read the arrival that way (`EntriesWereTried`), a row that is about to say *suspense*
has money there or another reading was posted first (`RowsTell`), and so has what was
attributed (`AttributedWasHeld`). Nothing is assumed of the ceiling or the accounts.
For `Outbox`,
`LeasesExclude` follows from `FreeIsUnheld` (a row that is due is leased to nobody), and
`OutcomesAreFinal` is an action property.

**`SessionsProofs`** proves `TypeOK`, `NoSessionOnRevokedDevice`, `ReplayRevokes` and
`RevocationIsFinal` for any devices, logins, holders and staff. `IInv` adds that a
login past `TouchDevice` holds its device's row (`LoginHoldsRow`) and that the device
is still as it found it (`FoundIsStillSo`): a revocation waits for the row, so it
comes before the login's check or after its commit, where the cascade finds the
session. `SessionFollowsLogin` and `TokensAreOfSessions` keep a family from coming
back to life, and `CodesBelowCeiling` bounds the guesses. `MaxPassword` and
`MaxGeneration` are arbitrary numbers there.

For `SessionClient`, as long as nothing was lost and the store was not cleared
(`Quiet`), the tab is `Calm`: one exchange is in the air (`OneInAir`), it is the page's
own and holds the latch of its kind (`FlightFits`), it carries the cookie, and the
cookie is the family's newest token (`CookieFits`); a refresh that is about to send
does so with nothing in the air (`RefreshFits`). The two latches are different
variables, and what keeps a boot and a refresh apart is that a boot begins only with
nothing in memory and a refresh only with something there. `OnlyLossLooksLikeReuse`
follows. `SignedOutHoldsNothing` needs `NoCookieLeft` (after the answer to a logout no
cookie is left, but for an exchange answered since) and `TakenIsOver` (a logout that
the API took ended the family, so what such an exchange brings is worth nothing).

**Model-checked only**: liveness (`PostReturns`, `HeldIsDecided`, `DecisionIsLearned`,
`ArrivalIsBooked`, `AnswersAreLearned`, `EveryMessageEnds`, `CallsEnd`), which needs
fairness and `ENABLED`.

## 5. Findings and limits

**A finding with a run.** `sessions_reset`: a login that has verified the old password
commits its session after a reset revoked every session it could see, which
`056_reset_codes.sql:186-188` promises it does not.

**What the properties except.** Four steps of the code break what a reader would expect
of it. They are actions of the models; the properties of the passing runs name the
cases they leave behind, no more, and take the exception out and TLC shows the trace.

- *Purchases.* VTpass's adapter reads every code but 000 and 099 as *failed*, of a
  refused requery too (`vtpass-adapter.ts:338`), and the sweep gives the money back
  (`reconciliation.service.ts:289-291`); the provider delivers all the same.
  `DeliveredOrReturned` and its theorem except the `misread` orders.
- *Deposits.* The ceiling is read before the post. When it moves between two deliveries
  of one arrival, the row that follows a replay says *suspense* over money that is in the
  wallet, and an attribution credits it again (`paystack-webhook.service.ts:315`;
  `kora-deposit.service.ts:120` does the same for an account that was closed).
  `CreditedOnce` and `SuspenseIsThere` except arrivals that were read apart in this way
  (`ReadApart`). And a delivery that dies between its entry and its row is answered, the
  next time, as if the row were there (`deposit-webhook.service.ts:130`): only the sweep
  writes it, for the rails it can ask, the accounts in its window, and money within the
  ceiling, which is why `ArrivalIsBooked` states these conditions.
- *Cards.* A settlement or an expiry without an `authorization_id` posts out of the
  account all holds share, with no lock and no row (`webhook.service.ts:128-133`), and
  leaves its hold open, perhaps with nothing behind it, as `cards.e2e.test.ts:882-908`
  expects. `PendingIsTheHolds` counts what such events take (`Strays`);
  `EachHoldPaysItself` and `ClosedByOneEvent` are about events that name their charge.
- *Sign-out.* The route handler does not look at the API's answer
  (`logout/route.ts:20-27`); where the API did not take the logout, an exchange that was
  in the air stores a live cookie after the deletion. `SignedOutIsOut` excepts it.

**Observations.** Steps of the models, or of the code next to them, at which the
code does less than a reader would expect. No run is about them; where a constant
or a role lets TLC show one, it is named.

- Payouts: a staff resend between a sweep's question and its reversal pays a payout
  that is given back (`payout.service.ts:1016`; with the role `"resend"`
  `PaidOrReturned` fails). The staff refunds of payouts and purchases give money back
  while the provider is silent, a decision recorded as the owner's at
  `recovery.service.ts:776-784`; their roles are left out of the passing runs.
- A retry after a crash between the reserve and its row writes a row with its own
  amount and fee over a hold that was taken with others: `payout.service.ts:1534`,
  purchases, and crypto, where the fee is quoted again (`FeesMove`). An exchange
  retried at a moved rate has the same step (`fx.service.ts`, `#post`). One idempotency
  key used for two services strands a hold (`purchase.service.ts:301`).
- Deposits: the rows of the other two rails can disagree with their entries as well
  (`deposit-webhook.service.ts:224`, whose second key lets the sweep book money again
  that is in suspense when the ceiling was raised; `deposit-reconciliation.service.ts:231`).
  The sweeps read the first five hundred accounts or addresses, and a hundred rows: what
  comes after them waits until those in front are closed or decided.
- Ledger: the loser of two first postings to a new account goes on in an aborted
  transaction (`ledger-service.ts:267-276`) and fails.
- Cards: a second settlement after an expiry is charged again (`webhook.service.ts:143`);
  what a settlement leaves of its hold stays in pending (`webhooks.ts:274`); a second
  authorization of one charge posts again and keeps the first row's amount
  (`card-protection.service.ts:150`), so what it added to pending is never released.
- Limits: a payment whose transaction began before midnight, to somebody first paid
  after it, moves that person's first day back and frees a place among the day's new
  recipients (`spending-limits.service.ts:344`). The limit on gift cards sums debits of
  the customer's wallet, and an approval (`giftcard.service.ts:358`) debits none, so it
  never binds beyond the single card. The tier's limit is granted whole in every scope.
- Outbox: on a process with an email provider and no keyring the sweep leases every
  due row again and again and counts nothing (`notification.worker.ts:252`). A message
  abandoned after its answer was lost was delivered, while `012_notifications.sql:71`
  reads *abandoned* as undelivered.
- Sessions: a freeze decided before a close is written over it
  (`admin.service.ts:800`); the account's status is read once, at the start of a login
  (`auth.service.ts:423`); a change of password does not see a sign-in on a new device
  that has not committed (`account-security.service.ts:268`).
- Session client: any error of the API, a 429 or a 500 too, deletes the cookie
  (`refresh/route.ts:34-38`). A boot that ends drops the latch of a newer one. Two tabs
  share the cookie and not the latches.

**Not modelled**, and why: pure reads and reports, which decide nothing;
cryptography, payload translation and user interfaces, which have no interleaving
of their own; settings, verification, cases, consent and recipients, which are
single-row edits under database constraints; the catalogue and its price cache, which
are among the reasons a purchase declines; the routing of a payout between rails and
the provider float, which are decided before any money moves; and the parts planned
below.

## 6. Plan

In this order, each with its runs and, where marked, proofs:

1. `Exchange`: quotes, their expiry and the trade's row, and the rate arithmetic
   against a reference definition.
2. Cards: issuing, funding, closing and the freeze after a flagged charge, over
   `CardHolds`.
3. Disputes: an accepted dispute refunds once; push messages as another sender of
   `Outbox`.
4. The attempt ceilings of PIN and TOTP, and the rate limiter's window.
5. A second tab, and the token store of the mobile app, in `SessionClient`.
