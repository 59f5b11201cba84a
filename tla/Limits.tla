-------------------------------- MODULE Limits ---------------------------------
(***************************************************************************)
(* The ceilings on what one customer may move: SpendingLimitService           *)
(* (apps/api/src/wallet/spending-limits.service.ts), asked by transfers,     *)
(* purchases, conversions and withdrawals as a precondition of the ledger    *)
(* entry.                                                                    *)
(*                                                                          *)
(* The ceilings are read before the entry's transaction.  Inside it an       *)
(* advisory lock of the customer and the scope is taken, a key already posted *)
(* skips every rule, and the rules are computed from the postings: the day's  *)
(* total, the movements of the last hour, the people first paid today.  An    *)
(* entry carries the time its transaction began, not the time it committed.   *)
(***************************************************************************)
EXTENDS Integers, FiniteSetsExt, Functions

CONSTANTS
    Requests,     \* movements, each with its idempotency key
    Handlers,     \* runs of the services that post them
    ScopeOf,      \* request -> the scope it counts in
    Amount,       \* request -> the debit, fee included
    Payee,        \* request -> who is paid
    Nobody,       \* the payee of a movement that pays no customer
    Levels,       \* the values a ceiling is set to
    CountHourly,  \* scope -> movements allowed in an hour
    Strangers,    \* people that may be paid for the first time in a day
    Hour, Day,    \* lengths in ticks
    MaxClock      \* bound on the clock

Scopes == {ScopeOf[r] : r \in Requests}

ASSUME LimitsAssumption ==
    /\ Amount \in [Requests -> Nat \ {0}]
    /\ Levels \subseteq Nat
    /\ CountHourly \in [Scopes -> Nat]
    /\ Strangers \in Nat
    /\ Hour \in Nat \ {0} /\ Day \in Nat \ {0} /\ MaxClock \in Nat

VARIABLES
    clock,
    tier,      \* the daily limit of the customer's tier
    flow,      \* scope -> the daily limit of the flow
    entries,   \* committed entries: request, time and the ceiling they passed
    place,     \* each handler: idle, ready, or inside the lock
    doing,     \* its request
    limit,     \* the ceiling it read
    began      \* when its transaction began

limitsVars == <<clock, tier, flow, entries, place, doing, limit, began>>

Lower(a, b) == IF a < b THEN a ELSE b

LimitsInit ==
    /\ clock = 0
    /\ tier \in Levels
    /\ flow \in [Scopes -> Levels]
    /\ entries = {}
    /\ place = [h \in Handlers |-> "idle"]
    /\ doing = [h \in Handlers |-> CHOOSE r \in Requests : TRUE]
    /\ limit = [h \in Handlers |-> 0]
    /\ began = [h \in Handlers |-> 0]

-----------------------------------------------------------------------------
(* What the rules read, inside a transaction that began at t. *)

Counted(s) == {e \in entries : ScopeOf[e.req] = s}

DayStart(t) == Day * (t \div Day)

\* The debit of each entry.
Debits == [e \in entries |-> Amount[e.req]]

SpentToday(s, t) == SumFunctionOnSet(Debits, {e \in Counted(s) : e.at >= DayStart(t)})

MovedThisHour(s, t) == Cardinality({e \in Counted(s) : e.at > t - Hour})

FirstPaid(p) == Min({e.at : e \in {f \in entries : Payee[f.req] = p}})

\* Everybody the customer ever paid.
Paid == {Payee[e.req] : e \in entries} \ {Nobody}

AlreadyPosted(r) == \E e \in entries : e.req = r

WithinDay(r, l, t) == SpentToday(ScopeOf[r], t) + Amount[r] <= l

\* Faulty variant: the movement that is asked about is not counted.
WithinHourSoFar(r, t) == MovedThisHour(ScopeOf[r], t) <= CountHourly[ScopeOf[r]]

WithinHour(r, t) == MovedThisHour(ScopeOf[r], t) + 1 <= CountHourly[ScopeOf[r]]

\* Only a stranger counts.
WithinStrangers(r, t) ==
    \/ Payee[r] \in Paid \cup {Nobody}
    \/ Cardinality({p \in Paid : FirstPaid(p) >= DayStart(t)}) + 1 <= Strangers

-----------------------------------------------------------------------------
(* A movement. *)

\* precondition: the lower of the two limits, read on the pool.
ReadLimits(h, r) ==
    /\ place[h] = "idle"
    /\ place' = [place EXCEPT ![h] = "ready"]
    /\ doing' = [doing EXCEPT ![h] = r]
    /\ limit' = [limit EXCEPT ![h] = Lower(tier, flow[ScopeOf[r]])]
    /\ UNCHANGED <<clock, tier, flow, entries, began>>

\* post opens the transaction, which takes its time from the clock.
Begin(h) ==
    /\ place[h] = "ready"
    /\ place' = [place EXCEPT ![h] = "open"]
    /\ began' = [began EXCEPT ![h] = clock]
    /\ UNCHANGED <<clock, tier, flow, entries, doing, limit>>

HoldsLock(h, s) == place[h] = "locked" /\ ScopeOf[doing[h]] = s

\* The handler answers.
Ends(h) ==
    /\ place' = [place EXCEPT ![h] = "idle"]
    /\ doing' = [doing EXCEPT ![h] = CHOOSE r \in Requests : TRUE]
    /\ limit' = [limit EXCEPT ![h] = 0]
    /\ began' = [began EXCEPT ![h] = 0]

Passes(r, l, t) ==
    \/ AlreadyPosted(r)
    \/ WithinDay(r, l, t) /\ WithinHour(r, t) /\ WithinStrangers(r, t)

\* Faulty variant: no advisory lock.
CheckUnlocked(h) ==
    /\ place[h] = "open"
    /\ IF Passes(doing[h], limit[h], began[h])
       THEN place' = [place EXCEPT ![h] = "locked"] /\ UNCHANGED <<doing, limit, began>>
       ELSE Ends(h)
    /\ UNCHANGED <<clock, tier, flow, entries>>

\* The hook: the lock, the replay, the rules; a refusal rolls back.
Check(h) ==
    /\ place[h] = "open"
    /\ \A g \in Handlers : ~HoldsLock(g, ScopeOf[doing[h]])
    /\ IF Passes(doing[h], limit[h], began[h])
       THEN place' = [place EXCEPT ![h] = "locked"] /\ UNCHANGED <<doing, limit, began>>
       ELSE Ends(h)
    /\ UNCHANGED <<clock, tier, flow, entries>>

\* The entry, unless the key has one; the commit lets go of the lock.
CommitMovement(h) ==
    /\ place[h] = "locked"
    /\ entries' = IF AlreadyPosted(doing[h]) THEN entries
                  ELSE entries \cup
                       {[req |-> doing[h], at |-> began[h], limit |-> limit[h]]}
    /\ Ends(h)
    /\ UNCHANGED <<clock, tier, flow>>

\* The overdraft guard refuses the entry, or the process dies.
Abort(h) ==
    /\ place[h] # "idle"
    /\ Ends(h)
    /\ UNCHANGED <<clock, tier, flow, entries>>

-----------------------------------------------------------------------------
(* The world. *)

\* Staff change the customer's tier, or a flow's limit.
MoveTier ==
    /\ \E l \in Levels \ {tier} : tier' = l
    /\ UNCHANGED <<clock, flow, entries, place, doing, limit, began>>

MoveFlow ==
    /\ \E s \in Scopes : \E l \in Levels \ {flow[s]} : flow' = [flow EXCEPT ![s] = l]
    /\ UNCHANGED <<clock, tier, entries, place, doing, limit, began>>

Tick ==
    /\ clock < MaxClock
    /\ clock' = clock + 1
    /\ UNCHANGED <<tier, flow, entries, place, doing, limit, began>>

LimitsNext ==
    \/ \E h \in Handlers :
          \/ \E r \in Requests : ReadLimits(h, r)
          \/ Begin(h) \/ Check(h) \/ CommitMovement(h) \/ Abort(h)
    \/ MoveTier \/ MoveFlow \/ Tick

LimitsSpec == LimitsInit /\ [][LimitsNext]_limitsVars

-----------------------------------------------------------------------------
(* Properties. *)

On(s, d) == {e \in Counted(s) : e.at \div Day = d}

\* What a customer moves in a scope on one day stays within a ceiling that one
\* of that day's movements was allowed under: two movements at once, a retry, a
\* transaction that waits past midnight, or a ceiling that moves meanwhile never
\* add up to more.
DayWithinCeiling ==
    \A s \in Scopes, d \in 0..(MaxClock \div Day) :
        On(s, d) # {} => \E e \in On(s, d) : SumFunctionOnSet(Debits, On(s, d)) <= e.limit

\* No hour, wherever it is taken to begin, has more movements of a scope than the
\* hourly count, however long their transactions waited for the lock.
HourWithinCount ==
    \A s \in Scopes, t \in 0..MaxClock :
        Cardinality({e \in Counted(s) : e.at \in t..(t + Hour - 1)}) <= CountHourly[s]
=============================================================================
