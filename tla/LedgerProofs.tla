----------------------------- MODULE LedgerProofs -----------------------------
(***************************************************************************)
(* The ledger, for any posters, keys, accounts and intents: its safety         *)
(* properties from the inductive invariant IInv of Ledger.tla, its sums and    *)
(* the refinement of AtomicLedger; then the limits a caller asks before it     *)
(* posts (Limits), for any requests, handlers, amounts and ceilings.           *)
(***************************************************************************)
EXTENDS Ledger, Limits, Sums

\* A rollback forgets the caller's own work and touches nobody else's.
LEMMA RollbackKeepsInv ==
    ASSUME IInv, NEW p \in Posters, NEW then, NEW how, Rollback(p, then, how),
           how \in {"none", "invalid", "refused", "insufficient", "account_race", "deadlock",
                    "lost"},
           pc[p] # "idle",
           \/ then \in {"idle", "reread"}
           \/ then = "replay" /\ Posted(intent[p].key)
    PROVE  IInv'
<1> USE LedgerAssumption
<1>1. TypeOK'
  BY DEF IInv, TypeOK, Rollback, EndTransaction, Released, NoDelta, tables, PCs, Outcomes
<1>2. InStep'
  BY DEF IInv, TypeOK, InStep, Rollback, tables
<1>3. ChangesAreLocked'
  BY DEF IInv, TypeOK, ChangesAreLocked, Rollback, EndTransaction, Released, NoDelta, tables
<1>4. NoOverdraft'
  BY DEF IInv, NoOverdraft, Rollback, tables
<1>5. CoveredIfCommitted'
  BY DEF IInv, TypeOK, CoveredIfCommitted, NoOverdraft, Rollback, EndTransaction, NoDelta, tables
<1>6. KeyIsOwned'
  <2>1. \A q \in Posters : pc[q] # "idle" => intent[q].key \in Keys
    BY DEF IInv, InStep, Intent
  <2> QED
    BY <2>1 DEF IInv, TypeOK, KeyIsOwned, Posted, Rollback, EndTransaction, Released, tables
<1>7. OneEntryPerKey' /\ HookIffEntry'
  BY DEF IInv, OneEntryPerKey, HookIffEntry, Rollback, tables
<1>8. AnswersAreTrue'
  BY DEF IInv, TypeOK, AnswersAreTrue, Rollback, tables
<1> QED BY <1>1, <1>2, <1>3, <1>4, <1>5, <1>6, <1>7, <1>8 DEF IInv

\* COMMIT of p, heard or not: it owns its key, and it holds every balance row
\* it changed, so no other transaction counted on those rows.
LEMMA WriteKeepsInv ==
    ASSUME IInv, NEW p \in Posters, pc[p] = "commit", Write(p),
           pc' = [pc EXCEPT ![p] = "idle"],
           NEW r, r \in {[how |-> "written", entry |-> Len(journal) + 1],
                         [how |-> "lost", entry |-> 0]},
           answer' = [answer EXCEPT ![p] = r],
           UNCHANGED <<intent, leg, calls>>
    PROVE  IInv'
<1> USE LedgerAssumption
<1> DEFINE e == [key |-> intent[p].key, legs |-> intent[p].legs]
<1>1. /\ intent[p] \in Intents /\ e \in [key : Keys, legs : Seq(Leg)]
      /\ journal' = Append(journal, e) /\ hooks' = Append(hooks, e.key)
  BY DEF IInv, InStep, Intent, Write
<1>2. /\ Len(journal) \in Nat /\ Len(journal') = Len(journal) + 1
      /\ DOMAIN journal = 1..Len(journal) /\ DOMAIN journal' = 1..(Len(journal) + 1)
      /\ \A n \in 1..Len(journal) : journal'[n] = journal[n]
      /\ journal'[Len(journal) + 1] = e
  BY <1>1 DEF IInv, TypeOK
<1>3. TypeOK'
  <2>1. journal' \in Seq([key : Keys, legs : Seq(Leg)]) /\ hooks' \in Seq(Keys)
    BY <1>1 DEF IInv, TypeOK
  <2>2. balance' \in [Accounts -> Int]
    BY DEF IInv, TypeOK, Write
  <2>3. answer' \in [Posters -> [how : Outcomes, entry : Nat]]
    BY <1>2 DEF IInv, TypeOK, Outcomes
  <2> QED
    BY <2>1, <2>2, <2>3 DEF IInv, TypeOK, Write, EndTransaction, Released, NoDelta, PCs
<1>4. InStep'
  BY DEF IInv, TypeOK, InStep
<1>5. ChangesAreLocked'
  BY DEF IInv, TypeOK, ChangesAreLocked, Write, EndTransaction, Released, NoDelta
<1>6. NoOverdraft'
  BY DEF IInv, TypeOK, NoOverdraft, CoveredIfCommitted, Write
<1>7. CoveredIfCommitted'
  <2> SUFFICES ASSUME NEW q \in Posters, NEW a \in Customer PROVE (balance[a] + delta[q][a] >= 0)'
    BY DEF CoveredIfCommitted
  <2>1. balance'[a] = balance[a] + delta[p][a]
    BY DEF Write
  <2>2. CASE q = p
    <3>1. delta'[p][a] = 0
      BY DEF IInv, TypeOK, Write, EndTransaction, NoDelta
    <3> QED
      BY <1>3, <1>6, <2>2, <3>1 DEF TypeOK, NoOverdraft
  <2>3. CASE q # p
    <3>1. delta'[q][a] = delta[q][a]
      BY <2>3 DEF IInv, TypeOK, Write, EndTransaction
    <3>2. delta[q][a] = 0 \/ delta[p][a] = 0
      BY <2>3 DEF IInv, ChangesAreLocked
    <3> QED
      BY <2>1, <3>1, <3>2 DEF IInv, TypeOK, NoOverdraft, CoveredIfCommitted
  <2> QED BY <2>2, <2>3
<1>8. KeyIsOwned'
  <2>1. \A q \in Posters : pc[q] # "idle" => intent[q].key \in Keys
    BY DEF IInv, InStep, Intent
  <2>2. \A k \in Keys : Posted(k)' <=> Posted(k) \/ k = intent[p].key
    BY <1>2 DEF Posted
  <2>3. \A q \in Posters :
          pc[q] \in {"resolve", "create", "posting", "hook", "commit"} /\ q # p
            => intent[q].key # intent[p].key
    BY DEF IInv, KeyIsOwned
  <2> QED
    BY <2>1, <2>2, <2>3 DEF IInv, TypeOK, KeyIsOwned, Write, EndTransaction, Released
<1>9. OneEntryPerKey'
  <2>1. ~Posted(intent[p].key)
    BY DEF IInv, KeyIsOwned
  <2> QED
    BY <1>2, <2>1 DEF IInv, OneEntryPerKey, Posted
<1>10. HookIffEntry'
  <2>1. Len(hooks) = Len(journal) /\ \A n \in 1..Len(journal) : hooks[n] = journal[n].key
    BY <1>2 DEF IInv, TypeOK, HookIffEntry
  <2>2. /\ hooks' \in Seq(Keys) /\ Len(hooks') = Len(journal')
        /\ \A n \in 1..Len(journal') : hooks'[n] = journal'[n].key
    BY <1>1, <1>2, <2>1 DEF IInv, TypeOK
  <2> QED
    BY <1>2, <2>2 DEF HookIffEntry
<1>11. AnswersAreTrue'
  <2>1. r.how = "written" => r.entry = Len(journal) + 1
    OBVIOUS
  <2>2. r.how \in {"written", "lost"}
    OBVIOUS
  <2> SUFFICES ASSUME NEW q \in Posters
               PROVE  (/\ answer[q].how # "unexplained"
                       /\ answer[q].how \in {"written", "replayed"} =>
                             /\ answer[q].entry \in DOMAIN journal
                             /\ journal[answer[q].entry].key = intent[q].key
                       /\ answer[q].how = "written" =>
                             journal[answer[q].entry].legs = intent[q].legs)'
    BY DEF AnswersAreTrue
  <2>3. CASE q = p
    BY <1>2, <2>1, <2>2, <2>3 DEF IInv, TypeOK
  <2>4. CASE q # p
    BY <1>2, <2>4 DEF IInv, TypeOK, AnswersAreTrue
  <2> QED BY <2>3, <2>4
<1> QED BY <1>3, <1>4, <1>5, <1>6, <1>7, <1>8, <1>9, <1>10, <1>11 DEF IInv

\* The steps that only move the program counter of a running call.
LEMMA MoveKeepsInv ==
    ASSUME IInv, NEW p \in Posters, NEW next \in PCs,
           \/ pc[p] = "precondition" /\ next = "insert"
           \/ pc[p] = "resolve" /\ next \in {"posting", "create"}
           \/ pc[p] = "hook" /\ next = "commit",
           pc' = [pc EXCEPT ![p] = next],
           UNCHANGED <<tables, locks, intent, leg, delta, answer, calls>>
    PROVE  IInv'
<1> USE LedgerAssumption
<1>1. TypeOK'
  BY DEF IInv, TypeOK, tables, locks
<1>2. InStep'
  BY DEF IInv, TypeOK, InStep
<1>3. ChangesAreLocked' /\ NoOverdraft' /\ CoveredIfCommitted'
  BY DEF IInv, ChangesAreLocked, NoOverdraft, CoveredIfCommitted, tables, locks
<1>4. KeyIsOwned'
  BY DEF IInv, TypeOK, KeyIsOwned, Posted, tables, locks
<1>5. OneEntryPerKey' /\ HookIffEntry' /\ AnswersAreTrue'
  BY DEF IInv, OneEntryPerKey, HookIffEntry, AnswersAreTrue, tables
<1> QED BY <1>1, <1>2, <1>3, <1>4, <1>5 DEF IInv

\* Every step of post() keeps the invariant.
LEMMA NextKeepsInv == IInv /\ [Next]_vars => IInv'
<1> USE LedgerAssumption
<1> SUFFICES ASSUME IInv, [Next]_vars PROVE IInv'
  OBVIOUS
<1>0. CASE UNCHANGED vars
  BY <1>0 DEF IInv, TypeOK, InStep, ChangesAreLocked, NoOverdraft, CoveredIfCommitted,
              KeyIsOwned, OneEntryPerKey, HookIffEntry, AnswersAreTrue, Posted, vars
<1> SUFFICES ASSUME NEW p \in Posters,
                    (\E i \in Intents : Post(p, i)) \/ Step(p) \/ Crash(p)
             PROVE  IInv'
  BY <1>0 DEF Next
<1>1. ASSUME NEW i \in Intents, Post(p, i) PROVE IInv'
  <2> USE <1>1 DEF Post
  <2>1. TypeOK'
    BY DEF IInv, TypeOK, tables, locks, PCs, Outcomes
  <2>2. InStep'
    BY DEF IInv, TypeOK, InStep, WellFormed, Balanced
  <2>3. ChangesAreLocked' /\ NoOverdraft' /\ CoveredIfCommitted'
    BY DEF IInv, ChangesAreLocked, NoOverdraft, CoveredIfCommitted, tables, locks
  <2>4. KeyIsOwned'
    BY DEF IInv, TypeOK, KeyIsOwned, Posted, tables, locks
  <2>5. OneEntryPerKey' /\ HookIffEntry'
    BY DEF IInv, OneEntryPerKey, HookIffEntry, tables
  <2>6. AnswersAreTrue'
    BY DEF IInv, TypeOK, AnswersAreTrue, tables
  <2> QED BY <2>1, <2>2, <2>3, <2>4, <2>5, <2>6 DEF IInv
<1>2. CASE Precondition(p)
  BY <1>2, MoveKeepsInv DEF Precondition, PCs
<1>3. CASE PreconditionThrows(p)
  BY <1>3, RollbackKeepsInv DEF PreconditionThrows
<1>4. CASE InsertEntry(p)
  <2> DEFINE k == intent[p].key
  <2>1. CASE Posted(k)
    BY <1>4, <2>1, RollbackKeepsInv DEF InsertEntry
  <2>2. CASE ~Posted(k) /\ intent[p].target # NoKey /\ ~Posted(intent[p].target)
    BY <1>4, <2>2, RollbackKeepsInv DEF InsertEntry
  <2>3. CASE ~Posted(k) /\ ~(intent[p].target # NoKey /\ ~Posted(intent[p].target))
    <3>1. /\ pc[p] = "insert" /\ keyLock[k] = NoOne
          /\ keyLock' = [keyLock EXCEPT ![k] = p]
          /\ pc' = [pc EXCEPT ![p] = "resolve"]
          /\ UNCHANGED <<tables, newLock, rowLock, intent, leg, delta, answer, calls>>
      BY <1>4, <2>3 DEF InsertEntry
    <3>2. \A q \in Posters : pc[q] # "idle" => intent[q].key \in Keys
      BY DEF IInv, InStep, Intent
    <3>3. TypeOK'
      BY <3>1 DEF IInv, TypeOK, tables, PCs
    <3>4. InStep'
      BY <3>1 DEF IInv, TypeOK, InStep
    <3>5. ChangesAreLocked' /\ NoOverdraft' /\ CoveredIfCommitted'
      BY <3>1 DEF IInv, ChangesAreLocked, NoOverdraft, CoveredIfCommitted, tables
    <3>6. KeyIsOwned'
      BY <3>1, <3>2, <2>3 DEF IInv, TypeOK, KeyIsOwned, Posted, tables
    <3>7. OneEntryPerKey' /\ HookIffEntry' /\ AnswersAreTrue'
      BY <3>1 DEF IInv, OneEntryPerKey, HookIffEntry, AnswersAreTrue, tables
    <3> QED BY <3>3, <3>4, <3>5, <3>6, <3>7 DEF IInv
  <2> QED BY <2>1, <2>2, <2>3
<1>5. CASE ResolveAccount(p)
  BY <1>5, MoveKeepsInv DEF ResolveAccount, PCs
<1>6. CASE CreateAccount(p)
  <2> DEFINE a == Current(p).account
  <2>1. CASE a \in accounts
    BY <1>6, <2>1, RollbackKeepsInv DEF CreateAccount
  <2>2. CASE a \notin accounts
    <3>1. /\ pc[p] = "create"
          /\ newLock' = [newLock EXCEPT ![a] = p]
          /\ pc' = [pc EXCEPT ![p] = "posting"]
          /\ UNCHANGED <<tables, keyLock, rowLock, intent, leg, delta, answer, calls>>
      BY <1>6, <2>2 DEF CreateAccount
    <3>2. TypeOK'
      BY <3>1 DEF IInv, TypeOK, tables, PCs
    <3>3. InStep'
      BY <3>1 DEF IInv, TypeOK, InStep
    <3>4. ChangesAreLocked' /\ NoOverdraft' /\ CoveredIfCommitted'
      BY <3>1 DEF IInv, ChangesAreLocked, NoOverdraft, CoveredIfCommitted, tables
    <3>5. KeyIsOwned'
      BY <3>1 DEF IInv, TypeOK, KeyIsOwned, Posted, tables
    <3>6. OneEntryPerKey' /\ HookIffEntry' /\ AnswersAreTrue'
      BY <3>1 DEF IInv, OneEntryPerKey, HookIffEntry, AnswersAreTrue, tables
    <3> QED BY <3>2, <3>3, <3>4, <3>5, <3>6 DEF IInv
  <2> QED BY <2>1, <2>2
<1>7. CASE InsertPosting(p)
  <2> DEFINE a == Current(p).account
  <2>1. CASE Covered(p)
    <3>1. /\ pc[p] = "posting" /\ rowLock[a] \in {NoOne, p}
          /\ rowLock' = [rowLock EXCEPT ![a] = p]
          /\ delta' = [delta EXCEPT ![p][a] = @ + Current(p).amount]
          /\ leg' = [leg EXCEPT ![p] = @ + 1]
          /\ pc' = [pc EXCEPT ![p] =
                       IF leg[p] = Len(intent[p].legs) THEN "hook" ELSE "resolve"]
          /\ UNCHANGED <<tables, keyLock, newLock, intent, answer, calls>>
      BY <1>7, <2>1 DEF InsertPosting
    <3>2. /\ intent[p].legs \in Seq(Leg) /\ Len(intent[p].legs) \in Nat
          /\ leg[p] \in 1..Len(intent[p].legs) /\ a \in Accounts /\ Current(p).amount \in Int
      <4>1. intent[p].legs \in Seq(Leg) /\ leg[p] \in 1..Len(intent[p].legs)
        BY <3>1 DEF IInv, InStep, TypeOK, Intent
      <4>2. Current(p) \in Leg
        BY <4>1 DEF Current
      <4> QED BY <4>1, <4>2 DEF Leg
    <3>3. TypeOK'
      <4>1. delta' \in [Posters -> [Accounts -> Int]]
        BY <3>1, <3>2 DEF IInv, TypeOK
      <4>2. leg' \in [Posters -> Nat \ {0}] /\ pc' \in [Posters -> PCs]
        BY <3>1, <3>2 DEF IInv, TypeOK, PCs
      <4>3. rowLock' \in [Accounts -> Posters \cup {NoOne}]
        BY <3>1, <3>2 DEF IInv, TypeOK
      <4> QED BY <3>1, <4>1, <4>2, <4>3 DEF IInv, TypeOK, tables
    <3>4. InStep'
      BY <3>1, <3>2 DEF IInv, TypeOK, InStep
    <3>5. ChangesAreLocked'
      BY <3>1, <3>2 DEF IInv, TypeOK, ChangesAreLocked
    <3>6. NoOverdraft'
      BY <3>1 DEF IInv, NoOverdraft, tables
    <3>7. CoveredIfCommitted'
      <4> SUFFICES ASSUME NEW q \in Posters, NEW b \in Customer
                   PROVE  (balance[b] + delta[q][b] >= 0)'
        BY DEF CoveredIfCommitted
      <4>1. CASE q = p /\ b = a
        BY <2>1, <3>1, <3>2, <4>1 DEF IInv, TypeOK, Covered, NextBalance, tables
      <4>2. CASE ~(q = p /\ b = a)
        BY <3>1, <3>2, <4>2 DEF IInv, TypeOK, CoveredIfCommitted, tables
      <4> QED BY <4>1, <4>2
    <3>8. KeyIsOwned'
      BY <3>1 DEF IInv, TypeOK, KeyIsOwned, Posted, tables
    <3>9. OneEntryPerKey' /\ HookIffEntry' /\ AnswersAreTrue'
      BY <3>1 DEF IInv, OneEntryPerKey, HookIffEntry, AnswersAreTrue, tables
    <3> QED BY <3>3, <3>4, <3>5, <3>6, <3>7, <3>8, <3>9 DEF IInv
  <2>2. CASE ~Covered(p)
    BY <1>7, <2>2, RollbackKeepsInv DEF InsertPosting
  <2> QED BY <2>1, <2>2
<1>8. CASE OnEntry(p)
  BY <1>8, MoveKeepsInv DEF OnEntry, PCs
<1>9. CASE OnEntryThrows(p)
  BY <1>9, RollbackKeepsInv DEF OnEntryThrows
<1>10. CASE Commit(p)
  <2>1. CASE Balanced(intent[p].legs)
    BY <1>10, <2>1, WriteKeepsInv DEF Commit
  <2>2. CASE ~Balanced(intent[p].legs)
    BY <1>10, <2>2, RollbackKeepsInv DEF Commit
  <2> QED BY <2>1, <2>2
<1>11. CASE CommitUnheard(p)
  BY <1>11, WriteKeepsInv DEF CommitUnheard
<1>12. CASE Replay(p)
  <2> DEFINE same == {n \in DOMAIN journal : journal[n].key = intent[p].key}
             n0 == CHOOSE n \in same : TRUE
  <2>1. same # {}
    BY <1>12 DEF IInv, KeyIsOwned, Posted, Replay
  <2>2. n0 \in DOMAIN journal /\ journal[n0].key = intent[p].key /\ n0 \in Nat
    BY <2>1 DEF IInv, TypeOK
  <2>3. /\ pc[p] = "replay" /\ pc' = [pc EXCEPT ![p] = "idle"]
        /\ answer' = [answer EXCEPT ![p] = [how |-> "replayed", entry |-> n0]]
        /\ UNCHANGED <<tables, locks, intent, leg, delta, calls>>
    BY <1>12, <2>1 DEF Replay
  <2> HIDE DEF n0, same
  <2>4. TypeOK'
    BY <2>2, <2>3 DEF IInv, TypeOK, tables, locks, PCs, Outcomes
  <2>5. InStep'
    BY <2>3 DEF IInv, TypeOK, InStep
  <2>6. ChangesAreLocked' /\ NoOverdraft' /\ CoveredIfCommitted'
    BY <2>3 DEF IInv, ChangesAreLocked, NoOverdraft, CoveredIfCommitted, tables, locks
  <2>7. KeyIsOwned'
    BY <2>3 DEF IInv, TypeOK, KeyIsOwned, Posted, tables, locks
  <2>8. OneEntryPerKey' /\ HookIffEntry'
    BY <2>3 DEF IInv, OneEntryPerKey, HookIffEntry, tables
  <2>9. AnswersAreTrue'
    BY <2>2, <2>3 DEF IInv, TypeOK, AnswersAreTrue, tables
  <2> QED BY <2>4, <2>5, <2>6, <2>7, <2>8, <2>9 DEF IInv
<1>13. CASE RereadAfterHook(p)
  <2> DEFINE same == {n \in DOMAIN journal : journal[n].key = intent[p].key}
  <2>1. /\ pc[p] = "reread" /\ pc' = [pc EXCEPT ![p] = "idle"]
        /\ UNCHANGED <<tables, locks, intent, leg, delta, calls>>
    BY <1>13 DEF RereadAfterHook
  <2>2. PICK how \in {"refused", "replayed"}, n \in Nat :
           /\ answer' = [answer EXCEPT ![p] = [how |-> how, entry |-> n]]
           /\ how = "replayed" => n \in DOMAIN journal /\ journal[n].key = intent[p].key
    <3>1. CASE answer' = [answer EXCEPT ![p] = [how |-> "refused", entry |-> 0]]
      BY <3>1
    <3>2. CASE \E n \in same : answer' = [answer EXCEPT ![p] = [how |-> "replayed", entry |-> n]]
      <4>1. same \subseteq Nat
        BY DEF IInv, TypeOK
      <4> QED BY <3>2, <4>1
    <3> QED BY <1>13, <3>1, <3>2 DEF RereadAfterHook
  <2>3. TypeOK'
    BY <2>1, <2>2 DEF IInv, TypeOK, tables, locks, PCs, Outcomes
  <2>4. InStep'
    BY <2>1 DEF IInv, TypeOK, InStep
  <2>5. ChangesAreLocked' /\ NoOverdraft' /\ CoveredIfCommitted'
    BY <2>1 DEF IInv, ChangesAreLocked, NoOverdraft, CoveredIfCommitted, tables, locks
  <2>6. KeyIsOwned'
    BY <2>1 DEF IInv, TypeOK, KeyIsOwned, Posted, tables, locks
  <2>7. OneEntryPerKey' /\ HookIffEntry'
    BY <2>1 DEF IInv, OneEntryPerKey, HookIffEntry, tables
  <2>8. AnswersAreTrue'
    BY <2>1, <2>2 DEF IInv, TypeOK, AnswersAreTrue, tables
  <2> QED BY <2>3, <2>4, <2>5, <2>6, <2>7, <2>8 DEF IInv
<1>14. CASE DeadlockVictim(p)
  <2>1. pc[p] # "idle"
    BY <1>14 DEF DeadlockVictim, OnCycle, Waits
  <2> QED BY <1>14, <2>1, RollbackKeepsInv DEF DeadlockVictim
<1>15. CASE Crash(p)
  BY <1>15, RollbackKeepsInv DEF Crash, InTransaction
<1> QED
  BY <1>1, <1>2, <1>3, <1>4, <1>5, <1>6, <1>7, <1>8, <1>9, <1>10, <1>11, <1>12, <1>13, <1>14,
     <1>15
     DEF Step

\* An empty ledger with no call running satisfies the invariant.
LEMMA InitHasInv == Init => IInv
  BY LedgerAssumption DEF Init, IInv, TypeOK, InStep, ChangesAreLocked, NoOverdraft,
                          CoveredIfCommitted, KeyIsOwned, OneEntryPerKey, HookIffEntry,
                          AnswersAreTrue, NoDelta, NoIntent, PCs, Outcomes

\* The invariant holds in every state of the ledger.
THEOREM LedgerInvariant == Spec => []IInv
  BY InitHasInv, NextKeepsInv, PTL DEF Spec

\* Type correctness of the ledger.
THEOREM TypeCorrect == Spec => []TypeOK
  BY LedgerInvariant, PTL DEF IInv

\* However many posts race, with whatever intents, no customer account is
\* ever committed below zero (assert_no_overdraft under the row lock).
THEOREM CustomersAreCovered == Spec => []NoOverdraft
  BY LedgerInvariant, PTL DEF IInv

\* At most one entry is ever committed under an idempotency key.
THEOREM KeysAreUnique == Spec => []OneEntryPerKey
  BY LedgerInvariant, PTL DEF IInv

\* onEntry's record exists exactly once for each entry and never without it.
THEOREM HooksFollowEntries == Spec => []HookIffEntry
  BY LedgerInvariant, PTL DEF IInv

\* Every answer post() gives is true of the journal, and a unique violation
\* always finds the entry it collided with.
THEOREM AnswersHold == Spec => []AnswersAreTrue
  BY LedgerInvariant, PTL DEF IInv

-----------------------------------------------------------------------------
(* The sums: the books against the journal, and the money in them. *)

\* The legs of an entry are finitely many integers.
LEMMA LegsAreInts ==
    ASSUME NEW legs \in Seq(Leg)
    PROVE  /\ IsFiniteSet(DOMAIN legs) /\ DOMAIN legs = 1..Len(legs) /\ Len(legs) \in Nat
           /\ IntsOn(AmountsOf(legs), DOMAIN legs)
           /\ \A n \in DOMAIN legs : legs[n].amount \in Int /\ legs[n].account \in Accounts
           /\ \A S \in SUBSET DOMAIN legs :
                 IsFiniteSet(S) /\ SumFunctionOnSet(AmountsOf(legs), S) \in Int
<1>1. DOMAIN legs = 1..Len(legs) /\ Len(legs) \in Nat
  OBVIOUS
<1>2. IsFiniteSet(DOMAIN legs)
  BY <1>1, FS_Interval
<1>3. \A n \in DOMAIN legs : legs[n].amount \in Int /\ legs[n].account \in Accounts
  <2>1. \A n \in DOMAIN legs : legs[n] \in Leg
    OBVIOUS
  <2> QED BY <2>1 DEF Leg
<1>4. IntsOn(AmountsOf(legs), DOMAIN legs)
  BY <1>3 DEF IntsOn, AmountsOf
<1>5. ASSUME NEW S \in SUBSET DOMAIN legs
      PROVE  IsFiniteSet(S) /\ SumFunctionOnSet(AmountsOf(legs), S) \in Int
  <2>1. IsFiniteSet(S)
    BY <1>2, FS_Subset
  <2>2. IntsOn(AmountsOf(legs), S)
    BY <1>4 DEF IntsOn
  <2> QED BY <2>1, <2>2, SumType
<1> QED BY <1>1, <1>2, <1>3, <1>4, <1>5

\* The abstract specification sums as the code does.
LEMMA SumsAreSums ==
    ASSUME NEW legs
    PROVE  /\ \A S : Atomic!SumOf(legs, S) = SumFunctionOnSet(AmountsOf(legs), S)
           /\ \A a : Atomic!Effect(legs, a) =
                     SumFunctionOnSet(AmountsOf(legs), {n \in DOMAIN legs : legs[n].account = a})
<1>1. \A S : Atomic!SumOf(legs, S) = SumFunctionOnSet(AmountsOf(legs), S)
  <2>1. \A f, S : Atomic!SumFunctionOnSet(f, S) = SumFunctionOnSet(f, S)
    BY DEF SumFunctionOnSet, FoldFunctionOnSet, MapThenFoldSet, Atomic!SumFunctionOnSet,
           Atomic!FoldFunctionOnSet, Atomic!MapThenFoldSet
  <2> QED BY <2>1, Zenon DEF Atomic!SumOf, AmountsOf
<1>2. \A a : Atomic!Effect(legs, a) =
              Atomic!SumOf(legs, {n \in DOMAIN legs : legs[n].account = a})
  BY Zenon DEF Atomic!Effect
<1> QED BY <1>1, <1>2, Zenon

\* No leg written, no change made.
LEMMA NoLegNoMove ==
    ASSUME NEW legs
    PROVE  AreMoves(NoDelta, legs, {})
<1>1. SumFunctionOnSet(AmountsOf(legs), {}) = 0
  BY SumEmpty
<1>2. ASSUME NEW a \in Accounts
      PROVE  NoDelta[a] = SumFunctionOnSet(AmountsOf(legs), {n \in {} : legs[n].account = a})
  <2>1. {n \in {} : legs[n].account = a} = {}
    OBVIOUS
  <2>2. NoDelta[a] = 0
    BY DEF NoDelta
  <2> QED BY <1>1, <2>1, <2>2, Zenon
<1>3. ASSUME NEW c \in Currencies
      PROVE  SumFunctionOnSet(NoDelta, AccountsIn(c)) =
               SumFunctionOnSet(AmountsOf(legs), {n \in {} : CurrencyOf[legs[n].account] = c})
  <2>1. {n \in {} : CurrencyOf[legs[n].account] = c} = {}
    OBVIOUS
  <2>2. AccountsIn(c) \subseteq Accounts
    BY DEF AccountsIn
  <2>3. IsFiniteSet(AccountsIn(c)) /\ \A a \in AccountsIn(c) : NoDelta[a] = 0
    BY <2>2, LedgerAssumption, FS_Subset DEF NoDelta
  <2>4. SumFunctionOnSet(NoDelta, AccountsIn(c)) = 0
    BY <2>3, SumZero
  <2> QED BY <1>1, <2>1, <2>4, Zenon
<1> QED BY <1>2, <1>3 DEF AreMoves

\* One more leg adds its amount to its account, and to the sum of its currency.
LEMMA OneMoreLeg ==
    ASSUME NEW legs \in Seq(Leg), NEW d \in [Accounts -> Int], NEW S \in SUBSET DOMAIN legs,
           NEW k \in DOMAIN legs, k \notin S, AreMoves(d, legs, S),
           NEW e \in [Accounts -> Int], e[legs[k].account] = d[legs[k].account] + legs[k].amount,
           \A a \in Accounts \ {legs[k].account} : e[a] = d[a]
    PROVE  AreMoves(e, legs, S \cup {k})
<1> DEFINE f == AmountsOf(legs)
           b == legs[k].account
           C == CurrencyOf[b]
<1>1. /\ legs[k].amount \in Int /\ b \in Accounts /\ f[k] = legs[k].amount
      /\ \A R \in SUBSET DOMAIN legs :
            IsFiniteSet(R) /\ IntsOn(f, R) /\ SumFunctionOnSet(f, R) \in Int
  BY LegsAreInts DEF IntsOn, AmountsOf
<1>2. ASSUME NEW R \in SUBSET S
      PROVE  SumFunctionOnSet(f, R \cup {k}) = SumFunctionOnSet(f, R) + f[k]
  <2>1. R \in SUBSET DOMAIN legs /\ R \cup {k} \in SUBSET DOMAIN legs /\ k \notin R
    OBVIOUS
  <2>2. IsFiniteSet(R) /\ IntsOn(f, R \cup {k})
    BY <1>1, <2>1
  <2> HIDE DEF f
  <2> QED BY <2>1, <2>2, SumAdd
<1>3. e[b] = d[b] + f[k] /\ \A a \in Accounts \ {b} : e[a] = d[a]
  BY <1>1
<1>4. ASSUME NEW a \in Accounts
      PROVE  e[a] = SumFunctionOnSet(f, {n \in S \cup {k} : legs[n].account = a})
  <2> DEFINE R == {n \in S : legs[n].account = a}
  <2>1. d[a] = SumFunctionOnSet(f, R)
    BY DEF AreMoves
  <2>2. CASE a = b
    <3>1. {n \in S \cup {k} : legs[n].account = a} = R \cup {k}
      BY <2>2
    <3>2. SumFunctionOnSet(f, R \cup {k}) = SumFunctionOnSet(f, R) + f[k]
      BY <1>2
    <3>3. SumFunctionOnSet(f, R \cup {k}) = e[a]
      BY <1>3, <2>1, <2>2, <3>2, Zenon
    <3> QED BY <3>1, <3>3, Zenon
  <2>3. CASE a # b
    <3>1. {n \in S \cup {k} : legs[n].account = a} = R
      BY <2>3
    <3>2. e[a] = d[a]
      BY <1>3, <2>3
    <3> QED BY <2>1, <3>1, <3>2, Zenon
  <2> QED BY <2>2, <2>3
<1>5. ASSUME NEW c \in Currencies
      PROVE  SumFunctionOnSet(e, AccountsIn(c)) =
               SumFunctionOnSet(f, {n \in S \cup {k} : CurrencyOf[legs[n].account] = c})
  <2> DEFINE R == {n \in S : CurrencyOf[legs[n].account] = c}
             A == AccountsIn(c)
  <2>1. SumFunctionOnSet(d, A) = SumFunctionOnSet(f, R)
    BY DEF AreMoves
  <2>2. IsFiniteSet(A) /\ IntsOn(d, A) /\ A \subseteq Accounts /\ (b \in A <=> C = c)
    <3>1. A \subseteq Accounts
      BY DEF AccountsIn
    <3> QED BY <1>1, <3>1, LedgerAssumption, FS_Subset DEF AccountsIn, IntsOn
  <2>3. CASE C = c
    <3>1. {n \in S \cup {k} : CurrencyOf[legs[n].account] = c} = R \cup {k}
      BY <2>3
    <3>2. SumFunctionOnSet(f, R \cup {k}) = SumFunctionOnSet(f, R) + f[k]
      BY <1>2
    <3>3. b \in A /\ e[b] \in Int /\ \A a \in A \ {b} : d[a] = e[a]
      BY <1>1, <1>3, <2>2, <2>3
    <3>4. SumFunctionOnSet(e, A) = SumFunctionOnSet(d, A) + (e[b] - d[b])
      <4> HIDE DEF A, b
      <4> QED BY <2>2, <3>3, SumChange
    <3>5. d[b] \in Int /\ f[k] \in Int /\ e[b] - d[b] = f[k]
      BY <1>1, <1>3
    <3>6. SumFunctionOnSet(e, A) = SumFunctionOnSet(f, R \cup {k})
      BY <2>1, <3>2, <3>4, <3>5, Zenon
    <3> QED BY <3>1, <3>6, Zenon
  <2>4. CASE C # c
    <3>1. {n \in S \cup {k} : CurrencyOf[legs[n].account] = c} = R
      BY <2>4
    <3>2. \A a \in A : e[a] = d[a]
      BY <1>3, <2>2, <2>4
    <3>3. SumFunctionOnSet(e, A) = SumFunctionOnSet(d, A)
      <4> HIDE DEF A
      <4> QED BY <2>2, <3>2, SumSame
    <3> QED BY <2>1, <3>1, <3>3, Zenon
  <2> QED BY <2>3, <2>4
<1> QED BY <1>4, <1>5 DEF AreMoves

\* Where nobody commits, only the work of the one that steps is in question.
LEMMA OneWorks ==
    ASSUME SumsInv, NEW p \in Posters,
           \A q \in Posters \ {p} : /\ pc'[q] = pc[q] /\ intent'[q] = intent[q]
                                    /\ leg'[q] = leg[q] /\ delta'[q] = delta[q],
           pc'[p] \in {"hook", "commit"} => leg'[p] = Len(intent'[p].legs) + 1,
           AreMoves(delta'[p], intent'[p].legs, LegsDone(p)')
    PROVE  WorkIsLegs'
<1> SUFFICES ASSUME NEW q \in Posters
             PROVE  /\ pc'[q] \in {"hook", "commit"} => leg'[q] = Len(intent'[q].legs) + 1
                    /\ AreMoves(delta'[q], intent'[q].legs, LegsDone(q)')
  BY DEF WorkIsLegs
<1>1. CASE q = p
  BY <1>1
<1>2. CASE q # p
  <2>1. LegsDone(q)' = LegsDone(q)
    BY <1>2 DEF LegsDone
  <2>2. AreMoves(delta[q], intent[q].legs, LegsDone(q))
    BY DEF SumsInv, WorkIsLegs
  <2>3. AreMoves(delta'[q], intent'[q].legs, LegsDone(q)')
    BY <1>2, <2>1, <2>2, Zenon
  <2>4. pc'[q] \in {"hook", "commit"} => leg'[q] = Len(intent'[q].legs) + 1
    BY <1>2 DEF SumsInv, WorkIsLegs
  <2> QED BY <2>3, <2>4
<1> QED BY <1>1, <1>2

\* The books stay while the tables do.
LEMMA SameTables ==
    ASSUME SumsInv, UNCHANGED tables
    PROVE  NoDrift' /\ Conserved'
BY DEF SumsInv, NoDrift, Derived, Conserved, tables

\* A call that ends, one way or another, or starts.
LEMMA WorkIsGone ==
    ASSUME SumsInv, NEW p \in Posters, delta'[p] = NoDelta,
           \A q \in Posters \ {p} : /\ pc'[q] = pc[q] /\ intent'[q] = intent[q]
                                    /\ leg'[q] = leg[q] /\ delta'[q] = delta[q],
           pc'[p] \in {"idle", "precondition", "replay", "reread"}
    PROVE  WorkIsLegs'
<1>1. LegsDone(p)' = {}
  BY DEF LegsDone
<1>2. AreMoves(delta'[p], intent'[p].legs, LegsDone(p)')
  BY <1>1, NoLegNoMove, Zenon
<1>3. pc'[p] \notin {"hook", "commit"}
  OBVIOUS
<1> QED BY <1>2, <1>3, OneWorks

LEMMA RollbackKeepsSums ==
    ASSUME SumsInv, NEW p \in Posters, NEW then \in {"idle", "replay", "reread"}, NEW how,
           Rollback(p, then, how)
    PROVE  WorkIsLegs' /\ NoDrift' /\ Conserved'
<1>1. /\ delta'[p] = NoDelta /\ pc'[p] = then
      /\ \A q \in Posters \ {p} : /\ pc'[q] = pc[q] /\ intent'[q] = intent[q]
                                  /\ leg'[q] = leg[q] /\ delta'[q] = delta[q]
  BY DEF SumsInv, IInv, TypeOK, Rollback, EndTransaction
<1>2. pc'[p] \in {"idle", "precondition", "replay", "reread"}
  BY <1>1
<1>3. WorkIsLegs'
  BY <1>1, <1>2, WorkIsGone
<1>4. UNCHANGED tables
  BY DEF Rollback
<1> QED BY <1>3, <1>4, SameTables

\* The steps that write no leg.
LEMMA MoveKeepsSums ==
    ASSUME SumsInv, NEW p \in Posters, NEW next,
           pc' = [pc EXCEPT ![p] = next],
           UNCHANGED <<tables, intent, leg, delta>>,
           \/ pc[p] = "precondition" /\ next = "insert"
           \/ pc[p] = "insert" /\ next = "resolve"
           \/ pc[p] = "resolve" /\ next \in {"posting", "create"}
           \/ pc[p] = "create" /\ next = "posting"
           \/ pc[p] = "hook" /\ next = "commit"
           \/ pc[p] \in {"replay", "reread"} /\ next = "idle"
    PROVE  WorkIsLegs' /\ NoDrift' /\ Conserved'
<1>1. /\ pc'[p] = next /\ leg[p] \in Nat
      /\ \A q \in Posters \ {p} : /\ pc'[q] = pc[q] /\ intent'[q] = intent[q]
                                  /\ leg'[q] = leg[q] /\ delta'[q] = delta[q]
  BY DEF SumsInv, IInv, TypeOK
<1>2. pc[p] = "insert" => leg[p] = 1
  BY DEF SumsInv, IInv, InStep
<1>3. LegsDone(p)' = LegsDone(p)
  BY <1>1, <1>2 DEF LegsDone
<1>4. AreMoves(delta[p], intent[p].legs, LegsDone(p))
  BY DEF SumsInv, WorkIsLegs
<1>5. AreMoves(delta'[p], intent'[p].legs, LegsDone(p)')
  BY <1>3, <1>4, Zenon
<1>6. pc'[p] \in {"hook", "commit"} => leg'[p] = Len(intent'[p].legs) + 1
  BY <1>1 DEF SumsInv, WorkIsLegs
<1>7. WorkIsLegs'
  BY <1>1, <1>5, <1>6, OneWorks
<1>8. UNCHANGED tables
  OBVIOUS
<1> QED BY <1>7, <1>8, SameTables

\* A posting that is let through is one more leg of the work.
LEMMA PostingKeepsSums ==
    ASSUME SumsInv, NEW p \in Posters, InsertPosting(p), Covered(p)
    PROVE  WorkIsLegs' /\ NoDrift' /\ Conserved'
<1> DEFINE legs == intent[p].legs
           k == leg[p]
           a == legs[k].account
<1>1. /\ pc[p] = "posting"
      /\ delta' = [delta EXCEPT ![p][Current(p).account] = @ + Current(p).amount]
      /\ leg' = [leg EXCEPT ![p] = @ + 1]
      /\ pc' = [pc EXCEPT ![p] = IF leg[p] = Len(intent[p].legs) THEN "hook" ELSE "resolve"]
      /\ UNCHANGED <<tables, intent>>
  BY DEF InsertPosting
<1>2. legs \in Seq(Leg) /\ k \in 1..Len(legs)
  BY <1>1, LedgerAssumption DEF SumsInv, IInv, InStep, TypeOK, Intent
<1>3. /\ DOMAIN legs = 1..Len(legs) /\ Len(legs) \in Nat
      /\ legs[k].amount \in Int /\ a \in Accounts
  BY <1>2, LegsAreInts
<1>4. delta[p] \in [Accounts -> Int]
  BY DEF SumsInv, IInv, TypeOK
<1>5. /\ delta'[p] \in [Accounts -> Int] /\ delta'[p][a] = delta[p][a] + legs[k].amount
      /\ \A b \in Accounts \ {a} : delta'[p][b] = delta[p][b]
  <2>1. /\ delta \in [Posters -> [Accounts -> Int]]
        /\ delta' = [delta EXCEPT ![p][a] = @ + legs[k].amount]
    BY <1>1 DEF Current, SumsInv, IInv, TypeOK
  <2>2. delta'[p] = [delta[p] EXCEPT ![a] = @ + legs[k].amount]
    BY <2>1
  <2> HIDE DEF legs, k, a
  <2> QED BY <1>3, <1>4, <2>2
<1>6. /\ leg'[p] = k + 1 /\ pc'[p] \in {"hook", "resolve"}
      /\ pc'[p] = "hook" => k = Len(legs)
      /\ \A q \in Posters \ {p} : /\ pc'[q] = pc[q] /\ intent'[q] = intent[q]
                                  /\ leg'[q] = leg[q] /\ delta'[q] = delta[q]
  BY <1>1 DEF SumsInv, IInv, TypeOK
<1>7. LegsDone(p) = 1..(k - 1) /\ LegsDone(p)' = 1..k
  BY <1>1, <1>2, <1>3, <1>6 DEF LegsDone
<1>8. 1..(k - 1) \in SUBSET DOMAIN legs /\ k \notin 1..(k - 1) /\ 1..k = (1..(k - 1)) \cup {k}
  BY <1>2, <1>3
<1>9. AreMoves(delta[p], legs, 1..(k - 1))
  BY <1>7 DEF SumsInv, WorkIsLegs
<1>10. AreMoves(delta'[p], legs, (1..(k - 1)) \cup {k})
  <2>1. PICK S \in SUBSET DOMAIN legs : S = 1..(k - 1)
    BY <1>8
  <2>2. k \in DOMAIN legs /\ k \notin S /\ AreMoves(delta[p], legs, S)
    BY <1>2, <1>3, <1>8, <1>9, <2>1
  <2>3. PICK d \in [Accounts -> Int], e \in [Accounts -> Int] : d = delta[p] /\ e = delta'[p]
    BY <1>4, <1>5
  <2>4. AreMoves(d, legs, S)
    BY <2>2, <2>3
  <2>5. e[a] = d[a] + legs[k].amount /\ \A b \in Accounts \ {a} : e[b] = d[b]
    BY <1>5, <2>3
  <2>6. AreMoves(e, legs, S \cup {k})
    <3> HIDE DEF legs, k
    <3> QED BY <1>2, <2>2, <2>4, <2>5, OneMoreLeg
  <2> QED BY <2>1, <2>3, <2>6, Zenon
<1>11. AreMoves(delta'[p], intent'[p].legs, LegsDone(p)')
  <2>1. LegsDone(p)' = (1..(k - 1)) \cup {k}
    BY <1>7, <1>8, Zenon
  <2>2. intent'[p].legs = legs
    BY <1>1
  <2> QED BY <1>10, <2>1, <2>2, Zenon
<1>12. pc'[p] \in {"hook", "commit"} => leg'[p] = Len(intent'[p].legs) + 1
  BY <1>1, <1>6
<1>13. WorkIsLegs'
  BY <1>6, <1>11, <1>12, OneWorks
<1>14. UNCHANGED tables
  BY <1>1
<1> QED BY <1>13, <1>14, SameTables

\* At its COMMIT a transaction has written every leg, so its changes are the
\* effect of the entry, and they add up to nothing in each currency.
LEMMA CommitMovesEntry ==
    ASSUME SumsInv, NEW p \in Posters, pc[p] = "commit"
    PROVE  /\ intent[p] \in Intents /\ intent[p].legs \in Seq(Leg) /\ intent[p].key \in Keys
           /\ \A a \in Accounts : delta[p][a] = Atomic!Effect(intent[p].legs, a)
           /\ Balanced(intent[p].legs) =>
                 \A c \in Currencies : SumFunctionOnSet(delta[p], AccountsIn(c)) = 0
<1> DEFINE legs == intent[p].legs
<1>1. intent[p] \in Intents /\ legs \in Seq(Leg) /\ intent[p].key \in Keys
  BY LedgerAssumption DEF SumsInv, IInv, InStep, Intent
<1>2. leg[p] = Len(legs) + 1 /\ Len(legs) \in Nat /\ DOMAIN legs = 1..Len(legs)
  BY <1>1 DEF SumsInv, WorkIsLegs
<1>3. LegsDone(p) = DOMAIN legs
  BY <1>2 DEF LegsDone
<1>4. AreMoves(delta[p], legs, DOMAIN legs)
  BY <1>3 DEF SumsInv, WorkIsLegs
<1>5. \A a \in Accounts : delta[p][a] = Atomic!Effect(legs, a)
  <2>1. \A a \in Accounts :
           delta[p][a] =
             SumFunctionOnSet(AmountsOf(legs), {n \in DOMAIN legs : legs[n].account = a})
    BY <1>4 DEF AreMoves
  <2>2. PICK s : s = legs
    OBVIOUS
  <2>3. ASSUME NEW a \in Accounts
        PROVE  Atomic!Effect(s, a) =
                 SumFunctionOnSet(AmountsOf(s), {n \in DOMAIN s : s[n].account = a})
    BY SumsAreSums, Zenon
  <2> HIDE DEF legs
  <2> QED BY <2>1, <2>2, <2>3, Zenon
<1>6. Balanced(legs) => \A c \in Currencies : SumFunctionOnSet(delta[p], AccountsIn(c)) = 0
  BY <1>4 DEF AreMoves, Balanced, BalancedIn
<1> QED BY <1>1, <1>5, <1>6

\* One more entry adds its effect to what is derived from the journal.
LEMMA DerivedGrows ==
    ASSUME journal \in Seq([key : Keys, legs : Seq(Leg)]),
           NEW e \in [key : Keys, legs : Seq(Leg)], journal' = Append(journal, e),
           NEW a \in Accounts
    PROVE  Derived(a)' = Derived(a) + Atomic!Effect(e.legs, a)
<1> DEFINE f == [n \in DOMAIN journal |-> Atomic!Effect(journal[n].legs, a)]
           g == [n \in DOMAIN journal' |-> Atomic!Effect(journal'[n].legs, a)]
           D == DOMAIN journal
           m == Len(journal) + 1
<1>1. /\ Len(journal) \in Nat /\ D = 1..Len(journal) /\ DOMAIN journal' = D \cup {m} /\ m \notin D
      /\ \A n \in D : journal'[n] = journal[n]
      /\ journal'[m] = e
  OBVIOUS
<1>2. IsFiniteSet(D)
  BY <1>1, FS_Interval
<1>3. ASSUME NEW n \in D \cup {m}
      PROVE  Atomic!Effect(journal'[n].legs, a) \in Int
  <2>1. journal'[n].legs \in Seq(Leg)
    <3>1. \A k \in D : journal[k].legs \in Seq(Leg)
      <4> DEFINE Row == [key : Keys, legs : Seq(Leg)]
      <4>1. journal \in Seq(Row)
        OBVIOUS
      <4>2. \A k \in D : journal[k] \in Row
        <5> HIDE DEF Row
        <5> QED BY <4>1
      <4> QED BY <4>2
    <3>2. e.legs \in Seq(Leg)
      OBVIOUS
    <3> QED BY <1>1, <3>1, <3>2
  <2>2. {k \in DOMAIN journal'[n].legs : journal'[n].legs[k].account = a}
          \in SUBSET DOMAIN journal'[n].legs
    OBVIOUS
  <2>3. SumFunctionOnSet(AmountsOf(journal'[n].legs),
            {k \in DOMAIN journal'[n].legs : journal'[n].legs[k].account = a}) \in Int
    BY <2>1, <2>2, LegsAreInts
  <2> QED BY <2>3, SumsAreSums, Zenon
<1>4. IntsOn(g, D \cup {m}) /\ g[m] = Atomic!Effect(e.legs, a)
  BY <1>1, <1>3 DEF IntsOn
<1>5. \A n \in D : f[n] = g[n]
  BY <1>1
<1>6. SumFunctionOnSet(f, D) = SumFunctionOnSet(g, D)
  <2> HIDE DEF f, g, D
  <2> QED BY <1>2, <1>5, SumSame
<1>7. SumFunctionOnSet(g, D \cup {m}) = SumFunctionOnSet(g, D) + g[m]
  <2> HIDE DEF g, D, m
  <2> QED BY <1>1, <1>2, <1>4, SumAdd
<1>8. Derived(a) = SumFunctionOnSet(f, D)
  BY DEF Derived, SumFunction
<1>9. Derived(a)' = SumFunctionOnSet(g, D \cup {m})
  <2>1. Derived(a)' = SumFunctionOnSet(g, DOMAIN journal')
    BY DEF Derived, SumFunction
  <2> QED BY <1>1, <2>1, Zenon
<1> QED BY <1>4, <1>6, <1>7, <1>8, <1>9, Zenon

\* COMMIT, heard or not.
LEMMA WriteKeepsSums ==
    ASSUME SumsInv, NEW p \in Posters, pc[p] = "commit", Write(p), Balanced(intent[p].legs),
           pc' = [pc EXCEPT ![p] = "idle"], UNCHANGED <<intent, leg>>
    PROVE  WorkIsLegs' /\ NoDrift' /\ Conserved'
<1> DEFINE e == [key |-> intent[p].key, legs |-> intent[p].legs]
<1>1. /\ delta'[p] = NoDelta /\ pc'[p] = "idle"
      /\ \A q \in Posters \ {p} : /\ pc'[q] = pc[q] /\ intent'[q] = intent[q]
                                  /\ leg'[q] = leg[q] /\ delta'[q] = delta[q]
  BY DEF SumsInv, IInv, TypeOK, Write, EndTransaction
<1>2. WorkIsLegs'
  BY <1>1, WorkIsGone
<1>3. /\ balance \in [Accounts -> Int] /\ delta[p] \in [Accounts -> Int]
      /\ \A a \in Accounts : balance'[a] = balance[a] + delta[p][a]
  BY DEF SumsInv, IInv, TypeOK, Write
<1>4. NoDrift'
  <2> SUFFICES ASSUME NEW a \in Accounts PROVE balance'[a] = Derived(a)'
    BY DEF NoDrift
  <2>1. e \in [key : Keys, legs : Seq(Leg)] /\ journal' = Append(journal, e)
    BY CommitMovesEntry DEF Write
  <2>2. Derived(a)' = Derived(a) + Atomic!Effect(e.legs, a)
    BY <2>1, DerivedGrows DEF SumsInv, IInv, TypeOK
  <2>3. delta[p][a] = Atomic!Effect(e.legs, a) /\ balance[a] = Derived(a)
    BY CommitMovesEntry DEF SumsInv, NoDrift
  <2> QED BY <1>3, <2>2, <2>3
<1>5. Conserved'
  <2> SUFFICES ASSUME NEW c \in Currencies PROVE SumFunctionOnSet(balance', AccountsIn(c)) = 0
    BY DEF Conserved, AccountsIn
  <2> DEFINE A == AccountsIn(c)
  <2>1. A \subseteq Accounts
    BY DEF AccountsIn
  <2>2. /\ IsFiniteSet(A) /\ IntsOn(balance, A) /\ IntsOn(delta[p], A)
        /\ \A a \in A : balance'[a] = balance[a] + delta[p][a]
    BY <1>3, <2>1, LedgerAssumption, FS_Subset DEF IntsOn
  <2>3. SumFunctionOnSet(balance', A) =
           SumFunctionOnSet(balance, A) + SumFunctionOnSet(delta[p], A)
    <3> HIDE DEF A
    <3> QED BY <2>2, SumPlus
  <2>4. SumFunctionOnSet(balance, A) = 0 /\ SumFunctionOnSet(delta[p], A) = 0
    BY CommitMovesEntry DEF SumsInv, Conserved
  <2> QED BY <2>3, <2>4
<1> QED BY <1>2, <1>4, <1>5

LEMMA NextKeepsSums == SumsInv /\ [Next]_vars => SumsInv'
<1> SUFFICES ASSUME SumsInv, [Next]_vars PROVE WorkIsLegs' /\ NoDrift' /\ Conserved'
  BY NextKeepsInv DEF SumsInv
<1>0. CASE UNCHANGED vars
  <2>1. WorkIsLegs'
    BY <1>0 DEF SumsInv, WorkIsLegs, LegsDone, vars
  <2>2. UNCHANGED tables
    BY <1>0 DEF vars, tables
  <2> QED BY <2>1, <2>2, SameTables
<1> SUFFICES ASSUME NEW p \in Posters,
                    (\E i \in Intents : Post(p, i)) \/ Step(p) \/ Crash(p)
             PROVE  WorkIsLegs' /\ NoDrift' /\ Conserved'
  BY <1>0 DEF Next
<1>1. ASSUME NEW i \in Intents, Post(p, i) PROVE WorkIsLegs' /\ NoDrift' /\ Conserved'
  <2>1. /\ pc'[p] \in {"idle", "precondition", "replay"} /\ pc[p] = "idle"
        /\ delta' = delta
        /\ \A q \in Posters \ {p} : /\ pc'[q] = pc[q] /\ intent'[q] = intent[q]
                                    /\ leg'[q] = leg[q] /\ delta'[q] = delta[q]
    BY <1>1 DEF Post, SumsInv, IInv, TypeOK
  <2>2. delta[p] = NoDelta
    <3>1. LegsDone(p) = {}
      BY <2>1 DEF LegsDone
    <3>2. AreMoves(delta[p], intent[p].legs, {})
      BY <3>1 DEF SumsInv, WorkIsLegs
    <3>3. \A a \in Accounts : delta[p][a] = NoDelta[a]
      BY <3>2, NoLegNoMove DEF AreMoves
    <3> QED BY <3>3 DEF NoDelta, SumsInv, IInv, TypeOK
  <2>3. delta'[p] = NoDelta
    BY <2>1, <2>2
  <2>4. WorkIsLegs'
    BY <2>1, <2>3, WorkIsGone
  <2>5. UNCHANGED tables
    BY <1>1 DEF Post
  <2> QED BY <2>4, <2>5, SameTables
<1>2. CASE Precondition(p)
  BY <1>2, MoveKeepsSums DEF Precondition
<1>3. CASE PreconditionThrows(p)
  BY <1>3, RollbackKeepsSums DEF PreconditionThrows
<1>4. CASE InsertEntry(p)
  <2>1. CASE Rollback(p, "replay", "none") \/ Rollback(p, "idle", "invalid")
    BY <2>1, RollbackKeepsSums
  <2>2. CASE /\ pc[p] = "insert" /\ pc' = [pc EXCEPT ![p] = "resolve"]
             /\ UNCHANGED <<tables, intent, leg, delta>>
    BY <2>2, MoveKeepsSums
  <2> QED BY <1>4, <2>1, <2>2 DEF InsertEntry
<1>5. CASE ResolveAccount(p)
  BY <1>5, MoveKeepsSums DEF ResolveAccount
<1>6. CASE CreateAccount(p)
  <2>1. CASE Rollback(p, "idle", "account_race")
    BY <2>1, RollbackKeepsSums
  <2>2. CASE /\ pc[p] = "create" /\ pc' = [pc EXCEPT ![p] = "posting"]
             /\ UNCHANGED <<tables, intent, leg, delta>>
    BY <2>2, MoveKeepsSums
  <2> QED BY <1>6, <2>1, <2>2 DEF CreateAccount
<1>7. CASE InsertPosting(p)
  <2>1. CASE Covered(p)
    BY <1>7, <2>1, PostingKeepsSums
  <2>2. CASE ~Covered(p)
    BY <1>7, <2>2, RollbackKeepsSums DEF InsertPosting
  <2> QED BY <2>1, <2>2
<1>8. CASE OnEntry(p)
  BY <1>8, MoveKeepsSums DEF OnEntry
<1>9. CASE OnEntryThrows(p)
  BY <1>9, RollbackKeepsSums DEF OnEntryThrows
<1>10. CASE Commit(p)
  <2>1. CASE Balanced(intent[p].legs)
    BY <1>10, <2>1, WriteKeepsSums DEF Commit
  <2>2. CASE ~Balanced(intent[p].legs)
    BY <1>10, <2>2, RollbackKeepsSums DEF Commit
  <2> QED BY <2>1, <2>2
<1>11. CASE CommitUnheard(p)
  BY <1>11, WriteKeepsSums DEF CommitUnheard
<1>12. CASE Replay(p) \/ RereadAfterHook(p)
  BY <1>12, MoveKeepsSums DEF Replay, RereadAfterHook
<1>13. CASE DeadlockVictim(p)
  BY <1>13, RollbackKeepsSums DEF DeadlockVictim
<1>14. CASE Crash(p)
  BY <1>14, RollbackKeepsSums DEF Crash
<1> QED
  BY <1>1, <1>2, <1>3, <1>4, <1>5, <1>6, <1>7, <1>8, <1>9, <1>10, <1>11, <1>12, <1>13, <1>14
     DEF Step

LEMMA InitHasSums == Init => SumsInv
<1> SUFFICES ASSUME Init PROVE WorkIsLegs /\ NoDrift /\ Conserved
  BY InitHasInv DEF SumsInv
<1>1. WorkIsLegs
  <2> SUFFICES ASSUME NEW p \in Posters
               PROVE  AreMoves(delta[p], intent[p].legs, LegsDone(p))
    BY DEF WorkIsLegs, Init
  <2>1. LegsDone(p) = {} /\ delta[p] = NoDelta
    BY DEF LegsDone, Init
  <2> QED BY <2>1, NoLegNoMove, Zenon
<1>2. NoDrift
  <2> SUFFICES ASSUME NEW a \in Accounts PROVE balance[a] = Derived(a)
    BY DEF NoDrift
  <2> DEFINE f == [n \in DOMAIN journal |-> Atomic!Effect(journal[n].legs, a)]
  <2>1. DOMAIN journal = {}
    BY DEF Init
  <2>2. Derived(a) = SumFunctionOnSet(f, DOMAIN journal)
    BY DEF Derived, SumFunction
  <2>3. SumFunctionOnSet(f, {}) = 0
    <3> HIDE DEF f
    <3> QED BY SumEmpty
  <2>4. Derived(a) = 0
    BY <2>1, <2>2, <2>3, Zenon
  <2> QED BY <2>4 DEF Init
<1>3. Conserved
  <2> SUFFICES ASSUME NEW c \in Currencies PROVE SumFunctionOnSet(balance, AccountsIn(c)) = 0
    BY DEF Conserved
  <2>1. AccountsIn(c) \subseteq Accounts
    BY DEF AccountsIn
  <2>2. IsFiniteSet(AccountsIn(c)) /\ \A a \in AccountsIn(c) : balance[a] = 0
    BY <2>1, LedgerAssumption, FS_Subset DEF Init
  <2> QED BY <2>2, SumZero
<1> QED BY <1>1, <1>2, <1>3

\* The view ledger_drift stays empty whatever posts race, roll back or lose their
\* answers: the balance that the triggers keep with relative writes is the sum of
\* the account's committed postings.
THEOREM BalancesAreDerived == Spec => []NoDrift
  BY InitHasSums, NextKeepsSums, PTL DEF Spec, SumsInv

\* Money is neither made nor lost: the balances of each currency sum to zero.
THEOREM MoneyIsConserved == Spec => []Conserved
  BY InitHasSums, NextKeepsSums, PTL DEF Spec, SumsInv

-----------------------------------------------------------------------------
(* The ledger implements the atomic ledger. *)

\* A commit is one whole entry of the atomic ledger.
LEMMA WriteIsAtomic ==
    ASSUME SumsInv, SumsInv', NEW p \in Posters, pc[p] = "commit", Write(p),
           Balanced(intent[p].legs)
    PROVE  Atomic!Next
<1> DEFINE i == intent[p]
<1>1. i \in Intents /\ \A a \in Accounts : delta[p][a] = Atomic!Effect(i.legs, a)
  BY CommitMovesEntry
<1>2. \A n \in DOMAIN journal : journal[n].key # i.key
  BY DEF SumsInv, IInv, KeyIsOwned, Posted
<1>3. \A c \in Currencies :
         Atomic!SumOf(i.legs, {n \in DOMAIN i.legs : CurrencyOf[i.legs[n].account] = c}) = 0
  BY SumsAreSums, Zenon DEF Balanced, BalancedIn
<1>4. journal' = Append(journal, [key |-> i.key, legs |-> i.legs])
  BY DEF Write
<1>5. balance' = [a \in Accounts |-> balance[a] + Atomic!Effect(i.legs, a)]
  BY <1>1 DEF Write
<1>6. \A a \in Customer : balance'[a] >= 0
  BY DEF SumsInv, IInv, NoOverdraft
<1>7. Atomic!PostEntry(i)
  BY <1>2, <1>3, <1>4, <1>5, <1>6 DEF Atomic!PostEntry
<1> QED BY <1>1, <1>7 DEF Atomic!Next

\* Every other step of post() shows nothing.
LEMMA StepsAreAtomic ==
    ASSUME SumsInv, SumsInv', [Next]_vars
    PROVE  [Atomic!Next]_<<journal, balance>>
<1>1. ASSUME NEW p \in Posters, Commit(p) \/ CommitUnheard(p)
      PROVE  [Atomic!Next]_<<journal, balance>>
  <2>1. CASE pc[p] = "commit" /\ Balanced(intent[p].legs) /\ Write(p)
    BY <2>1, WriteIsAtomic
  <2>2. CASE Rollback(p, "idle", "invalid")
    BY <2>2 DEF Rollback, tables
  <2> QED BY <1>1, <2>1, <2>2 DEF Commit, CommitUnheard
<1>2. ASSUME NEW p \in Posters,
             \/ \E i \in Intents : Post(p, i)
             \/ Precondition(p) \/ PreconditionThrows(p) \/ InsertEntry(p)
             \/ ResolveAccount(p) \/ CreateAccount(p) \/ InsertPosting(p)
             \/ OnEntry(p) \/ OnEntryThrows(p) \/ Replay(p) \/ RereadAfterHook(p)
             \/ DeadlockVictim(p) \/ Crash(p)
      PROVE  UNCHANGED <<journal, balance>>
  BY <1>2 DEF Post, Precondition, PreconditionThrows, InsertEntry, ResolveAccount,
              CreateAccount, InsertPosting, OnEntry, OnEntryThrows, Replay, RereadAfterHook,
              DeadlockVictim, Crash, Rollback, tables
<1>3. CASE UNCHANGED vars
  BY <1>3 DEF vars
<1> QED BY <1>1, <1>2, <1>3 DEF Next, Step

\* Although the legs are written one statement at a time while others post, every
\* visible change is one whole balanced entry under a fresh key: the ledger
\* implements AtomicLedger for any posters, keys, accounts and intents.
THEOREM LedgerIsAtomic == Spec => ImplementsAtomic
<1>1. Init => Atomic!Init
  BY DEF Init, Atomic!Init
<1>2. SumsInv /\ SumsInv' /\ [Next]_vars => [Atomic!Next]_<<journal, balance>>
  BY StepsAreAtomic
<1> QED BY <1>1, <1>2, InitHasSums, NextKeepsSums, PTL DEF Spec, ImplementsAtomic, Atomic!Spec

-----------------------------------------------------------------------------
(* What the abstract specification is good for. *)

\* What some of an entry's legs come to, account by account.
MovesOf(legs, S) ==
    [a \in Accounts |->
        SumFunctionOnSet(AmountsOf(legs), {n \in S : legs[n].account = a})]

\* Whatever legs there are: their sums by account and by currency agree.
LEMMA LegsAreMoves ==
    ASSUME NEW legs \in Seq(Leg), NEW S \in SUBSET DOMAIN legs
    PROVE  AreMoves(MovesOf(legs, S), legs, S)
<1> DEFINE T == {R \in SUBSET DOMAIN legs : ~AreMoves(MovesOf(legs, R), legs, R)}
<1> SUFFICES ASSUME T # {} PROVE FALSE
  OBVIOUS
<1>1. /\ IsFiniteSet(DOMAIN legs) /\ IntsOn(AmountsOf(legs), DOMAIN legs)
      /\ \A n \in DOMAIN legs : legs[n].amount \in Int /\ legs[n].account \in Accounts
      /\ \A R \in SUBSET DOMAIN legs :
            IsFiniteSet(R) /\ SumFunctionOnSet(AmountsOf(legs), R) \in Int
  BY LegsAreInts
<1>2. PICK R \in T : \A Q \in T : ~(Q \subseteq R /\ Q # R)
  <2> HIDE DEF T
  <2>1. T \in SUBSET (SUBSET DOMAIN legs)
    BY DEF T
  <2> QED BY <1>1, <2>1, SmallestSubset
<1>3. ASSUME NEW Q \in SUBSET DOMAIN legs PROVE MovesOf(legs, Q) \in [Accounts -> Int]
  <2>1. ASSUME NEW a \in Accounts
        PROVE  SumFunctionOnSet(AmountsOf(legs), {n \in Q : legs[n].account = a}) \in Int
    <3>1. {n \in Q : legs[n].account = a} \in SUBSET DOMAIN legs
      OBVIOUS
    <3> QED BY <1>1, <3>1
  <2> QED BY <2>1 DEF MovesOf
<1>4. CASE R = {}
  <2>1. MovesOf(legs, {}) = NoDelta
    <3>1. ASSUME NEW a \in Accounts
          PROVE  SumFunctionOnSet(AmountsOf(legs), {n \in {} : legs[n].account = a}) = 0
      <4>1. {n \in {} : legs[n].account = a} = {}
        OBVIOUS
      <4> QED BY <4>1, SumEmpty, Zenon
    <3> QED BY <3>1 DEF MovesOf, NoDelta
  <2>2. AreMoves(MovesOf(legs, {}), legs, {})
    BY <2>1, NoLegNoMove, Zenon
  <2> QED BY <1>2, <1>4, <2>2
<1>5. CASE R # {}
  <2>1. PICK k \in R : TRUE
    BY <1>5
  <2> DEFINE Q == R \ {k}
             b == legs[k].account
  <2>2. R \in SUBSET DOMAIN legs /\ Q \in SUBSET DOMAIN legs /\ k \in DOMAIN legs /\ k \notin Q
    OBVIOUS
  <2>3. R = Q \cup {k} /\ Q \subseteq R /\ Q # R
    BY <2>1
  <2>4. AreMoves(MovesOf(legs, Q), legs, Q)
    BY <1>2, <2>2, <2>3
  <2>5. MovesOf(legs, R)[b] = MovesOf(legs, Q)[b] + legs[k].amount
    <3> DEFINE B == {n \in Q : legs[n].account = b}
    <3>1. {n \in R : legs[n].account = b} = B \cup {k} /\ k \notin B
      BY <2>3
    <3>2. B \in SUBSET DOMAIN legs
      OBVIOUS
    <3>3. IsFiniteSet(B) /\ IntsOn(AmountsOf(legs), B \cup {k})
      BY <1>1, <2>2, <3>2 DEF IntsOn
    <3>4. SumFunctionOnSet(AmountsOf(legs), B \cup {k}) =
            SumFunctionOnSet(AmountsOf(legs), B) + AmountsOf(legs)[k]
      <4> HIDE DEF B
      <4> QED BY <3>1, <3>3, SumAdd
    <3>5. AmountsOf(legs)[k] = legs[k].amount /\ b \in Accounts
      BY <1>1, <2>2 DEF AmountsOf
    <3>6. MovesOf(legs, R)[b] = SumFunctionOnSet(AmountsOf(legs), B \cup {k})
      BY <3>1, <3>5, Zenon DEF MovesOf
    <3>7. MovesOf(legs, Q)[b] = SumFunctionOnSet(AmountsOf(legs), B)
      BY <3>5, Zenon DEF MovesOf
    <3> QED BY <3>4, <3>5, <3>6, <3>7, Zenon
  <2>6. ASSUME NEW a \in Accounts \ {b} PROVE MovesOf(legs, R)[a] = MovesOf(legs, Q)[a]
    <3>1. {n \in R : legs[n].account = a} = {n \in Q : legs[n].account = a}
      BY <2>3
    <3> QED BY <3>1, Zenon DEF MovesOf
  <2>7. MovesOf(legs, Q) \in [Accounts -> Int] /\ MovesOf(legs, R) \in [Accounts -> Int]
    BY <1>3, <2>2
  <2>8. AreMoves(MovesOf(legs, R), legs, Q \cup {k})
    <3> HIDE DEF Q
    <3> QED BY <2>2, <2>4, <2>5, <2>6, <2>7, OneMoreLeg
  <2> QED BY <1>2, <2>3, <2>8
<1> QED BY <1>4, <1>5

\* What callers rely on, kept by entries that appear whole.
PromiseInv ==
    /\ journal \in Seq([key : Keys, legs : Seq(Leg)])
    /\ balance \in [Accounts -> Int]
    /\ NoOverdraft /\ OneEntryPerKey /\ NoDrift /\ Conserved

LEMMA EntryKeepsPromise ==
    ASSUME PromiseInv, NEW i \in Intents, Atomic!PostEntry(i)
    PROVE  PromiseInv'
<1> DEFINE legs == i.legs
           e == [key |-> i.key, legs |-> i.legs]
<1>1. legs \in Seq(Leg) /\ i.key \in Keys /\ e \in [key : Keys, legs : Seq(Leg)]
  BY LedgerAssumption DEF Intent
<1>2. /\ \A n \in DOMAIN journal : journal[n].key # i.key
      /\ journal' = Append(journal, e)
      /\ balance' = [a \in Accounts |-> balance[a] + Atomic!Effect(legs, a)]
      /\ \A a \in Customer : balance'[a] >= 0
  BY DEF Atomic!PostEntry
<1>3. \A a \in Accounts : MovesOf(legs, DOMAIN legs)[a] = Atomic!Effect(legs, a)
  BY SumsAreSums, Zenon DEF MovesOf
<1>4. MovesOf(legs, DOMAIN legs) \in [Accounts -> Int]
  <2>1. ASSUME NEW a \in Accounts
        PROVE  SumFunctionOnSet(AmountsOf(legs), {n \in DOMAIN legs : legs[n].account = a})
                 \in Int
    <3>1. {n \in DOMAIN legs : legs[n].account = a} \in SUBSET DOMAIN legs
      OBVIOUS
    <3> HIDE DEF legs
    <3> QED BY <1>1, <3>1, LegsAreInts
  <2> QED BY <2>1 DEF MovesOf
<1>5. journal' \in Seq([key : Keys, legs : Seq(Leg)])
  <2> DEFINE Row == [key : Keys, legs : Seq(Leg)]
  <2>1. journal \in Seq(Row) /\ e \in Row
    BY <1>1 DEF PromiseInv
  <2> HIDE DEF Row, e
  <2>2. Append(journal, e) \in Seq(Row)
    BY <2>1
  <2> QED BY <1>2, <2>2 DEF Row
<1>6. balance' \in [Accounts -> Int]
  <2>1. \A a \in Accounts : Atomic!Effect(legs, a) \in Int
    BY <1>3, <1>4
  <2> HIDE DEF legs
  <2> QED BY <1>2, <2>1 DEF PromiseInv
<1>7. NoOverdraft'
  BY <1>2 DEF NoOverdraft
<1>8. OneEntryPerKey'
  <2>1. /\ Len(journal) \in Nat /\ DOMAIN journal = 1..Len(journal)
        /\ DOMAIN journal' = 1..(Len(journal) + 1)
        /\ \A n \in DOMAIN journal : journal'[n] = journal[n]
        /\ journal'[Len(journal) + 1].key = i.key
    BY <1>2 DEF PromiseInv
  <2> QED BY <1>2, <2>1 DEF PromiseInv, OneEntryPerKey
<1>9. NoDrift'
  <2> SUFFICES ASSUME NEW a \in Accounts PROVE balance'[a] = Derived(a)'
    BY DEF NoDrift
  <2>1. Derived(a)' = Derived(a) + Atomic!Effect(legs, a)
    BY <1>1, <1>2, DerivedGrows DEF PromiseInv
  <2>2. balance'[a] = balance[a] + Atomic!Effect(legs, a)
    <3> HIDE DEF legs
    <3> QED BY <1>2
  <2> QED BY <2>1, <2>2 DEF PromiseInv, NoDrift
<1>10. Conserved'
  <2> SUFFICES ASSUME NEW c \in Currencies PROVE SumFunctionOnSet(balance', AccountsIn(c)) = 0
    BY DEF Conserved, AccountsIn
  <2> DEFINE d == MovesOf(legs, DOMAIN legs)
             A == AccountsIn(c)
  <2>1. A \subseteq Accounts
    BY DEF AccountsIn
  <2>2. \A a \in Accounts : balance'[a] = balance[a] + d[a]
    <3> HIDE DEF legs
    <3> QED BY <1>2, <1>3
  <2>3. /\ IsFiniteSet(A) /\ IntsOn(balance, A) /\ IntsOn(d, A)
        /\ \A a \in A : balance'[a] = balance[a] + d[a]
    <3> HIDE DEF d
    <3>1. d \in [Accounts -> Int]
      BY <1>4 DEF d
    <3> QED BY <2>1, <2>2, <3>1, LedgerAssumption, FS_Subset DEF IntsOn, PromiseInv
  <2>4. SumFunctionOnSet(balance', A) = SumFunctionOnSet(balance, A) + SumFunctionOnSet(d, A)
    <3> HIDE DEF A, d
    <3> QED BY <2>3, SumPlus
  <2>5. SumFunctionOnSet(balance, A) = 0
    BY DEF PromiseInv, Conserved
  <2>6. SumFunctionOnSet(d, A) = 0
    <3>1. AreMoves(d, legs, DOMAIN legs)
      <4> HIDE DEF legs
      <4>1. DOMAIN legs \in SUBSET DOMAIN legs
        OBVIOUS
      <4> QED BY <1>1, <4>1, LegsAreMoves
    <3>2. SumFunctionOnSet(d, A) =
            SumFunctionOnSet(AmountsOf(legs),
                             {n \in DOMAIN legs : CurrencyOf[legs[n].account] = c})
      <4> HIDE DEF d, legs
      <4> QED BY <3>1 DEF AreMoves
    <3>3. Atomic!SumOf(legs, {n \in DOMAIN legs : CurrencyOf[legs[n].account] = c}) = 0
      BY DEF Atomic!PostEntry
    <3> QED BY <3>2, <3>3, SumsAreSums, Zenon
  <2> QED BY <2>4, <2>5, <2>6
<1> QED BY <1>5, <1>6, <1>7, <1>8, <1>9, <1>10 DEF PromiseInv

LEMMA NothingBreaksPromise == Atomic!Init => PromiseInv
<1> SUFFICES ASSUME Atomic!Init PROVE PromiseInv
  OBVIOUS
<1>1. journal = <<>> /\ balance = [a \in Accounts |-> 0]
  BY DEF Atomic!Init
<1>2. NoDrift
  <2> SUFFICES ASSUME NEW a \in Accounts PROVE Derived(a) = 0
    BY <1>1 DEF NoDrift
  <2> DEFINE f == [n \in DOMAIN journal |-> Atomic!Effect(journal[n].legs, a)]
  <2>1. DOMAIN journal = {}
    BY <1>1
  <2>2. Derived(a) = SumFunctionOnSet(f, DOMAIN journal)
    BY DEF Derived, SumFunction
  <2>3. SumFunctionOnSet(f, {}) = 0
    <3> HIDE DEF f
    <3> QED BY SumEmpty
  <2> QED BY <2>1, <2>2, <2>3, Zenon
<1>3. Conserved
  <2> SUFFICES ASSUME NEW c \in Currencies PROVE SumFunctionOnSet(balance, AccountsIn(c)) = 0
    BY DEF Conserved
  <2>1. AccountsIn(c) \subseteq Accounts
    BY DEF AccountsIn
  <2>2. IsFiniteSet(AccountsIn(c)) /\ \A a \in AccountsIn(c) : balance[a] = 0
    BY <1>1, <2>1, LedgerAssumption, FS_Subset
  <2> QED BY <2>2, SumZero
<1>4. NoOverdraft /\ OneEntryPerKey
  BY <1>1, LedgerAssumption DEF NoOverdraft, OneEntryPerKey
<1>5. journal \in Seq([key : Keys, legs : Seq(Leg)])
  <2> DEFINE Row == [key : Keys, legs : Seq(Leg)]
  <2> HIDE DEF Row
  <2>1. journal \in Seq(Row)
    BY <1>1
  <2> QED BY <2>1 DEF Row
<1> QED BY <1>1, <1>2, <1>3, <1>4, <1>5 DEF PromiseInv

\* What callers believe of post() is enough for what they rely on: the atomic
\* ledger alone keeps customers covered, keys unique, balances derived from the
\* journal and the money of each currency constant, for any intents.
THEOREM PromiseSuffices ==
    Atomic!Spec => [](NoOverdraft /\ OneEntryPerKey /\ NoDrift /\ Conserved)
<1>1. PromiseInv /\ [Atomic!Next]_<<journal, balance>> => PromiseInv'
  <2> SUFFICES ASSUME PromiseInv, [Atomic!Next]_<<journal, balance>> PROVE PromiseInv'
    OBVIOUS
  <2>1. CASE Atomic!Next
    BY <2>1, EntryKeepsPromise DEF Atomic!Next
  <2>2. CASE UNCHANGED <<journal, balance>>
    BY <2>2 DEF PromiseInv, NoOverdraft, OneEntryPerKey, NoDrift, Derived, Conserved
  <2> QED BY <2>1, <2>2
<1>2. PromiseInv => NoOverdraft /\ OneEntryPerKey /\ NoDrift /\ Conserved
  BY DEF PromiseInv
<1> QED BY <1>1, <1>2, NothingBreaksPromise, PTL DEF Atomic!Spec

-----------------------------------------------------------------------------
(****************************************************************************)
(* Limits: the hourly count and the day's ceiling hold for any requests,       *)
(* handlers, counts, ceilings and clock.                                      *)
(****************************************************************************)

Working(h) == place[h] # "idle"

LimitsShape ==
    /\ place \in [Handlers -> {"idle", "ready", "open", "locked"}]
    /\ doing = [h \in Handlers |-> doing[h]]
    /\ limit \in [Handlers -> Int]
    /\ began \in [Handlers -> Int]
    /\ tier \in Nat /\ flow \in [Scopes -> Nat]
    /\ \A h \in Handlers : Working(h) => doing[h] \in Requests
    /\ clock \in Int
    /\ IsFiniteSet(entries)
    /\ \A e \in entries : e.req \in Requests /\ e.at \in Int /\ e.limit \in Int

\* The advisory lock of a scope has one holder.
LockIsOne ==
    \A g, h \in Handlers :
        place[g] = "locked" /\ place[h] = "locked" /\ ScopeOf[doing[g]] = ScopeOf[doing[h]] => g = h

Room(r, l, t) == WithinDay(r, l, t) /\ WithinHour(r, t)

\* What the holder of the lock found is still so.
LockedPassed ==
    \A h \in Handlers :
        place[h] = "locked" => AlreadyPosted(doing[h]) \/ Room(doing[h], limit[h], began[h])

Within(s, t) == {e \in Counted(s) : e.at \in t..(t + Hour - 1)}

\* The property for hours that begin at any time.
EveryHour == \A s \in Scopes, t \in Int : Cardinality(Within(s, t)) <= CountHourly[s]

EveryDay ==
    \A s \in Scopes, d \in Int :
        On(s, d) # {} => \E e \in On(s, d) : SumFunctionOnSet(Debits, On(s, d)) <= e.limit

LimitsInv == LimitsShape /\ LockIsOne /\ LockedPassed /\ EveryHour /\ EveryDay

LEMMA ScopesCounted ==
    ASSUME NEW r \in Requests
    PROVE  ScopeOf[r] \in Scopes /\ CountHourly[ScopeOf[r]] \in Nat
  BY LimitsAssumption DEF Scopes

LEMMA LimitsStart == LimitsInit => LimitsInv
<1> SUFFICES ASSUME LimitsInit PROVE LimitsInv
  OBVIOUS
<1>1. LimitsShape
  <2>1. tier \in Nat /\ flow \in [Scopes -> Nat]
    BY LimitsAssumption DEF LimitsInit
  <2>2. IsFiniteSet(entries)
    BY FS_EmptySet DEF LimitsInit
  <2>3. QED
    BY <2>1, <2>2 DEF LimitsInit, LimitsShape, Working
<1>2. LockIsOne /\ LockedPassed
  BY DEF LimitsInit, LockIsOne, LockedPassed
<1>3. EveryHour
  <2>1. \A s \in Scopes, t \in Int : Within(s, t) = {}
    BY DEF LimitsInit, Within, Counted
  <2>2. QED
    BY <2>1, FS_EmptySet, LimitsAssumption DEF EveryHour
<1>4. EveryDay
  BY DEF LimitsInit, EveryDay, On, Counted
<1>5. QED
  BY <1>1, <1>2, <1>3, <1>4 DEF LimitsInv

\* Nothing the rules read changes while the entries stay.
LEMMA SameEntries ==
    ASSUME UNCHANGED entries
    PROVE  /\ EveryHour => EveryHour'
           /\ EveryDay => EveryDay'
           /\ \A r \in Requests : AlreadyPosted(r) => AlreadyPosted(r)'
           /\ \A r \in Requests, l \in Int, t \in Int : Room(r, l, t) => Room(r, l, t)'
<1>1. EveryHour => EveryHour'
  BY DEF EveryHour, Within, Counted
<1>2. EveryDay => EveryDay'
  BY DEF EveryDay, On, Counted, Debits
<1>3. \A r \in Requests : AlreadyPosted(r) => AlreadyPosted(r)'
  BY DEF AlreadyPosted
<1>4. \A r \in Requests, l \in Int, t \in Int : Room(r, l, t) => Room(r, l, t)'
  BY DEF Room, WithinDay, SpentToday, Debits, Counted, WithinHour, MovedThisHour
<1>5. QED
  BY <1>1, <1>2, <1>3, <1>4

\* A handler that goes on without taking the lock, or lets go of it, disturbs
\* nobody.
LEMMA MovesAside ==
    ASSUME LimitsInv, LimitsShape', UNCHANGED entries, NEW h \in Handlers,
           place'[h] # "locked",
           \A g \in Handlers \ {h} :
               /\ place'[g] = place[g] /\ doing'[g] = doing[g]
               /\ limit'[g] = limit[g] /\ began'[g] = began[g]
    PROVE  LimitsInv'
<1>1. LockIsOne'
  BY DEF LimitsInv, LockIsOne
<1>2. LockedPassed'
  <2>1. ASSUME NEW g \in Handlers, place'[g] = "locked"
        PROVE  (AlreadyPosted(doing[g]) \/ Room(doing[g], limit[g], began[g]))'
    <3>1. /\ g # h /\ place[g] = "locked" /\ doing'[g] = doing[g]
          /\ limit'[g] = limit[g] /\ began'[g] = began[g]
      BY <2>1
    <3>2. doing[g] \in Requests /\ limit[g] \in Int /\ began[g] \in Int
      BY <3>1 DEF LimitsInv, LimitsShape, Working
    <3>3. PICK r \in Requests, l \in Int, t \in Int :
             r = doing[g] /\ l = limit[g] /\ t = began[g]
      BY <3>2
    <3>4. AlreadyPosted(r) \/ Room(r, l, t)
      BY <3>1, <3>3 DEF LimitsInv, LockedPassed
    <3>5. AlreadyPosted(r)' \/ Room(r, l, t)'
      BY <3>4, SameEntries
    <3>6. QED
      BY <3>1, <3>3, <3>5
  <2>2. QED
    BY <2>1 DEF LockedPassed
<1>3. EveryHour' /\ EveryDay'
  BY SameEntries DEF LimitsInv
<1>4. QED
  BY <1>1, <1>2, <1>3 DEF LimitsInv

LEMMA CheckKeeps ==
    ASSUME LimitsInv, NEW h \in Handlers, Check(h), place' = [place EXCEPT ![h] = "locked"],
           UNCHANGED <<doing, limit, began>>, Passes(doing[h], limit[h], began[h])
    PROVE  LimitsInv'
<1>1. UNCHANGED <<entries, clock, tier, flow>> /\ place[h] = "open"
  BY DEF Check
<1>2. LimitsShape'
  BY <1>1 DEF LimitsInv, LimitsShape, Working
<1>3. \A g \in Handlers : ~HoldsLock(g, ScopeOf[doing[h]])
  BY DEF Check
<1>4. LockIsOne'
  BY <1>3 DEF LimitsInv, LimitsShape, LockIsOne, HoldsLock
<1>5. LockedPassed'
  <2>1. ASSUME NEW g \in Handlers, place'[g] = "locked"
        PROVE  (AlreadyPosted(doing[g]) \/ Room(doing[g], limit[g], began[g]))'
    <3>1. doing'[g] = doing[g] /\ limit'[g] = limit[g] /\ began'[g] = began[g]
      OBVIOUS
    <3>2. AlreadyPosted(doing[g]) \/ Room(doing[g], limit[g], began[g])
      BY <2>1 DEF Passes, Room, LimitsInv, LimitsShape, LockedPassed
    <3>3. doing[g] \in Requests /\ limit[g] \in Int /\ began[g] \in Int
      BY <1>1, <2>1 DEF LimitsInv, LimitsShape, Working
    <3>4. PICK r \in Requests, l \in Int, t \in Int :
             r = doing[g] /\ l = limit[g] /\ t = began[g]
      BY <3>3
    <3>5. AlreadyPosted(r)' \/ Room(r, l, t)'
      BY <1>1, <3>2, <3>4, SameEntries
    <3>6. QED
      BY <3>1, <3>4, <3>5
  <2>2. QED
    BY <2>1 DEF LockedPassed
<1>6. QED
  BY <1>1, <1>2, <1>4, <1>5, SameEntries DEF LimitsInv

\* The entry a handler commits is the one more that its check made room for, in
\* every hour that holds it.
LEMMA NewEntryFits ==
    ASSUME LimitsInv, NEW h \in Handlers, place[h] = "locked", ~AlreadyPosted(doing[h]),
           NEW n, n.req = doing[h], n.at = began[h],
           entries' = entries \cup {n}
    PROVE  EveryHour'
<1> DEFINE S == ScopeOf[doing[h]]
<1>1. doing[h] \in Requests /\ began[h] \in Int /\ S \in Scopes /\ CountHourly[S] \in Nat
  BY ScopesCounted DEF LimitsInv, LimitsShape, Working
<1>2. WithinHour(doing[h], began[h])
  BY DEF LimitsInv, LockedPassed, Room
<1>3. Hour \in Nat \ {0}
  BY LimitsAssumption
<1>4. SUFFICES ASSUME NEW s \in Scopes, NEW t \in Int
               PROVE  Cardinality(Within(s, t)') <= CountHourly[s]
  BY DEF EveryHour
<1>5. Cardinality(Within(s, t)) <= CountHourly[s]
  BY DEF LimitsInv, EveryHour
<1>6. Counted(s)' \subseteq Counted(s) \cup {n}
  BY DEF Counted
<1>7. CASE s # S \/ n.at \notin t..(t + Hour - 1)
  <2>1. Within(s, t)' = Within(s, t)
    BY <1>7 DEF Within, Counted
  <2>2. QED
    BY <1>5, <2>1
<1>8. CASE s = S /\ n.at \in t..(t + Hour - 1)
  <2> DEFINE M == {e \in Counted(S) : e.at > began[h] - Hour}
  <2>1. IsFiniteSet(M) /\ Cardinality(M) \in Nat
    <3>1. M \in SUBSET entries
      BY DEF Counted
    <3>2. QED
      BY <3>1, FS_Subset, FS_CardinalityType DEF LimitsInv, LimitsShape
  <2>2. Cardinality(M) + 1 <= CountHourly[S]
    BY <1>2 DEF WithinHour, MovedThisHour
  <2>3. Within(s, t)' \subseteq M \cup {n}
    <3>1. ASSUME NEW e \in Within(s, t)', e # n
          PROVE  e \in M
      <4>1. e \in Counted(S) /\ e.at \in t..(t + Hour - 1) /\ e.at \in Int
        BY <1>8, <3>1 DEF Within, Counted, LimitsInv, LimitsShape
      <4>2. e.at > began[h] - Hour
        BY <1>1, <1>3, <1>8, <4>1
      <4>3. QED
        BY <4>1, <4>2
    <3>2. QED
      BY <3>1
  <2>4. IsFiniteSet(M \cup {n}) /\ Cardinality(M \cup {n}) <= Cardinality(M) + 1
    BY <2>1, FS_AddElement
  <2>5. /\ Cardinality(Within(s, t)') <= Cardinality(M \cup {n})
        /\ Cardinality(Within(s, t)') \in Nat /\ Cardinality(M \cup {n}) \in Nat
    BY <2>3, <2>4, FS_Subset, FS_CardinalityType
  <2>6. QED
    BY <1>1, <1>8, <2>1, <2>2, <2>4, <2>5
<1>9. QED
  BY <1>7, <1>8

\* A day begins before all that is on it.
LEMMA DayBegins ==
    ASSUME NEW D \in Nat \ {0}, NEW x \in Int
    PROVE  D * (x \div D) \in Int /\ D * (x \div D) <= x
OBVIOUS

\* Sums over entries there were before.
LEMMA OldDebits ==
    ASSUME LimitsInv, NEW n, entries' = entries \cup {n}, NEW S \in SUBSET entries
    PROVE  /\ IsFiniteSet(S) /\ NatsOn(Debits, S)
           /\ SumFunctionOnSet(Debits', S) = SumFunctionOnSet(Debits, S)
<1>1. IsFiniteSet(S)
  BY FS_Subset DEF LimitsInv, LimitsShape
<1>2. NatsOn(Debits, S)
  BY LimitsAssumption DEF NatsOn, Debits, LimitsInv, LimitsShape
<1>3. \A e \in S : Debits'[e] = Debits[e]
  BY DEF Debits
<1>4. QED
  BY <1>1, <1>2, <1>3, SumSame

\* The entry a handler commits fits under the ceiling it read, with all that is
\* on the day it is dated.
LEMMA NewEntryInDay ==
    ASSUME LimitsInv, NEW h \in Handlers, place[h] = "locked", ~AlreadyPosted(doing[h]),
           NEW n, n.req = doing[h], n.at = began[h], n.limit = limit[h],
           entries' = entries \cup {n}
    PROVE  EveryDay'
<1> DEFINE S == ScopeOf[doing[h]]
<1>1. /\ doing[h] \in Requests /\ began[h] \in Int /\ limit[h] \in Int /\ S \in Scopes
      /\ Amount[doing[h]] \in Nat /\ n \notin entries
  BY ScopesCounted, LimitsAssumption DEF LimitsInv, LimitsShape, Working, AlreadyPosted
<1>2. WithinDay(doing[h], limit[h], began[h])
  BY DEF LimitsInv, LockedPassed, Room
<1>3. SUFFICES ASSUME NEW s \in Scopes, NEW d \in Int, On(s, d)' # {}
               PROVE  \E e \in On(s, d)' : SumFunctionOnSet(Debits', On(s, d)') <= e.limit
  BY DEF EveryDay
<1>4. On(s, d) \in SUBSET entries
  BY DEF On, Counted
<1>5. CASE s # S \/ n.at \div Day # d
  <2>1. On(s, d)' = On(s, d)
    BY <1>5 DEF On, Counted
  <2>2. PICK e \in On(s, d) : SumFunctionOnSet(Debits, On(s, d)) <= e.limit
    BY <1>3, <2>1 DEF LimitsInv, EveryDay
  <2>3. SumFunctionOnSet(Debits', On(s, d)) = SumFunctionOnSet(Debits, On(s, d))
    BY <1>4, OldDebits
  <2>4. SumFunctionOnSet(Debits', On(s, d)') = SumFunctionOnSet(Debits, On(s, d))
    BY <2>1, <2>3, Zenon
  <2>5. QED
    BY <2>1, <2>2, <2>4, Zenon
<1>6. CASE s = S /\ n.at \div Day = d
  <2> DEFINE O == On(s, d)
             T == {e \in Counted(S) : e.at >= DayStart(began[h])}
  <2>1. On(s, d)' = O \cup {n}
    BY <1>6 DEF On, Counted
  <2>2. T \in SUBSET entries /\ O \in SUBSET T
    <3>1. T \in SUBSET entries
      BY DEF Counted
    <3>2. ASSUME NEW e \in O
          PROVE  e \in T
      <4>1. e \in Counted(S) /\ e.at \in Int /\ e.at \div Day = began[h] \div Day
        BY <1>4, <1>6 DEF On, LimitsInv, LimitsShape
      <4>2. Day * (e.at \div Day) <= e.at
        BY <4>1, DayBegins, LimitsAssumption
      <4>3. QED
        BY <4>1, <4>2 DEF DayStart
    <3>3. QED
      BY <3>1, <3>2
  <2>3. /\ SumFunctionOnSet(Debits, O) \in Nat
        /\ SumFunctionOnSet(Debits, O) <= SumFunctionOnSet(Debits, T)
        /\ SumFunctionOnSet(Debits, T) \in Nat
    <3>1. IsFiniteSet(T) /\ NatsOn(Debits, T) /\ T \in SUBSET T
      BY <2>2, OldDebits
    <3>2. QED
      <4> HIDE DEF O, T
      <4>1. QED
        BY <2>2, <3>1, SumOfPart
  <2>4. SumFunctionOnSet(Debits, T) + Amount[doing[h]] <= limit[h]
    BY <1>2 DEF WithinDay, SpentToday
  <2>5. SumFunctionOnSet(Debits', O) = SumFunctionOnSet(Debits, O)
    BY <1>4, OldDebits
  <2>6. SumFunctionOnSet(Debits', O \cup {n}) = SumFunctionOnSet(Debits', O) + Debits'[n]
    <3>1. IsFiniteSet(O) /\ n \notin O
      BY <1>1, <1>4, OldDebits
    <3>2. IntsOn(Debits', O \cup {n})
      BY <1>1, <1>4, LimitsAssumption DEF IntsOn, Debits, LimitsInv, LimitsShape
    <3>3. QED
      <4> HIDE DEF O
      <4>1. QED
        BY <3>1, <3>2, SumAdd
  <2>7. Debits'[n] = Amount[doing[h]]
    BY DEF Debits
  <2>8. SumFunctionOnSet(Debits', O \cup {n}) <= n.limit
    <3> HIDE DEF O, T
    <3>1. QED
      BY <1>1, <2>3, <2>4, <2>5, <2>6, <2>7
  <2>9. SumFunctionOnSet(Debits', On(s, d)') <= n.limit
    BY <2>1, <2>8, Zenon
  <2>10. QED
    BY <2>1, <2>9
<1>7. QED
  BY <1>5, <1>6

LEMMA CommitKeeps ==
    ASSUME LimitsInv, NEW h \in Handlers, CommitMovement(h)
    PROVE  LimitsInv'
<1> DEFINE n == [req |-> doing[h], at |-> began[h], limit |-> limit[h]]
<1>1. place[h] = "locked" /\ doing[h] \in Requests /\ began[h] \in Int /\ limit[h] \in Int
  BY DEF CommitMovement, LimitsInv, LimitsShape, Working
<1>2. /\ place' = [place EXCEPT ![h] = "idle"]
      /\ \E r : doing' = [doing EXCEPT ![h] = r]
      /\ limit' = [limit EXCEPT ![h] = 0]
      /\ began' = [began EXCEPT ![h] = 0]
      /\ UNCHANGED <<clock, tier, flow>>
  BY DEF CommitMovement, Ends
<1>3. CASE AlreadyPosted(doing[h])
  <2>1. UNCHANGED entries
    BY <1>3 DEF CommitMovement
  <2>2. LimitsShape'
    BY <1>2, <2>1 DEF LimitsInv, LimitsShape, Working
  <2>3. QED
    BY <1>2, <2>1, <2>2, MovesAside DEF LimitsInv, LimitsShape
<1>4. CASE ~AlreadyPosted(doing[h])
  <2>1. /\ entries' = entries \cup {n}
        /\ n.req = doing[h] /\ n.at = began[h] /\ n.limit = limit[h]
    BY <1>4 DEF CommitMovement
  <2>2. LimitsShape'
    <3>1. IsFiniteSet(entries')
      BY <2>1, FS_AddElement DEF LimitsInv, LimitsShape
    <3>2. \A e \in entries' : e.req \in Requests /\ e.at \in Int /\ e.limit \in Int
      BY <1>1, <2>1 DEF LimitsInv, LimitsShape
    <3>3. QED
      BY <1>2, <3>1, <3>2 DEF LimitsInv, LimitsShape, Working
  <2>3. EveryHour' /\ EveryDay'
    BY <1>1, <1>4, <2>1, NewEntryFits, NewEntryInDay
  <2>4. \A g \in Handlers : place'[g] = "locked" =>
           /\ g # h /\ place[g] = "locked" /\ doing'[g] = doing[g]
           /\ limit'[g] = limit[g] /\ began'[g] = began[g]
    BY <1>2 DEF LimitsInv, LimitsShape
  <2>5. LockIsOne'
    BY <2>4 DEF LimitsInv, LockIsOne
  <2>6. LockedPassed'
    <3>1. ASSUME NEW g \in Handlers, place'[g] = "locked"
          PROVE  (AlreadyPosted(doing[g]) \/ Room(doing[g], limit[g], began[g]))'
      <4>1. ScopeOf[doing[g]] # ScopeOf[doing[h]]
        BY <1>1, <2>4, <3>1 DEF LimitsInv, LockIsOne
      <4>2. PICK r \in Requests, l \in Int, t \in Int :
             r = doing[g] /\ l = limit[g] /\ t = began[g]
        BY <2>4, <3>1 DEF LimitsInv, LimitsShape, Working
      <4>3. AlreadyPosted(r) \/ Room(r, l, t)
        BY <2>4, <3>1, <4>2 DEF LimitsInv, LockedPassed
      <4>4. AlreadyPosted(r) => AlreadyPosted(r)'
        BY <2>1 DEF AlreadyPosted
      <4>5. Counted(ScopeOf[r])' = Counted(ScopeOf[r])
        BY <2>1, <4>1, <4>2 DEF Counted
      <4>6. Room(r, l, t) => Room(r, l, t)'
        <5> DEFINE T == {e \in Counted(ScopeOf[r]) : e.at >= DayStart(t)}
        <5>1. T' = T /\ T \in SUBSET entries
          BY <4>5 DEF Counted, DayStart
        <5>2. SumFunctionOnSet(Debits', T) = SumFunctionOnSet(Debits, T)
          BY <2>1, <5>1, OldDebits
        <5>3. SpentToday(ScopeOf[r], t)' = SpentToday(ScopeOf[r], t)
          BY <5>1, <5>2, Zenon DEF SpentToday
        <5>4. QED
          BY <4>5, <5>3 DEF Room, WithinDay, WithinHour, MovedThisHour
      <4>7. QED
        BY <2>4, <3>1, <4>2, <4>3, <4>4, <4>6
    <3>2. QED
      BY <3>1 DEF LockedPassed
  <2>7. QED
    BY <2>2, <2>3, <2>5, <2>6 DEF LimitsInv
<1>5. QED
  BY <1>3, <1>4

LEMMA LimitsStay ==
    ASSUME LimitsInv, [LimitsNext]_limitsVars
    PROVE  LimitsInv'
<1>1. ASSUME NEW h \in Handlers, NEW r \in Requests, ReadLimits(h, r)
      PROVE  LimitsInv'
  <2>0. Lower(tier, flow[ScopeOf[r]]) \in Int
    BY ScopesCounted DEF Lower, LimitsInv, LimitsShape
  <2>1. LimitsShape'
    BY <1>1, <2>0 DEF ReadLimits, LimitsInv, LimitsShape, Working
  <2>2. QED
    BY <1>1, <2>1, MovesAside DEF ReadLimits, LimitsInv, LimitsShape
<1>2. ASSUME NEW h \in Handlers, Begin(h)
      PROVE  LimitsInv'
  <2>1. LimitsShape'
    BY <1>2 DEF Begin, LimitsInv, LimitsShape, Working
  <2>2. QED
    BY <1>2, <2>1, MovesAside DEF Begin, LimitsInv, LimitsShape
<1>3. ASSUME NEW h \in Handlers, UNCHANGED <<clock, tier, flow, entries>>, Ends(h)
      PROVE  LimitsInv'
  <2> DEFINE first == CHOOSE r \in Requests : TRUE
  <2>0. /\ place' = [place EXCEPT ![h] = "idle"]
        /\ doing' = [doing EXCEPT ![h] = first]
        /\ limit' = [limit EXCEPT ![h] = 0]
        /\ began' = [began EXCEPT ![h] = 0]
    BY <1>3 DEF Ends
  <2> HIDE DEF first
  <2>1. LimitsShape'
    BY <1>3, <2>0 DEF LimitsInv, LimitsShape, Working
  <2>2. QED
    BY <1>3, <2>0, <2>1, MovesAside DEF LimitsInv, LimitsShape
<1>4. ASSUME NEW h \in Handlers, Check(h)
      PROVE  LimitsInv'
  <2>1. CASE Passes(doing[h], limit[h], began[h])
    BY <1>4, <2>1, CheckKeeps DEF Check
  <2>2. CASE ~Passes(doing[h], limit[h], began[h])
    BY <1>3, <1>4, <2>2 DEF Check
  <2>3. QED
    BY <2>1, <2>2
<1>5. ASSUME NEW h \in Handlers, Abort(h)
      PROVE  LimitsInv'
  BY <1>3, <1>5 DEF Abort
<1>6. CASE /\ UNCHANGED <<entries, place, doing, limit, began>>
           /\ clock' \in Int /\ tier' \in Nat /\ flow' \in [Scopes -> Nat]
  <2>1. LimitsShape' /\ LockIsOne' /\ EveryHour' /\ EveryDay'
    BY <1>6, SameEntries DEF LimitsInv, LimitsShape, Working, LockIsOne
  <2>2. LockedPassed'
    BY <1>6 DEF LimitsInv, LockedPassed, AlreadyPosted, Room, WithinDay, SpentToday, Debits,
                WithinHour, MovedThisHour, Counted
  <2>3. QED
    BY <2>1, <2>2 DEF LimitsInv
<1>7. ASSUME MoveTier \/ MoveFlow \/ Tick \/ UNCHANGED limitsVars
      PROVE  LimitsInv'
  BY <1>6, <1>7, LimitsAssumption DEF MoveTier, MoveFlow, Tick, limitsVars, LimitsInv, LimitsShape
<1>8. QED
  BY <1>1, <1>2, <1>4, <1>5, <1>7, CommitKeeps DEF LimitsNext

\* No hour has more movements of a scope than the hourly count, for any number of
\* handlers and requests, wherever the hour begins and however long a
\* transaction waited for the lock (the precondition of
\* spending-limits.service.ts under its advisory lock).
THEOREM HoursAreCounted == LimitsSpec => []HourWithinCount
<1>1. LimitsInv /\ [LimitsNext]_limitsVars => LimitsInv'
  BY LimitsStay
<1>2. LimitsInv => HourWithinCount
  BY LimitsAssumption DEF LimitsInv, EveryHour, HourWithinCount, Within
<1>3. QED
  BY LimitsStart, <1>1, <1>2, PTL DEF LimitsSpec

\* What a customer moves in a scope on one day stays within a ceiling that one of
\* that day's movements was allowed under, for any number of handlers and
\* requests, and whenever staff move the ceilings.
THEOREM DaysAreWithinCeilings == LimitsSpec => []DayWithinCeiling
<1>1. LimitsInv /\ [LimitsNext]_limitsVars => LimitsInv'
  BY LimitsStay
<1>2. LimitsInv => DayWithinCeiling
  <2>1. 0..(MaxClock \div Day) \subseteq Int
    OBVIOUS
  <2>2. QED
    BY <2>1 DEF LimitsInv, EveryDay, DayWithinCeiling
<1>3. QED
  BY LimitsStart, <1>1, <1>2, PTL DEF LimitsSpec
=============================================================================
