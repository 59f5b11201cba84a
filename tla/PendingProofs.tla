---------------------------- MODULE PendingProofs -----------------------------
(* Card holds and gift card holds for any charges, events, handlers,           *)
(* submissions and reviewers, from the inductive invariant IInv of              *)
(* PendingAccount.tla.                                                         *)
EXTENDS PendingAccount, Sums

LEMMA InitHasInv == Init => IInv
<1> SUFFICES ASSUME Init PROVE IInv
    OBVIOUS
<1>1. Cards!IInv
  BY PendingAccountAssumption DEF Init, Cards!Init, Cards!Assumption, Cards!IInv, Cards!TypeOK,
                                  Cards!EachHoldPaysItself, Cards!ClosedByOneEvent,
                                  Cards!Expiries, Cards!Settlements, Cards!ReadsAreLasting,
                                  Cards!RowsHaveEntries, Cards!Outcome, Cards!Outcomes
<1>2. Gifts!IInv
  BY PendingAccountAssumption DEF Init, Gifts!Init, Gifts!Assumption, Gifts!IInv, Gifts!TypeOK,
                                  Gifts!StatusTellsLedger, Gifts!DeskHasACard, Gifts!Statuses,
                                  Gifts!Decisions, Gifts!Keys, Gifts!Away
<1> QED BY <1>1, <1>2 DEF IInv

-----------------------------------------------------------------------------
(* The card events. *)

\* What each new entry adds to the expiries and settlements of each charge.
LEMMA NewEntry ==
    ASSUME NEW e \in Events, posted' = posted \cup {e}, NEW a \in Auths
    PROVE  /\ Cards!Expiries(a)' =
                 Cards!Expiries(a) \cup
                 IF AuthOf[e] = a /\ KindOf[e] = "expiry" THEN {e} ELSE {}
           /\ Cards!Settlements(a)' =
                 Cards!Settlements(a) \cup
                 IF AuthOf[e] = a /\ KindOf[e] = "settlement" THEN {e} ELSE {}
BY DEF Cards!Expiries, Cards!Settlements

\* Nothing of a charge changes in a step that leaves its row, its outcome and
\* what was drawn alone.
LEMMA SameOutcome ==
    ASSUME UNCHANGED closing, NEW a \in Auths
    PROVE  Cards!Outcome(a)' = Cards!Outcome(a)
BY DEF Cards!Outcome

\* A handler comes and goes without an entry.
LEMMA ReceiveKeepsInv ==
    ASSUME IInv, NEW h \in Handlers, NEW e \in Events, Cards!Receive(h, e)
    PROVE  Cards!IInv'
<1> USE PendingAccountAssumption DEF IInv, Cards!Assumption, Cards!IInv, Cards!Receive, Cards!rows
<1>1. Cards!TypeOK'
  BY DEF Cards!TypeOK, Cards!Outcome, Cards!Outcomes
<1>2. Cards!EachHoldPaysItself'
  BY DEF Cards!EachHoldPaysItself, Cards!Outcome
<1>3. Cards!ClosedByOneEvent'
  BY DEF Cards!ClosedByOneEvent, Cards!Outcome, Cards!Expiries, Cards!Settlements
<1>4. Cards!ReadsAreLasting'
  BY DEF Cards!TypeOK, Cards!ReadsAreLasting, Cards!Outcome, Cards!GoesOn, Cards!Resolves
<1>5. Cards!RowsHaveEntries'
  BY DEF Cards!RowsHaveEntries
<1> QED BY <1>1, <1>2, <1>3, <1>4, <1>5

LEMMA EndKeepsInv ==
    ASSUME IInv, NEW h \in Handlers, Cards!EndWithout(h)
    PROVE  Cards!IInv'
<1> USE PendingAccountAssumption
    DEF IInv, Cards!Assumption, Cards!IInv, Cards!EndWithout, Cards!Leave, Cards!rows
<1>1. Cards!TypeOK'
  BY DEF Cards!TypeOK, Cards!Outcomes
<1>2. Cards!EachHoldPaysItself'
  BY DEF Cards!EachHoldPaysItself, Cards!Outcome
<1>3. Cards!ClosedByOneEvent'
  BY DEF Cards!ClosedByOneEvent, Cards!Outcome, Cards!Expiries, Cards!Settlements
<1>4. Cards!ReadsAreLasting'
  BY DEF Cards!TypeOK, Cards!ReadsAreLasting, Cards!Outcome, Cards!Resolves
<1>5. Cards!RowsHaveEntries'
  BY DEF Cards!RowsHaveEntries
<1> QED BY <1>1, <1>2, <1>3, <1>4, <1>5

\* An entry that closes nothing: an authorization, a late settlement, a refund, and
\* what names no authorization.
OpenEntry(h) ==
    \/ Cards!Authorize(h) \/ Cards!SettleLate(h) \/ Cards!Refund(h)
    \/ Cards!SettleUnnamed(h) \/ Cards!ExpireUnnamed(h)

LEMMA OpenEntryTypes ==
    ASSUME IInv, NEW h \in Handlers, OpenEntry(h)
    PROVE  Cards!TypeOK'
<1> DEFINE e == event[h]
<1> USE PendingAccountAssumption DEF IInv, Cards!Assumption, Cards!IInv
<1>1. e \in Events
  BY DEF OpenEntry, Cards!TypeOK, Cards!Authorize, Cards!SettleLate, Cards!Refund,
         Cards!SettleUnnamed, Cards!ExpireUnnamed, Cards!Enters
<1> USE <1>1 DEF Cards!TypeOK, Cards!Enters, Cards!Leave, Cards!Outcomes, Cards!rows
<1>2. CASE Cards!Authorize(h)
  <2>1. AuthOf[e] \in Auths
    BY <1>2 DEF Cards!Authorize
  <2> QED BY <1>2, <2>1 DEF Cards!Authorize
<1>3. CASE Cards!SettleLate(h)
  BY <1>3 DEF Cards!SettleLate
<1>4. CASE Cards!Refund(h)
  BY <1>4 DEF Cards!Refund
<1>5. CASE Cards!SettleUnnamed(h)
  BY <1>5 DEF Cards!SettleUnnamed
<1>6. CASE Cards!ExpireUnnamed(h)
  BY <1>6 DEF Cards!ExpireUnnamed
<1> QED BY <1>2, <1>3, <1>4, <1>5, <1>6 DEF OpenEntry

LEMMA OpenEntryKeepsInv ==
    ASSUME IInv, NEW h \in Handlers, OpenEntry(h)
    PROVE  Cards!IInv'
<1> DEFINE e == event[h]
<1> USE PendingAccountAssumption DEF IInv, Cards!Assumption, Cards!IInv
<1>1. /\ e \in Events /\ posted' = posted \cup {e} /\ e \notin posted
      /\ UNCHANGED <<closing, drawn>>
      /\ event' = [event EXCEPT ![h] = NoEvent]
      /\ read' = [read EXCEPT ![h] = "none"]
      /\ KindOf[e] = "expiry" => AuthOf[e] = Unnamed
  BY DEF OpenEntry, Cards!TypeOK, Cards!Authorize, Cards!SettleLate, Cards!Refund,
         Cards!SettleUnnamed, Cards!ExpireUnnamed, Cards!Enters, Cards!Leave, Cards!rows,
         Cards!Resolves
<1>2. Cards!TypeOK'
  BY OpenEntryTypes
<1>3. \A a \in Auths : Cards!Outcome(a)' = Cards!Outcome(a)
  BY <1>1, SameOutcome
<1>4. \A a \in Auths : hold[a] > 0 => hold'[a] = hold[a]
  BY DEF OpenEntry, Cards!TypeOK, Cards!Authorize, Cards!SettleLate, Cards!Refund,
         Cards!SettleUnnamed, Cards!ExpireUnnamed, Cards!rows
<1>5. Cards!EachHoldPaysItself'
  BY <1>1, <1>3, <1>4 DEF Cards!TypeOK, Cards!EachHoldPaysItself, Cards!ReadsAreLasting,
                          Cards!Outcome, Cards!Lesser
<1>6. Cards!ClosedByOneEvent'
  <2>1. CASE KindOf[e] # "settlement" \/ AuthOf[e] = Unnamed
    BY <1>1, <1>3, <2>1, NewEntry DEF Cards!ClosedByOneEvent
  <2>2. CASE KindOf[e] = "settlement" /\ AuthOf[e] # Unnamed
    <3>1. Cards!Outcome(AuthOf[e]) = "expired"
      BY <2>2 DEF OpenEntry, Cards!Authorize, Cards!SettleLate, Cards!Refund,
                  Cards!SettleUnnamed, Cards!ExpireUnnamed, Cards!Enters, Cards!Resolves,
                  Cards!ReadsAreLasting
    <3> QED BY <1>1, <1>3, <2>2, <3>1, NewEntry DEF Cards!ClosedByOneEvent
  <2> QED BY <2>1, <2>2
<1>7. Cards!ReadsAreLasting'
  <2>1. \A f \in Events : Cards!Resolves(f) => AuthOf[f] \in Auths
    BY DEF Cards!Resolves
  <2> QED BY <1>1, <1>3, <1>4, <2>1 DEF Cards!TypeOK, Cards!ReadsAreLasting, Cards!Resolves
<1>8. Cards!RowsHaveEntries'
  <2>1. CASE UNCHANGED <<hold, opening>>
    BY <1>1, <2>1 DEF Cards!RowsHaveEntries
  <2>2. CASE Cards!Authorize(h)
    <3>1. PICK b \in Auths : b = AuthOf[e]
      BY <1>1, <2>2 DEF Cards!Authorize, Cards!Enters
    <3>2. /\ hold' = [hold EXCEPT ![b] = IF @ = 0 THEN AmountOf[e] ELSE @]
          /\ opening' = [opening EXCEPT ![b] = IF @ = NoEvent THEN e ELSE @]
      BY <2>2, <3>1 DEF Cards!Authorize
    <3>3. \A a \in Auths :
             /\ opening'[a] = IF a = b /\ opening[b] = NoEvent THEN e ELSE opening[a]
             /\ hold'[a] = IF a = b /\ hold[b] = 0 THEN AmountOf[e] ELSE hold[a]
      BY <3>2 DEF Cards!TypeOK
    <3> QED BY <1>1, <3>3 DEF Cards!RowsHaveEntries
  <2> QED BY <2>1, <2>2 DEF OpenEntry, Cards!SettleLate, Cards!Refund, Cards!SettleUnnamed,
                            Cards!ExpireUnnamed, Cards!rows
<1> QED BY <1>2, <1>5, <1>6, <1>7, <1>8

\* An entry that closes a hold, checked open under the lock.
LEMMA ClosingKeepsInv ==
    ASSUME IInv, NEW h \in Handlers, Cards!Settle(h) \/ Cards!Expire(h)
    PROVE  Cards!IInv'
<1> USE PendingAccountAssumption DEF IInv, Cards!Assumption, Cards!IInv
<1>e. PICK e \in Events : e = event[h]
  BY DEF Cards!TypeOK, Cards!Settle, Cards!Expire, Cards!Enters
<1>b. PICK b \in Auths : b = AuthOf[e]
  BY <1>e DEF Cards!Settle, Cards!Expire, Cards!Resolves
<1>1. /\ e # NoEvent /\ posted' = posted \cup {e}
      /\ AuthOf[e] = b /\ closing[b] = NoEvent /\ hold[b] > 0
      /\ closing' = [closing EXCEPT ![b] = e]
      /\ KindOf[e] \in {"settlement", "expiry"}
      /\ UNCHANGED <<hold, opening>>
  BY <1>e, <1>b DEF Cards!TypeOK, Cards!Settle, Cards!Expire, Cards!Enters,
                    Cards!ReadsAreLasting, Cards!Resolves
<1>2. \A a \in Auths : a # b => Cards!Outcome(a)' = Cards!Outcome(a)
  BY <1>1 DEF Cards!TypeOK, Cards!Outcome
<1>3. /\ Cards!Outcome(b) = "none"
      /\ Cards!Outcome(b)' = IF KindOf[e] = "settlement" THEN "settled" ELSE "expired"
  BY <1>1 DEF Cards!TypeOK, Cards!Outcome
<1>4. drawn[b] = 0
  BY <1>1, <1>3 DEF Cards!EachHoldPaysItself
<1>5. Cards!TypeOK'
  <2>1. CASE Cards!Settle(h)
    BY <2>1, <1>1, <1>e, <1>b DEF Cards!TypeOK, Cards!Settle, Cards!Enters, Cards!Leave,
                                  Cards!Outcomes, Cards!Lesser
  <2>2. CASE Cards!Expire(h)
    BY <2>2, <1>1, <1>e, <1>b DEF Cards!TypeOK, Cards!Expire, Cards!Enters, Cards!Leave,
                                  Cards!Outcomes
  <2> QED BY <2>1, <2>2
<1>6. /\ drawn'[b] = IF KindOf[e] = "settlement" THEN Cards!Lesser(AmountOf[e], hold[b])
                                                 ELSE hold[b]
      /\ \A a \in Auths : a # b => drawn'[a] = drawn[a]
  <2>1. CASE Cards!Settle(h)
    BY <2>1, <1>1, <1>4, <1>e, <1>b DEF Cards!TypeOK, Cards!Settle, Cards!Enters, Cards!Lesser
  <2>2. CASE Cards!Expire(h)
    BY <2>2, <1>1, <1>4, <1>e, <1>b DEF Cards!TypeOK, Cards!Expire, Cards!Enters
  <2> QED BY <2>1, <2>2
<1>7. Cards!EachHoldPaysItself'
  <2> SUFFICES ASSUME NEW a \in Auths
               PROVE  CASE Cards!Outcome(a)' = "none"    -> drawn'[a] = 0
                        [] Cards!Outcome(a)' = "settled" ->
                              drawn'[a] = Cards!Lesser(AmountOf[closing'[a]], hold[a])
                        [] OTHER                         -> drawn'[a] = hold[a]
    BY <1>1 DEF Cards!EachHoldPaysItself, Cards!Lesser
  <2>1. CASE a = b
    BY <2>1, <1>1, <1>3, <1>6 DEF Cards!TypeOK
  <2>2. CASE a # b
    BY <2>2, <1>1, <1>2, <1>6 DEF Cards!TypeOK, Cards!EachHoldPaysItself
  <2> QED BY <2>1, <2>2
<1>8. Cards!ClosedByOneEvent'
  <2> SUFFICES ASSUME NEW a \in Auths
               PROVE  CASE Cards!Outcome(a)' = "none" ->
                             Cards!Expiries(a)' \cup Cards!Settlements(a)' = {}
                        [] Cards!Outcome(a)' = "settled" ->
                             Cards!Expiries(a)' = {} /\ Cards!Settlements(a)' = {closing'[a]}
                        [] OTHER -> Cards!Expiries(a)' = {closing'[a]}
    BY DEF Cards!ClosedByOneEvent
  <2>1. CASE a = b
    <3>1. Cards!Expiries(b) = {} /\ Cards!Settlements(b) = {}
      BY <1>1, <1>3 DEF Cards!ClosedByOneEvent
    <3> QED BY <2>1, <3>1, <1>1, <1>3, NewEntry DEF Cards!TypeOK
  <2>2. CASE a # b
    BY <2>2, <1>1, <1>2, NewEntry DEF Cards!TypeOK, Cards!ClosedByOneEvent
  <2> QED BY <2>1, <2>2
<1>9. Cards!ReadsAreLasting'
  <2>1. /\ event' = [event EXCEPT ![h] = NoEvent]
        /\ read' = [read EXCEPT ![h] = "none"]
    BY DEF Cards!Settle, Cards!Expire, Cards!Enters, Cards!Leave
  <2>2. \A a \in Auths : Cards!Outcome(a) = "expired" => Cards!Outcome(a)' = "expired"
    BY <1>2, <1>3
  <2> QED BY <1>1, <2>1, <2>2 DEF Cards!TypeOK, Cards!ReadsAreLasting, Cards!Resolves
<1>10. Cards!RowsHaveEntries'
  BY <1>1 DEF Cards!RowsHaveEntries
<1> QED BY <1>5, <1>7, <1>8, <1>9, <1>10

LEMMA CardsKeepInv ==
    ASSUME IInv, Cards!Next, UNCHANGED giftVars
    PROVE  IInv'
<1>1. Cards!IInv'
  BY ReceiveKeepsInv, EndKeepsInv, OpenEntryKeepsInv, ClosingKeepsInv DEF Cards!Next, OpenEntry
<1>2. Gifts!IInv'
  BY <1>1 DEF IInv, giftVars, Cards!IInv, Cards!TypeOK, Gifts!IInv, Gifts!TypeOK,
              Gifts!StatusTellsLedger, Gifts!DeskHasACard
<1> QED BY <1>1, <1>2 DEF IInv

-----------------------------------------------------------------------------
(* The gift cards. *)

\* The steps that have no entry.
LEMMA NoEntryKeepsInv ==
    ASSUME IInv,
           \/ \E s \in Submissions : Gifts!Submit(s) \/ Gifts!Mature(s) \/ Gifts!ReleaseSkips(s)
           \/ \E d \in Desks, s \in Submissions, choice \in Gifts!Decisions :
                 Gifts!Look(d, choice, s)
           \/ \E d \in Desks : Gifts!Reject(d) \/ Gifts!WalkAway(d)
           \/ Gifts!SweepReads
    PROVE  Gifts!IInv'
<1> USE PendingAccountAssumption DEF IInv, Gifts!Assumption, Gifts!IInv
<1>1. Gifts!TypeOK'
  BY DEF Gifts!TypeOK, Gifts!Statuses, Gifts!Decisions, Gifts!Away, Gifts!Submit, Gifts!Mature,
         Gifts!ReleaseSkips, Gifts!Look, Gifts!Reject, Gifts!Acts, Gifts!WalkAway,
         Gifts!SweepReads
<1>2. Gifts!StatusTellsLedger'
  BY DEF Gifts!TypeOK, Gifts!StatusTellsLedger, Gifts!DeskHasACard, Gifts!Submit, Gifts!Mature,
         Gifts!ReleaseSkips, Gifts!Look, Gifts!Reject, Gifts!Acts, Gifts!WalkAway,
         Gifts!SweepReads
<1>3. Gifts!DeskHasACard'
  BY DEF Gifts!TypeOK, Gifts!DeskHasACard, Gifts!Away, Gifts!Submit, Gifts!Mature,
         Gifts!ReleaseSkips, Gifts!Look, Gifts!Reject, Gifts!Acts, Gifts!WalkAway,
         Gifts!SweepReads
<1> QED BY <1>1, <1>2, <1>3

\* The steps that have one, each on a status looked at under the lock.
LEMMA DecisionKeepsInv ==
    ASSUME IInv, NEW d \in Desks, Gifts!Approve(d) \/ Gifts!Clawback(d)
    PROVE  Gifts!IInv'
<1> USE PendingAccountAssumption DEF IInv, Gifts!Assumption, Gifts!IInv
<1>1. desk[d].about \in Submissions
  BY DEF Gifts!Approve, Gifts!Clawback, Gifts!Acts, Gifts!DeskHasACard
<1>2. Gifts!TypeOK'
  <2>1. CASE Gifts!Approve(d)
    BY <1>1, <2>1 DEF Gifts!TypeOK, Gifts!Statuses, Gifts!Keys, Gifts!Decisions, Gifts!Away,
                      Gifts!Approve, Gifts!Acts
  <2>2. CASE Gifts!Clawback(d)
    BY <1>1, <2>2 DEF Gifts!TypeOK, Gifts!Statuses, Gifts!Keys, Gifts!Decisions, Gifts!Away,
                      Gifts!Clawback, Gifts!Acts
  <2> QED BY <2>1, <2>2
<1>3. Gifts!StatusTellsLedger'
  BY <1>1 DEF Gifts!TypeOK, Gifts!StatusTellsLedger, Gifts!Approve, Gifts!Clawback
<1>4. Gifts!DeskHasACard'
  BY DEF Gifts!TypeOK, Gifts!DeskHasACard, Gifts!Away, Gifts!Approve, Gifts!Clawback, Gifts!Acts
<1> QED BY <1>2, <1>3, <1>4

LEMMA ReleaseKeepsInv ==
    ASSUME IInv, NEW s \in Submissions, Gifts!Release(s)
    PROVE  Gifts!IInv'
<1> USE PendingAccountAssumption DEF IInv, Gifts!Assumption, Gifts!IInv, Gifts!Release
<1>1. Gifts!TypeOK'
  <2> HIDE DEF IInv, Gifts!IInv
  <2>1. Gifts!TypeOK /\ PayoutOf[s] \in Nat
    BY DEF IInv, Gifts!IInv
  <2>2. wallet' \in Nat /\ pending' \in Nat /\ inventory' \in Int
    BY <2>1 DEF Gifts!TypeOK
  <2> QED BY <2>1, <2>2 DEF Gifts!TypeOK, Gifts!Statuses, Gifts!Keys
<1>2. Gifts!StatusTellsLedger'
  BY DEF Gifts!TypeOK, Gifts!StatusTellsLedger
<1>3. Gifts!DeskHasACard'
  BY DEF Gifts!DeskHasACard
<1> QED BY <1>1, <1>2, <1>3

LEMMA GiftsKeepInv ==
    ASSUME IInv, Gifts!Next, UNCHANGED cardVars
    PROVE  IInv'
<1>1. Gifts!IInv'
  BY NoEntryKeepsInv, DecisionKeepsInv, ReleaseKeepsInv DEF Gifts!Next
<1>2. Cards!IInv'
  BY <1>1 DEF IInv, cardVars, Gifts!IInv, Gifts!TypeOK, Cards!IInv, Cards!TypeOK,
              Cards!EachHoldPaysItself, Cards!ClosedByOneEvent, Cards!Expiries,
              Cards!Settlements, Cards!Outcome, Cards!ReadsAreLasting, Cards!RowsHaveEntries
<1> QED BY <1>1, <1>2 DEF IInv

-----------------------------------------------------------------------------
(* The account the two parts share. *)

\* What is in the account is a number, for each charge, event and gift card.
LEMMA LeftIsNumber ==
    ASSUME IInv
    PROVE  /\ \A a \in Auths : LeftOf(a) \in Nat
           /\ \A e \in Events : StrayOf(e) \in Int
           /\ \A s \in Submissions : HeldFor(s) \in Nat
           /\ IntsOn(InCharges, Auths) /\ IntsOn(Strays, Events) /\ IntsOn(InCards, Submissions)
           /\ SumFunctionOnSet(InCharges, Auths) \in Int
           /\ SumFunctionOnSet(Strays, Events) \in Int
           /\ SumFunctionOnSet(InCards, Submissions) \in Int
<1>1. ASSUME NEW a \in Auths PROVE LeftOf(a) \in Nat
  BY PendingAccountAssumption DEF IInv, Cards!IInv, Cards!Assumption, Cards!TypeOK,
                                  Cards!EachHoldPaysItself, Cards!Lesser, Cards!Outcome, LeftOf
<1>2. ASSUME NEW s \in Submissions PROVE HeldFor(s) \in Nat
  BY PendingAccountAssumption DEF Gifts!Assumption, HeldFor
<1>3. ASSUME NEW e \in Events PROVE StrayOf(e) \in Int
  BY PendingAccountAssumption DEF Cards!Assumption, StrayOf
<1>4. IntsOn(InCharges, Auths) /\ IntsOn(Strays, Events) /\ IntsOn(InCards, Submissions)
  BY <1>1, <1>2, <1>3 DEF IntsOn, InCharges, Strays, InCards
<1>5. /\ SumFunctionOnSet(InCharges, Auths) \in Int
      /\ SumFunctionOnSet(Strays, Events) \in Int
      /\ SumFunctionOnSet(InCards, Submissions) \in Int
  BY <1>4, SumType, PendingAccountAssumption
<1> QED BY <1>1, <1>2, <1>3, <1>4, <1>5

\* A step that changes what one charge has there changes the sum by as much.
LEMMA OneChargeChanges ==
    ASSUME IInv, NEW b \in Auths, LeftOf(b)' \in Int,
           \A a \in Auths \ {b} : LeftOf(a)' = LeftOf(a)
    PROVE  SumFunctionOnSet(InCharges, Auths)'
             = SumFunctionOnSet(InCharges, Auths) + (LeftOf(b)' - LeftOf(b))
<1>1. /\ InCharges'[b] = LeftOf(b)' /\ InCharges[b] = LeftOf(b)
      /\ \A a \in Auths \ {b} : InCharges[a] = InCharges'[a]
  BY DEF InCharges
<1>2. IntsOn(InCharges, Auths) /\ IsFiniteSet(Auths)
  BY LeftIsNumber, PendingAccountAssumption
<1>3. SumFunctionOnSet(InCharges', Auths)
        = SumFunctionOnSet(InCharges, Auths) + (InCharges'[b] - InCharges[b])
  BY <1>1, <1>2, SumChange
<1> QED BY <1>1, <1>3

LEMMA OneStrayChanges ==
    ASSUME IInv, NEW b \in Events, StrayOf(b)' \in Int,
           \A e \in Events \ {b} : StrayOf(e)' = StrayOf(e)
    PROVE  SumFunctionOnSet(Strays, Events)'
             = SumFunctionOnSet(Strays, Events) + (StrayOf(b)' - StrayOf(b))
<1>1. /\ Strays'[b] = StrayOf(b)' /\ Strays[b] = StrayOf(b)
      /\ \A e \in Events \ {b} : Strays[e] = Strays'[e]
  BY DEF Strays
<1>2. IntsOn(Strays, Events) /\ IsFiniteSet(Events)
  BY LeftIsNumber, PendingAccountAssumption
<1>3. SumFunctionOnSet(Strays', Events)
        = SumFunctionOnSet(Strays, Events) + (Strays'[b] - Strays[b])
  BY <1>1, <1>2, SumChange
<1> QED BY <1>1, <1>3

LEMMA OneCardChanges ==
    ASSUME IInv, NEW b \in Submissions, HeldFor(b)' \in Int,
           \A s \in Submissions \ {b} : HeldFor(s)' = HeldFor(s)
    PROVE  SumFunctionOnSet(InCards, Submissions)'
             = SumFunctionOnSet(InCards, Submissions) + (HeldFor(b)' - HeldFor(b))
<1>1. /\ InCards'[b] = HeldFor(b)' /\ InCards[b] = HeldFor(b)
      /\ \A s \in Submissions \ {b} : InCards[s] = InCards'[s]
  BY DEF InCards
<1>2. IntsOn(InCards, Submissions) /\ IsFiniteSet(Submissions)
  BY LeftIsNumber, PendingAccountAssumption
<1>3. SumFunctionOnSet(InCards', Submissions)
        = SumFunctionOnSet(InCards, Submissions) + (InCards'[b] - InCards[b])
  BY <1>1, <1>2, SumChange
<1> QED BY <1>1, <1>3

\* A step that changes nothing of any charge, of any event, or of any gift
\* card.
LEMMA ChargesStay ==
    ASSUME \A a \in Auths : LeftOf(a)' = LeftOf(a)
    PROVE  SumFunctionOnSet(InCharges, Auths)' = SumFunctionOnSet(InCharges, Auths)
<1>1. InCharges' = InCharges
  BY DEF InCharges
<1> QED BY <1>1

LEMMA StraysStay ==
    ASSUME \A e \in Events : StrayOf(e)' = StrayOf(e)
    PROVE  SumFunctionOnSet(Strays, Events)' = SumFunctionOnSet(Strays, Events)
<1>1. Strays' = Strays
  BY DEF Strays
<1> QED BY <1>1

LEMMA CardsStay ==
    ASSUME \A s \in Submissions : HeldFor(s)' = HeldFor(s)
    PROVE  SumFunctionOnSet(InCards, Submissions)' = SumFunctionOnSet(InCards, Submissions)
<1>1. InCards' = InCards
  BY DEF InCards
<1> QED BY <1>1

\* The steps of a handler: an authorization adds its hold, or its amount past the
\* hold there is, a settlement and an expiry take out their own hold, and those that
\* name none the amount they tell.
LEMMA CardsKeepAccount ==
    ASSUME AccountInv, Cards!Next, UNCHANGED giftVars
    PROVE  PendingIsTheHolds'
<1> USE PendingAccountAssumption
    DEF AccountInv, IInv, Cards!IInv, Cards!Assumption
<1>s. SumFunctionOnSet(InCards, Submissions)' = SumFunctionOnSet(InCards, Submissions)
  BY CardsStay DEF giftVars, HeldFor
<1>n. /\ SumFunctionOnSet(InCharges, Auths) \in Int
      /\ SumFunctionOnSet(Strays, Events) \in Int
      /\ SumFunctionOnSet(InCards, Submissions) \in Int
      /\ pending = SumFunctionOnSet(InCharges, Auths) + SumFunctionOnSet(Strays, Events)
                     + SumFunctionOnSet(InCards, Submissions)
  BY LeftIsNumber DEF PendingIsTheHolds
<1>c. ASSUME UNCHANGED <<hold, closing, drawn>>
      PROVE  SumFunctionOnSet(InCharges, Auths)' = SumFunctionOnSet(InCharges, Auths)
  BY <1>c, ChargesStay DEF LeftOf, Cards!Outcome
<1>1. ASSUME NEW h \in Handlers, (\E e \in Events : Cards!Receive(h, e)) \/ Cards!EndWithout(h)
      PROVE  PendingIsTheHolds'
  <2>1. UNCHANGED <<pending, hold, opening, closing, drawn, posted>>
    BY <1>1 DEF Cards!Receive, Cards!EndWithout, Cards!rows
  <2>2. SumFunctionOnSet(Strays, Events)' = SumFunctionOnSet(Strays, Events)
    BY <2>1, StraysStay DEF StrayOf
  <2> QED BY <1>s, <1>n, <1>c, <2>1, <2>2 DEF PendingIsTheHolds
<1>2. ASSUME NEW h \in Handlers, Cards!SettleLate(h) \/ Cards!Refund(h)
      PROVE  PendingIsTheHolds'
  <2>e. PICK e \in Events : e = event[h]
    BY <1>2 DEF Cards!TypeOK, Cards!SettleLate, Cards!Refund, Cards!Enters
  <2>1. /\ posted' = posted \cup {e} /\ e \notin posted
        /\ UNCHANGED <<pending, hold, opening, closing, drawn>>
        /\ KindOf[e] = "refund" \/ (KindOf[e] = "settlement" /\ AuthOf[e] # Unnamed)
    BY <1>2, <2>e DEF Cards!SettleLate, Cards!Refund, Cards!Enters, Cards!rows,
                      Cards!ReadsAreLasting, Cards!Resolves
  <2>2. \A f \in Events : StrayOf(f)' = StrayOf(f)
    BY <2>1 DEF StrayOf
  <2> QED BY <1>s, <1>n, <1>c, <2>1, <2>2, StraysStay DEF PendingIsTheHolds
<1>3. ASSUME NEW h \in Handlers, Cards!SettleUnnamed(h) \/ Cards!ExpireUnnamed(h)
      PROVE  PendingIsTheHolds'
  <2>e. PICK e \in Events : e = event[h]
    BY <1>3 DEF Cards!TypeOK, Cards!SettleUnnamed, Cards!ExpireUnnamed, Cards!Enters
  <2>1. /\ posted' = posted \cup {e} /\ e \notin posted /\ AmountOf[e] \in Nat
        /\ UNCHANGED <<hold, opening, closing, drawn>>
        /\ pending' = pending - AmountOf[e] /\ pending \in Nat
        /\ KindOf[e] \in {"settlement", "expiry"} /\ AuthOf[e] = Unnamed
    BY <1>3, <2>e DEF Cards!SettleUnnamed, Cards!ExpireUnnamed, Cards!Enters, Cards!rows,
                      Cards!TypeOK, Cards!Resolves
  <2>2. /\ StrayOf(e) = 0 /\ StrayOf(e)' = -AmountOf[e]
        /\ \A f \in Events \ {e} : StrayOf(f)' = StrayOf(f)
    BY <2>1 DEF StrayOf
  <2>3. SumFunctionOnSet(Strays, Events)' = SumFunctionOnSet(Strays, Events) - AmountOf[e]
    BY <1>n, <2>1, <2>2, OneStrayChanges
  <2> QED BY <1>s, <1>n, <1>c, <2>1, <2>3 DEF PendingIsTheHolds
<1>4. ASSUME NEW h \in Handlers, Cards!Authorize(h)
      PROVE  PendingIsTheHolds'
  <2>e. PICK e \in Events : e = event[h]
    BY <1>4 DEF Cards!TypeOK, Cards!Authorize, Cards!Enters
  <2>b. PICK b \in Auths : b = AuthOf[e]
    BY <1>4, <2>e DEF Cards!Authorize, Cards!Enters
  <2>1. /\ KindOf[e] = "authorization" /\ e \notin posted /\ posted' = posted \cup {e}
        /\ AmountOf[e] \in Nat /\ pending' = pending + AmountOf[e]
        /\ hold' = [hold EXCEPT ![b] = IF @ = 0 THEN AmountOf[e] ELSE @]
        /\ opening' = [opening EXCEPT ![b] = IF @ = NoEvent THEN e ELSE @]
        /\ UNCHANGED <<closing, drawn>>
    BY <1>4, <2>e, <2>b DEF Cards!Authorize, Cards!Enters
  <2>2. /\ opening[b] = NoEvent <=> hold[b] = 0
        /\ opening[b] # NoEvent => opening[b] \in posted
        /\ e # NoEvent /\ \A f \in Events : f # NoEvent
    BY DEF Cards!RowsHaveEntries
  <2>3. /\ \A a \in Auths \ {b} : hold'[a] = hold[a] /\ opening'[a] = opening[a]
        /\ hold'[b] = IF hold[b] = 0 THEN AmountOf[e] ELSE hold[b]
        /\ opening'[b] = IF opening[b] = NoEvent THEN e ELSE opening[b]
    BY <2>1 DEF Cards!TypeOK
  <2>4. \A f \in Events \ {e} : StrayOf(f)' = StrayOf(f)
    <3> SUFFICES ASSUME NEW f \in Events \ {e}, f \in posted, KindOf[f] = "authorization"
                 PROVE  opening'[AuthOf[f]] = f <=> opening[AuthOf[f]] = f
      BY <2>1 DEF StrayOf
    <3>1. AuthOf[f] \in Auths
      OBVIOUS
    <3> QED BY <2>2, <2>3, <3>1
  <2>5. \A a \in Auths \ {b} : LeftOf(a)' = LeftOf(a)
    BY <2>1, <2>3 DEF LeftOf, Cards!Outcome
  <2>6. StrayOf(e) = 0
    BY <2>1 DEF StrayOf
  <2>7. CASE hold[b] = 0
    <3>1. closing[b] = NoEvent
      BY <2>7 DEF Cards!ReadsAreLasting
    <3>2. LeftOf(b) = 0 /\ LeftOf(b)' = AmountOf[e]
      BY <2>1, <2>3, <2>7, <3>1 DEF LeftOf, Cards!Outcome
    <3>3. StrayOf(e)' = 0
      BY <2>1, <2>2, <2>3, <2>7, <2>b DEF StrayOf
    <3>4. SumFunctionOnSet(InCharges, Auths)' = SumFunctionOnSet(InCharges, Auths) + AmountOf[e]
      BY <1>n, <2>1, <2>5, <3>2, OneChargeChanges
    <3>5. SumFunctionOnSet(Strays, Events)' = SumFunctionOnSet(Strays, Events)
      BY <2>4, <2>6, <3>3, StraysStay
    <3> QED BY <1>s, <1>n, <2>1, <3>4, <3>5 DEF PendingIsTheHolds
  <2>8. CASE hold[b] # 0
    <3>1. hold'[b] = hold[b] /\ opening'[b] = opening[b] /\ opening[b] # e
      BY <2>1, <2>2, <2>3, <2>8
    <3>2. LeftOf(b)' = LeftOf(b)
      BY <2>1, <3>1 DEF LeftOf, Cards!Outcome
    <3>3. StrayOf(e)' = AmountOf[e]
      BY <2>1, <2>b, <3>1 DEF StrayOf
    <3>4. SumFunctionOnSet(InCharges, Auths)' = SumFunctionOnSet(InCharges, Auths)
      BY <2>5, <3>2, ChargesStay
    <3>5. SumFunctionOnSet(Strays, Events)' = SumFunctionOnSet(Strays, Events) + AmountOf[e]
      BY <1>n, <2>1, <2>4, <2>6, <3>3, OneStrayChanges
    <3> QED BY <1>s, <1>n, <2>1, <3>4, <3>5 DEF PendingIsTheHolds
  <2> QED BY <2>7, <2>8
<1>5. ASSUME NEW h \in Handlers, Cards!Settle(h) \/ Cards!Expire(h)
      PROVE  PendingIsTheHolds'
  <2>e. PICK e \in Events : e = event[h]
    BY <1>5 DEF Cards!TypeOK, Cards!Settle, Cards!Expire, Cards!Enters
  <2>b. PICK b \in Auths : b = AuthOf[e]
    BY <1>5, <2>e DEF Cards!Settle, Cards!Expire, Cards!Resolves
  <2> DEFINE paid == IF KindOf[e] = "settlement" THEN Cards!Lesser(AmountOf[e], hold[b])
                                                 ELSE hold[b]
  <2>p. paid \in Nat /\ hold[b] \in Nat /\ hold[b] - paid \in Int
    BY DEF Cards!TypeOK, Cards!Lesser
  <2>1. /\ posted' = posted \cup {e} /\ e \notin posted
        /\ closing[b] = NoEvent /\ e # NoEvent
        /\ closing' = [closing EXCEPT ![b] = e] /\ UNCHANGED <<hold, opening>>
        /\ KindOf[e] \in {"settlement", "expiry"} /\ AuthOf[e] # Unnamed
        /\ pending' = pending - paid
        /\ drawn' = [drawn EXCEPT ![b] = @ + paid]
    BY <1>5, <2>e, <2>b DEF Cards!Settle, Cards!Expire, Cards!Enters, Cards!Resolves
  <2>2. drawn[b] = 0
    BY <2>1 DEF Cards!EachHoldPaysItself, Cards!Outcome
  <2>3. /\ LeftOf(b) = hold[b] /\ LeftOf(b)' = hold[b] - paid
        /\ \A a \in Auths \ {b} : LeftOf(a)' = LeftOf(a)
    <3>1. drawn'[b] = paid /\ closing'[b] = e
      BY <2>1, <2>2, <2>p DEF Cards!TypeOK
    <3>2. /\ Cards!Outcome(b)' = IF KindOf[e] = "settlement" THEN "settled" ELSE "expired"
          /\ Cards!Outcome(b) = "none"
      BY <2>1, <3>1 DEF Cards!Outcome
    <3>3. \A a \in Auths \ {b} : LeftOf(a)' = LeftOf(a)
      BY <2>1 DEF LeftOf, Cards!Outcome, Cards!TypeOK
    <3>4. LeftOf(b)' = hold[b] - paid
      <4>1. CASE KindOf[e] = "settlement"
        BY <2>1, <3>1, <3>2, <4>1 DEF LeftOf
      <4>2. CASE KindOf[e] # "settlement"
        BY <2>p, <3>2, <4>2 DEF LeftOf
      <4> QED BY <4>1, <4>2
    <3> QED BY <3>2, <3>3, <3>4 DEF LeftOf
  <2>4. SumFunctionOnSet(Strays, Events)' = SumFunctionOnSet(Strays, Events)
    <3>1. \A f \in Events : StrayOf(f)' = StrayOf(f)
      BY <2>1 DEF StrayOf
    <3> QED BY <3>1, StraysStay
  <2> HIDE DEF paid
  <2>5. SumFunctionOnSet(InCharges, Auths)' = SumFunctionOnSet(InCharges, Auths) - paid
    BY <1>n, <2>p, <2>3, OneChargeChanges
  <2> QED BY <1>s, <1>n, <2>1, <2>4, <2>5, <2>p DEF PendingIsTheHolds
<1> QED BY <1>1, <1>2, <1>3, <1>4, <1>5 DEF Cards!Next

\* The steps on a gift card: an approval adds its payout, a release and a clawback
\* take out their own.
LEMMA GiftsKeepAccount ==
    ASSUME AccountInv, Gifts!Next, UNCHANGED cardVars
    PROVE  PendingIsTheHolds'
<1> USE PendingAccountAssumption DEF AccountInv, IInv, Gifts!IInv, Gifts!Assumption
<1>s. /\ SumFunctionOnSet(InCharges, Auths)' = SumFunctionOnSet(InCharges, Auths)
      /\ SumFunctionOnSet(Strays, Events)' = SumFunctionOnSet(Strays, Events)
  BY ChargesStay, StraysStay DEF cardVars, LeftOf, StrayOf, Cards!Outcome
<1>n. /\ SumFunctionOnSet(InCharges, Auths) \in Int
      /\ SumFunctionOnSet(Strays, Events) \in Int
      /\ SumFunctionOnSet(InCards, Submissions) \in Int
      /\ pending = SumFunctionOnSet(InCharges, Auths) + SumFunctionOnSet(Strays, Events)
                     + SumFunctionOnSet(InCards, Submissions)
  BY LeftIsNumber DEF PendingIsTheHolds
<1>1. ASSUME UNCHANGED pending, \A s \in Submissions : HeldFor(s)' = HeldFor(s)
      PROVE  PendingIsTheHolds'
  BY <1>1, <1>s, <1>n, CardsStay DEF PendingIsTheHolds
<1>2. ASSUME NEW s \in Submissions, NEW state,
             \/ state = "pending_review" /\ status[s] = "absent"
             \/ state = "rejected" /\ status[s] = "pending_review",
             status' = [status EXCEPT ![s] = state], UNCHANGED pending
      PROVE  PendingIsTheHolds'
  BY <1>1, <1>2 DEF HeldFor, Gifts!TypeOK
<1>3. ASSUME NEW s \in Submissions, NEW state,
             \/ /\ state = "approved" /\ status[s] = "pending_review"
                /\ pending' = pending + PayoutOf[s]
             \/ /\ state # "approved" /\ status[s] = "approved"
                /\ pending' = pending - PayoutOf[s],
             status' = [status EXCEPT ![s] = state]
      PROVE  PendingIsTheHolds'
  <2>1. /\ HeldFor(s)' - HeldFor(s) = pending' - pending
        /\ HeldFor(s)' \in Int /\ HeldFor(s) \in Int
        /\ \A r \in Submissions \ {s} : HeldFor(r)' = HeldFor(r)
    BY <1>3 DEF HeldFor, Gifts!TypeOK
  <2>2. SumFunctionOnSet(InCards, Submissions)'
          = SumFunctionOnSet(InCards, Submissions) + (pending' - pending)
    BY <2>1, OneCardChanges
  <2>3. pending \in Int /\ pending' \in Int
    BY <1>3 DEF Gifts!TypeOK
  <2> QED BY <1>s, <1>n, <2>2, <2>3 DEF PendingIsTheHolds
<1>d. \A d \in Desks : desk[d].choice # "none" => desk[d].about \in Submissions
  BY DEF Gifts!DeskHasACard
<1> HIDE DEF AccountInv, IInv, Gifts!IInv
<1>4. CASE \E s \in Submissions : Gifts!Submit(s)
  BY <1>2, <1>4 DEF Gifts!Submit
<1>5. ASSUME NEW d \in Desks, Gifts!Reject(d) PROVE PendingIsTheHolds'
  <2>1. PICK s \in Submissions : s = desk[d].about
    BY <1>d, <1>5 DEF Gifts!Reject, Gifts!Acts
  <2> QED BY <1>2, <1>5, <2>1 DEF Gifts!Reject
<1>6. ASSUME NEW d \in Desks, Gifts!Approve(d) PROVE PendingIsTheHolds'
  <2>1. PICK s \in Submissions : s = desk[d].about
    BY <1>d, <1>6 DEF Gifts!Approve, Gifts!Acts
  <2> QED BY <1>3, <1>6, <2>1 DEF Gifts!Approve
<1>7. ASSUME NEW d \in Desks, Gifts!Clawback(d) PROVE PendingIsTheHolds'
  <2>1. PICK s \in Submissions : s = desk[d].about
    BY <1>d, <1>7 DEF Gifts!Clawback, Gifts!Acts
  <2> QED BY <1>3, <1>7, <2>1 DEF Gifts!Clawback
<1>8. CASE \E s \in Submissions : Gifts!Release(s)
  BY <1>3, <1>8 DEF Gifts!Release
<1>9. CASE \/ \E s \in Submissions : Gifts!Mature(s) \/ Gifts!ReleaseSkips(s)
           \/ \E d \in Desks, s \in Submissions, choice \in Gifts!Decisions :
                 Gifts!Look(d, choice, s)
           \/ \E d \in Desks : Gifts!WalkAway(d)
           \/ Gifts!SweepReads
  <2>1. UNCHANGED <<pending, status>>
    BY <1>9 DEF Gifts!Mature, Gifts!ReleaseSkips, Gifts!Look, Gifts!WalkAway, Gifts!SweepReads
  <2> QED BY <1>1, <2>1 DEF HeldFor
<1> QED BY <1>4, <1>5, <1>6, <1>7, <1>8, <1>9 DEF Gifts!Next

-----------------------------------------------------------------------------
\* A step of neither part.
LEMMA StutterKeepsInv == IInv /\ UNCHANGED vars => IInv'
BY DEF vars, IInv, Cards!IInv, Cards!TypeOK, Cards!EachHoldPaysItself, Cards!ClosedByOneEvent,
       Cards!Expiries, Cards!Settlements, Cards!Outcome, Cards!ReadsAreLasting,
       Cards!RowsHaveEntries, Gifts!IInv,
       Gifts!TypeOK, Gifts!StatusTellsLedger, Gifts!DeskHasACard

\* The invariant holds whatever the two parts do to the account they share.
LEMMA InvHolds == Spec => []IInv
<1>1. IInv /\ [Next]_vars => IInv'
  BY StutterKeepsInv, CardsKeepInv, GiftsKeepInv DEF Next
<1> QED BY <1>1, InitHasInv, PTL DEF Spec

\* The variables of both parts have their types; in particular neither part
\* overdraws the card or the account they share.
THEOREM PendingTypes == Spec => []TypeOK
BY InvHolds, PTL DEF IInv, TypeOK, Cards!IInv, Gifts!IInv

\* However often, late and concurrently events about a charge arrive, what they
\* take out of the shared account is that charge's own hold.
THEOREM HoldsPayThemselves == Spec => []EachHoldPaysItself
BY InvHolds, PTL DEF IInv, EachHoldPaysItself, Cards!IInv

\* A hold is closed by one settlement or one expiry.
THEOREM HoldsCloseOnce == Spec => []ClosedByOneEvent
BY InvHolds, PTL DEF IInv, ClosedByOneEvent, Cards!IInv

\* A gift card is paid or taken back, never both, and its status says which.
THEOREM GiftStatusIsTrue == Spec => []StatusTellsLedger
BY InvHolds, PTL DEF IInv, StatusTellsLedger, Gifts!IInv

\* However card events and decisions about gift cards interleave, the one pending
\* account is what the open charges and gift cards have in it and what settlements
\* below their hold left, more or less what went past every hold: nobody is paid out
\* of a hold of somebody else's by an event that names its own.
THEOREM PendingIsHeld == Spec => []PendingIsTheHolds
<1>1. Init => AccountInv
  <2> SUFFICES ASSUME Init PROVE AccountInv
    OBVIOUS
  <2>1. IInv
    BY InitHasInv
  <2>2. /\ InCharges = [a \in Auths |-> 0] /\ Strays = [e \in Events |-> 0]
        /\ InCards = [s \in Submissions |-> 0] /\ pending = 0
    BY DEF Init, Cards!Init, Gifts!Init, InCharges, Strays, InCards, LeftOf, StrayOf, HeldFor,
           Cards!Outcome
  <2>3. /\ SumFunctionOnSet(InCharges, Auths) = 0
        /\ SumFunctionOnSet(Strays, Events) = 0
        /\ SumFunctionOnSet(InCards, Submissions) = 0
    BY <2>2, SumZero, PendingAccountAssumption
  <2> QED BY <2>1, <2>2, <2>3 DEF AccountInv, PendingIsTheHolds
<1>2. AccountInv /\ [Next]_vars => AccountInv'
  <2> SUFFICES ASSUME AccountInv, [Next]_vars PROVE AccountInv'
    OBVIOUS
  <2>1. CASE Cards!Next /\ UNCHANGED giftVars
    BY <2>1, CardsKeepInv, CardsKeepAccount DEF AccountInv
  <2>2. CASE Gifts!Next /\ UNCHANGED cardVars
    BY <2>2, GiftsKeepInv, GiftsKeepAccount DEF AccountInv
  <2>3. CASE UNCHANGED vars
    <3>1. UNCHANGED <<InCharges, Strays, InCards, pending>>
      BY <2>3 DEF vars, InCharges, Strays, InCards, LeftOf, StrayOf, HeldFor, Cards!Outcome
    <3>2. PendingIsTheHolds'
      BY <3>1 DEF AccountInv, PendingIsTheHolds
    <3>3. IInv'
      BY <2>3, StutterKeepsInv DEF AccountInv
    <3> QED BY <3>2, <3>3 DEF AccountInv
  <2> QED BY <2>1, <2>2, <2>3 DEF Next
<1> QED BY <1>1, <1>2, PTL DEF Spec, AccountInv
=============================================================================
