---------------------------- MODULE DeliveryProofs -----------------------------
(****************************************************************************)
(* What is delivered again and again: the arrivals of Deposits, for any     *)
(* rails, accounts and handlers, and the messages of Outbox, for any        *)
(* senders, batch and ceiling.                                             *)
(****************************************************************************)
EXTENDS Deposits, Outbox, TLAPS

Handling(h) == pc[h] # "idle"

Readings == {"credit", "above", "unattributed"}

ArrivalShape ==
    /\ entry \in [Deposits -> {"none", "wallet", "suspense"}]
    /\ heldEntry \in [Deposits -> {"none", "suspense"}]
    /\ row \in [Deposits -> {"absent", "credited", "suspense"}]
    /\ tried \in [Deposits -> SUBSET Readings]
    /\ pc \in [Handlers -> {"idle", "post", "row"}]
    /\ about \in [Handlers -> Deposits \cup {Nothing}]
    /\ plan \in [Handlers -> Readings \cup {"none"}]
    /\ \A h \in Handlers : Handling(h) => about[h] \in Deposits /\ plan[h] \in Readings
    /\ spc \in {"post", "row"} => swept \in Deposits

\* An entry was posted by somebody who read the arrival that way, and the event's
\* key was used for money above the ceiling only.
EntriesWereTried ==
    \A d \in Deposits :
        /\ entry[d] = "wallet" => "credit" \in tried[d]
        /\ heldEntry[d] # "none" => "above" \in tried[d] /\ RailOf[d] = "bitnob"

\* Money is in suspense, or the arrival was read apart where one key serves both
\* readings.
HeldOrApart ==
    {d \in Deposits :
        "suspense" \in {entry[d], heldEntry[d]} \/ (ReadApart(d) /\ RailOf[d] # "bitnob")}

\* A handler that is to write a row posted on what it read, and if it held the money
\* there is money in suspense, or another reading was posted before its own.
RowsTell ==
    \A h \in Handlers :
        pc[h] = "row" => plan[h] = "credit" \/ about[h] \in HeldOrApart

\* Only a row that left suspense for good is attributed.
AttributedWasHeld ==
    \A d \in attributed : d \in Deposits /\ row[d] = "credited" /\ d \in HeldOrApart

ArrivalInv ==
    ArrivalShape /\ EntriesWereTried /\ RowsTell /\ AttributedWasHeld /\ SuspenseIsThere

\* An entry stays, and what was posted on stays known.
EntriesGrow ==
    \A d \in Deposits :
        /\ entry[d] # "none" => entry'[d] = entry[d]
        /\ heldEntry[d] # "none" => heldEntry'[d] = heldEntry[d]
        /\ tried[d] \subseteq tried'[d]

LEMMA ArrivalsStart == Init => ArrivalInv
BY DEF Init, ArrivalInv, ArrivalShape, Handling, EntriesWereTried, RowsTell,
       AttributedWasHeld, SuspenseIsThere

\* What is held, or was read apart, stays so.
LEMMA HeldStays ==
    ASSUME EntriesGrow, NEW d \in Deposits, d \in HeldOrApart
    PROVE  d \in HeldOrApart'
<1>1. ReadApart(d) => ReadApart(d)'
  BY DEF EntriesGrow, ReadApart
<1> QED BY <1>1 DEF EntriesGrow, HeldOrApart

\* Entries that only grow keep what the invariant says of rows and attributions, as
\* long as those stay.
LEMMA RowsStay ==
    ASSUME ArrivalInv, EntriesGrow, UNCHANGED <<row, attributed>>
    PROVE  AttributedWasHeld' /\ SuspenseIsThere'
<1>1. AttributedWasHeld'
  BY HeldStays DEF ArrivalInv, AttributedWasHeld
<1>2. SuspenseIsThere'
  BY HeldStays DEF ArrivalInv, SuspenseIsThere, HeldOrApart
<1> QED BY <1>1, <1>2

\* Steps that post nothing and write no row: the world's, a delivery's decision, an
\* answer, a death, and what the sweep does between its posts.
LEMMA NothingBookedKeeps ==
    ASSUME ArrivalInv, UNCHANGED booked, ArrivalShape',
           \A h \in Handlers :
              pc'[h] = "row" => pc[h] = "row" /\ plan'[h] = plan[h] /\ about'[h] = about[h]
    PROVE  ArrivalInv'
<1>1. EntriesGrow /\ UNCHANGED <<entry, heldEntry, row, attributed, tried>>
  BY DEF EntriesGrow, booked
<1>2. EntriesWereTried'
  BY <1>1 DEF ArrivalInv, EntriesWereTried
<1>3. RowsTell'
  <2> SUFFICES ASSUME NEW h \in Handlers, pc'[h] = "row"
               PROVE  plan'[h] = "credit" \/ about'[h] \in HeldOrApart'
    BY DEF RowsTell, HeldOrApart, ReadApart
  <2>1. pc[h] = "row" /\ plan'[h] = plan[h] /\ about'[h] = about[h] /\ about[h] \in Deposits
    BY DEF ArrivalInv, ArrivalShape, Handling
  <2>2. plan[h] = "credit" \/ about[h] \in HeldOrApart
    BY <2>1 DEF ArrivalInv, RowsTell
  <2> QED BY <1>1, <2>1, <2>2 DEF HeldOrApart, ReadApart
<1> QED BY <1>1, <1>2, <1>3, RowsStay DEF ArrivalInv

LEMMA WorldKeeps ==
    ASSUME ArrivalInv, UNCHANGED <<booked, handler, sweep>>
    PROVE  ArrivalInv'
<1>1. ArrivalShape'
  BY DEF ArrivalInv, ArrivalShape, Handling, booked, handler, sweep
<1> QED BY <1>1, NothingBookedKeeps DEF handler

\* A delivery decides.
LEMMA DeliverKeeps ==
    ASSUME ArrivalInv, NEW h \in Handlers, NEW d \in Deposits, Deliver(h, d)
    PROVE  ArrivalInv'
<1>1. /\ UNCHANGED <<world, booked, sweep>>
      /\ pc' = [pc EXCEPT ![h] = "post"] /\ about' = [about EXCEPT ![h] = d]
      /\ plan' = [plan EXCEPT ![h] = Resolution(d)]
  BY DEF Deliver
<1>2. Resolution(d) \in Readings
  BY DEF Resolution, Readings
<1>3. ArrivalShape'
  BY <1>1, <1>2 DEF ArrivalInv, ArrivalShape, Handling, booked, sweep
<1>4. \A g \in Handlers :
         pc'[g] = "row" => pc[g] = "row" /\ plan'[g] = plan[g] /\ about'[g] = about[g]
  BY <1>1 DEF ArrivalInv, ArrivalShape
<1> QED BY <1>1, <1>3, <1>4, NothingBookedKeeps

\* A handler that dies.
LEMMA DieKeeps ==
    ASSUME ArrivalInv, NEW h \in Handlers, Die(h)
    PROVE  ArrivalInv'
<1>1. Ends(h) /\ UNCHANGED <<world, booked, sweep>>
  BY DEF Die
<1>2. ArrivalShape'
  BY <1>1 DEF ArrivalInv, ArrivalShape, Handling, Ends, booked, sweep
<1>3. \A g \in Handlers :
         pc'[g] = "row" => pc[g] = "row" /\ plan'[g] = plan[g] /\ about'[g] = about[g]
  BY <1>1 DEF Ends, ArrivalInv, ArrivalShape
<1> QED BY <1>1, <1>2, <1>3, NothingBookedKeeps

\* The entry a handler posts, or finds.
LEMMA PostKeeps ==
    ASSUME ArrivalInv, NEW h \in Handlers, Post(h)
    PROVE  ArrivalInv'
<1> DEFINE d == about[h]
           p == plan[h]
           replay == IF UsesEventKey(d, p) THEN heldEntry[d] # "none" ELSE entry[d] # "none"
<1>1. /\ pc[h] = "post" /\ UNCHANGED <<row, attributed, sweep>>
      /\ tried' = [tried EXCEPT ![d] = @ \cup {p}]
  BY DEF Post, Tries
<1>2. d \in Deposits /\ p \in Readings
  BY <1>1 DEF ArrivalInv, ArrivalShape, Handling
<1>3. /\ entry' \in [Deposits -> {"none", "wallet", "suspense"}]
      /\ heldEntry' \in [Deposits -> {"none", "suspense"}]
      /\ \A c \in Deposits \ {d} : entry'[c] = entry[c] /\ heldEntry'[c] = heldEntry[c]
      /\ entry'[d] \in {entry[d], Credits(p)}
      /\ entry[d] # "none" => entry'[d] = entry[d]
      /\ heldEntry'[d] # heldEntry[d] => UsesEventKey(d, p)
      /\ heldEntry[d] # "none" => heldEntry'[d] = heldEntry[d]
  <2>1. CASE replay
    BY <2>1 DEF Post, ArrivalInv, ArrivalShape
  <2>2. CASE ~replay /\ UsesEventKey(d, p)
    <3>1. heldEntry' = [heldEntry EXCEPT ![d] = "suspense"] /\ UNCHANGED entry
      BY <2>2 DEF Post
    <3> QED BY <2>2, <3>1 DEF ArrivalInv, ArrivalShape
  <2>3. CASE ~replay /\ ~UsesEventKey(d, p)
    <3>1. entry' = [entry EXCEPT ![d] = Credits(p)] /\ UNCHANGED heldEntry
      BY <2>3 DEF Post
    <3>2. /\ Credits(p) \in {"wallet", "suspense"}
          /\ ~UsesEventKey(d, p) => entry[d] = "none"
      BY <2>3 DEF Credits
    <3>3. entry \in [Deposits -> {"none", "wallet", "suspense"}] /\ entry[d] = "none"
      BY <2>3, <3>2 DEF ArrivalInv, ArrivalShape
    <3>4. heldEntry \in [Deposits -> {"none", "suspense"}]
      BY DEF ArrivalInv, ArrivalShape
    <3> HIDE DEF d, p
    <3> QED BY <1>2, <3>1, <3>2, <3>3, <3>4
  <2> QED BY <2>1, <2>2, <2>3
<1>4. /\ tried' \in [Deposits -> SUBSET Readings] /\ p \in tried'[d]
      /\ \A c \in Deposits : tried[c] \subseteq tried'[c]
  <2>1. tried \in [Deposits -> SUBSET Readings]
    BY DEF ArrivalInv, ArrivalShape
  <2> HIDE DEF d, p
  <2> QED BY <1>1, <1>2, <2>1
<1>5. EntriesGrow
  <2> SUFFICES ASSUME NEW c \in Deposits
               PROVE  /\ entry[c] # "none" => entry'[c] = entry[c]
                      /\ heldEntry[c] # "none" => heldEntry'[c] = heldEntry[c]
    BY <1>4 DEF EntriesGrow
  <2> HIDE DEF d
  <2> QED BY <1>3
<1>6. Ends(h) \/ (pc' = [pc EXCEPT ![h] = "row"] /\ UNCHANGED <<about, plan>>)
  BY DEF Post
<1>7. ArrivalShape'
  <2>1. row' \in [Deposits -> {"absent", "credited", "suspense"}]
    BY <1>1 DEF ArrivalInv, ArrivalShape
  <2>2. /\ pc' \in [Handlers -> {"idle", "post", "row"}]
        /\ about' \in [Handlers -> Deposits \cup {Nothing}]
        /\ plan' \in [Handlers -> Readings \cup {"none"}]
    BY <1>6 DEF ArrivalInv, ArrivalShape, Ends
  <2>3. \A g \in Handlers : Handling(g)' => about'[g] \in Deposits /\ plan'[g] \in Readings
    BY <1>2, <1>6 DEF ArrivalInv, ArrivalShape, Handling, Ends
  <2>4. spc' \in {"post", "row"} => swept' \in Deposits
    BY <1>1 DEF ArrivalInv, ArrivalShape, sweep
  <2> QED BY <1>3, <1>4, <2>1, <2>2, <2>3, <2>4 DEF ArrivalShape
<1>8. EntriesWereTried'
  <2> SUFFICES ASSUME NEW c \in Deposits
               PROVE  /\ entry'[c] = "wallet" => "credit" \in tried'[c]
                      /\ heldEntry'[c] # "none" => "above" \in tried'[c] /\ RailOf[c] = "bitnob"
    BY DEF EntriesWereTried
  <2>1. /\ entry[c] = "wallet" => "credit" \in tried'[c]
        /\ heldEntry[c] # "none" => "above" \in tried'[c] /\ RailOf[c] = "bitnob"
    BY <1>4 DEF ArrivalInv, EntriesWereTried
  <2>2. CASE c # d
    BY <1>3, <2>1, <2>2
  <2>3. CASE c = d
    <3>1. Credits(p) = "wallet" => p = "credit"
      BY DEF Credits
    <3>2. UsesEventKey(d, p) => p = "above" /\ RailOf[d] = "bitnob"
      BY DEF UsesEventKey
    <3> HIDE DEF d, p
    <3> QED BY <1>3, <1>4, <2>1, <2>3, <3>1, <3>2
  <2> QED BY <2>2, <2>3
<1>9. RowsTell'
  <2> SUFFICES ASSUME NEW g \in Handlers, pc'[g] = "row"
               PROVE  plan'[g] = "credit" \/ about'[g] \in HeldOrApart'
    BY DEF RowsTell, HeldOrApart, ReadApart
  <2>1. CASE g # h
    <3>1. /\ pc[g] = "row" /\ plan'[g] = plan[g] /\ about'[g] = about[g]
          /\ about[g] \in Deposits
      BY <1>6, <2>1 DEF ArrivalInv, ArrivalShape, Handling, Ends
    <3>2. plan[g] = "credit" \/ about[g] \in HeldOrApart
      BY <3>1 DEF ArrivalInv, RowsTell
    <3>3. about[g] \in HeldOrApart => about[g] \in HeldOrApart'
      BY <1>5, <3>1, HeldStays
    <3> QED BY <3>1, <3>2, <3>3 DEF HeldOrApart, ReadApart
  <2>2. CASE g = h
    <3>1. /\ plan'[h] = p /\ about'[h] = d
          /\ ~(replay /\ LeavesReplaysAlone(d, p))
      BY <2>2, <1>6 DEF Post, Ends, ArrivalInv, ArrivalShape
    <3>2. p = "credit" \/ d \in HeldOrApart'
      <4>1. CASE replay
        <5>1. p = "above" \/ RailOf[d] = "kora"
          BY <3>1, <4>1 DEF LeavesReplaysAlone
        <5>2. entry' = entry /\ heldEntry' = heldEntry
          BY <4>1 DEF Post
        <5>3. CASE UsesEventKey(d, p)
          <6>1. heldEntry[d] = "suspense"
            BY <1>2, <4>1, <5>3 DEF ArrivalInv, ArrivalShape
          <6> QED BY <1>2, <5>2, <6>1 DEF HeldOrApart
        <5>4. CASE ~UsesEventKey(d, p)
          <6>1. entry[d] \in {"wallet", "suspense"}
            BY <1>2, <4>1, <5>4 DEF ArrivalInv, ArrivalShape
          <6>2. p = "above" => RailOf[d] # "bitnob"
            BY <5>4 DEF UsesEventKey
          <6>3. entry[d] = "wallet" => "credit" \in tried'[d]
            BY <1>2, <1>4 DEF ArrivalInv, EntriesWereTried
          <6>4. "kora" # "bitnob" /\ p \in {"credit", "above", "unattributed"}
            BY <1>2 DEF Readings
          <6> HIDE DEF d, p
          <6>5. CASE entry[d] = "suspense"
            BY <1>2, <5>2, <6>5 DEF HeldOrApart
          <6>6. CASE entry[d] = "wallet" /\ p # "credit"
            <7>1. /\ RailOf[d] # "bitnob"
                  /\ \/ {"credit", "above"} \subseteq tried'[d]
                     \/ RailOf[d] = "kora" /\ {"credit", "unattributed"} \subseteq tried'[d]
              BY <1>4, <5>1, <6>2, <6>3, <6>4, <6>6
            <7> QED BY <1>2, <7>1 DEF HeldOrApart, ReadApart
          <6> QED BY <6>1, <6>5, <6>6
        <5> QED BY <5>3, <5>4
      <4>2. CASE ~replay
        <5>1. CASE UsesEventKey(d, p)
          <6>1. heldEntry' = [heldEntry EXCEPT ![d] = "suspense"]
            BY <4>2, <5>1 DEF Post
          <6>2. heldEntry'[d] = "suspense"
            BY <1>2, <6>1 DEF ArrivalInv, ArrivalShape
          <6> QED BY <1>2, <6>2 DEF HeldOrApart
        <5>2. CASE ~UsesEventKey(d, p)
          <6>1. entry' = [entry EXCEPT ![d] = Credits(p)]
            BY <4>2, <5>2 DEF Post
          <6>2. entry'[d] = Credits(p)
            BY <1>2, <6>1 DEF ArrivalInv, ArrivalShape
          <6> QED BY <1>2, <6>2 DEF Credits, HeldOrApart
        <5> QED BY <5>1, <5>2
      <4> QED BY <4>1, <4>2
    <3> QED BY <2>2, <3>1, <3>2 DEF HeldOrApart, ReadApart
  <2> QED BY <2>1, <2>2
<1> QED BY <1>1, <1>5, <1>7, <1>8, <1>9, RowsStay DEF ArrivalInv

\* The row tells of the entry, unless there is a row already.
LEMMA InsertRowKeeps ==
    ASSUME ArrivalInv, NEW h \in Handlers, InsertRow(h)
    PROVE  ArrivalInv'
<1> DEFINE d == about[h]
<1>1. /\ pc[h] = "row" /\ Ends(h)
      /\ UNCHANGED <<entry, heldEntry, attributed, tried, sweep>>
      /\ row' = [row EXCEPT ![d] = IF @ = "absent" THEN Written(plan[h]) ELSE @]
  BY DEF InsertRow
<1>2. d \in Deposits
  BY <1>1 DEF ArrivalInv, ArrivalShape, Handling
<1>3. ArrivalShape'
  <2>1. row' \in [Deposits -> {"absent", "credited", "suspense"}]
    BY <1>1, <1>2 DEF ArrivalInv, ArrivalShape, Written
  <2> QED BY <1>1, <2>1 DEF ArrivalInv, ArrivalShape, Handling, Ends, sweep
<1>4. EntriesGrow /\ EntriesWereTried'
  BY <1>1 DEF ArrivalInv, EntriesGrow, EntriesWereTried
<1>5. RowsTell'
  <2> SUFFICES ASSUME NEW g \in Handlers, pc'[g] = "row"
               PROVE  plan'[g] = "credit" \/ about'[g] \in HeldOrApart'
    BY DEF RowsTell, HeldOrApart, ReadApart
  <2>1. pc[g] = "row" /\ plan'[g] = plan[g] /\ about'[g] = about[g]
    BY <1>1 DEF Ends, ArrivalInv, ArrivalShape
  <2>2. plan[g] = "credit" \/ about[g] \in HeldOrApart
    BY <2>1 DEF ArrivalInv, RowsTell
  <2> QED BY <1>1, <2>1, <2>2 DEF HeldOrApart, ReadApart
<1>6. AttributedWasHeld'
  BY <1>1, <1>2, <1>4, HeldStays DEF ArrivalInv, ArrivalShape, AttributedWasHeld
<1>7. SuspenseIsThere'
  <2> SUFFICES ASSUME NEW c \in Deposits, row'[c] = "suspense"
               PROVE  c \in HeldOrApart' /\ c \notin attributed
    BY <1>1 DEF SuspenseIsThere, HeldOrApart
  <2>1. CASE row[c] = "suspense"
    <3>1. c \in HeldOrApart /\ c \notin attributed
      BY <2>1 DEF ArrivalInv, SuspenseIsThere, HeldOrApart
    <3> QED BY <1>4, <3>1, HeldStays
  <2>2. CASE row[c] # "suspense"
    <3>1. c = d /\ row[d] = "absent" /\ plan[h] # "credit"
      BY <1>1, <1>2, <2>2 DEF ArrivalInv, ArrivalShape, Written
    <3>2. c \in HeldOrApart /\ c \notin attributed
      BY <1>1, <3>1 DEF ArrivalInv, RowsTell, AttributedWasHeld
    <3> QED BY <1>4, <3>2, HeldStays
  <2> QED BY <2>1, <2>2
<1> QED BY <1>3, <1>4, <1>5, <1>6, <1>7 DEF ArrivalInv

\* What the sweep does between a post and the next.
LEMMA LookKeeps ==
    ASSUME ArrivalInv, UNCHANGED <<booked, handler>>,
           spc' \in {"post", "row"} => swept' \in Deposits
    PROVE  ArrivalInv'
<1>1. ArrivalShape'
  BY DEF ArrivalInv, ArrivalShape, Handling, booked, handler
<1> QED BY <1>1, NothingBookedKeeps DEF handler

LEMMA SweepPostKeeps ==
    ASSUME ArrivalInv, SweepPost
    PROVE  ArrivalInv'
<1> DEFINE d == swept
<1>1. /\ spc = "post" /\ spc' = "row" /\ swept' = swept
      /\ entry' = [entry EXCEPT ![d] = IF @ = "none" THEN "wallet" ELSE @]
      /\ tried' = [tried EXCEPT ![d] = @ \cup {"credit"}]
      /\ UNCHANGED <<heldEntry, row, attributed, handler>>
  BY DEF SweepPost, Tries
<1>2. d \in Deposits
  BY <1>1 DEF ArrivalInv, ArrivalShape
<1>3. /\ tried' \in [Deposits -> SUBSET Readings] /\ "credit" \in tried'[d]
      /\ \A c \in Deposits : tried[c] \subseteq tried'[c]
  BY <1>1, <1>2 DEF ArrivalInv, ArrivalShape, Readings
<1>4. /\ entry' \in [Deposits -> {"none", "wallet", "suspense"}]
      /\ \A c \in Deposits :
            entry'[c] = entry[c] \/ (c = d /\ entry[c] = "none" /\ entry'[c] = "wallet")
  BY <1>1, <1>2 DEF ArrivalInv, ArrivalShape
<1>5. ArrivalShape'
  BY <1>1, <1>3, <1>4 DEF ArrivalInv, ArrivalShape, Handling, handler
<1>6. EntriesGrow /\ EntriesWereTried'
  BY <1>1, <1>3, <1>4 DEF ArrivalInv, EntriesGrow, EntriesWereTried
<1>7. RowsTell'
  <2> SUFFICES ASSUME NEW g \in Handlers, pc'[g] = "row"
               PROVE  plan'[g] = "credit" \/ about'[g] \in HeldOrApart'
    BY DEF RowsTell, HeldOrApart, ReadApart
  <2>1. /\ pc[g] = "row" /\ plan'[g] = plan[g] /\ about'[g] = about[g]
        /\ about[g] \in Deposits
    BY <1>1 DEF ArrivalInv, ArrivalShape, Handling, handler
  <2>2. plan[g] = "credit" \/ about[g] \in HeldOrApart
    BY <2>1 DEF ArrivalInv, RowsTell
  <2>3. about[g] \in HeldOrApart => about[g] \in HeldOrApart'
    BY <1>6, <2>1, HeldStays
  <2> QED BY <2>1, <2>2, <2>3 DEF HeldOrApart, ReadApart
<1> QED BY <1>1, <1>5, <1>6, <1>7, RowsStay DEF ArrivalInv

LEMMA SweepRowKeeps ==
    ASSUME ArrivalInv, SweepRow
    PROVE  ArrivalInv'
<1>1. /\ spc' = "look" /\ UNCHANGED <<entry, heldEntry, attributed, tried, handler>>
      /\ row' = [row EXCEPT ![swept] = IF @ = "absent" THEN "credited" ELSE @]
  BY DEF SweepRow
<1>2. ArrivalShape'
  BY <1>1 DEF ArrivalInv, ArrivalShape, Handling, handler
<1>3. EntriesGrow /\ EntriesWereTried' /\ RowsTell'
  BY <1>1 DEF ArrivalInv, EntriesGrow, EntriesWereTried, RowsTell, HeldOrApart, ReadApart, handler
<1>4. \A c \in Deposits : row'[c] = row[c] \/ (row[c] = "absent" /\ row'[c] = "credited")
  BY <1>1 DEF ArrivalInv, ArrivalShape
<1>5. AttributedWasHeld'
  BY <1>1, <1>3, <1>4, HeldStays DEF ArrivalInv, AttributedWasHeld
<1>6. SuspenseIsThere'
  BY <1>1, <1>3, <1>4, HeldStays DEF ArrivalInv, SuspenseIsThere, HeldOrApart
<1> QED BY <1>2, <1>3, <1>5, <1>6 DEF ArrivalInv

LEMMA AttributeKeeps ==
    ASSUME ArrivalInv, NEW d \in Deposits, Attribute(d)
    PROVE  ArrivalInv'
<1>1. /\ row[d] = "suspense" /\ attributed' = attributed \cup {d}
      /\ row' = [row EXCEPT ![d] = "credited"]
      /\ UNCHANGED <<entry, heldEntry, tried, handler, sweep>>
  BY DEF Attribute
<1>2. ArrivalShape'
  BY <1>1 DEF ArrivalInv, ArrivalShape, Handling, handler, sweep
<1>3. EntriesGrow /\ EntriesWereTried' /\ RowsTell'
  BY <1>1 DEF ArrivalInv, EntriesGrow, EntriesWereTried, RowsTell, HeldOrApart, ReadApart, handler
<1>4. d \in HeldOrApart
  BY <1>1 DEF ArrivalInv, SuspenseIsThere, HeldOrApart
<1>5. AttributedWasHeld'
  BY <1>1, <1>3, <1>4, HeldStays DEF ArrivalInv, ArrivalShape, AttributedWasHeld
<1>6. SuspenseIsThere'
  <2> SUFFICES ASSUME NEW c \in Deposits, row'[c] = "suspense"
               PROVE  c \in HeldOrApart' /\ c \notin attributed'
    BY DEF SuspenseIsThere, HeldOrApart
  <2>1. c # d /\ row[c] = "suspense"
    BY <1>1 DEF ArrivalInv, ArrivalShape
  <2>2. c \in HeldOrApart /\ c \notin attributed
    BY <2>1 DEF ArrivalInv, SuspenseIsThere, HeldOrApart
  <2> QED BY <1>1, <1>3, <2>1, <2>2, HeldStays
<1> QED BY <1>2, <1>3, <1>5, <1>6 DEF ArrivalInv

LEMMA ArrivalsKeep ==
    ASSUME ArrivalInv, [Next]_vars
    PROVE  ArrivalInv'
<1>1. ASSUME NEW d \in Deposits, Arrive(d) \/ Close(d)
      PROVE  ArrivalInv'
  BY <1>1, WorldKeeps DEF Arrive, Close
<1>2. ASSUME MoveCeiling
      PROVE  ArrivalInv'
  BY <1>2, WorldKeeps DEF MoveCeiling
<1>3. ASSUME SweepStart \/ SweepEnd \/ \E d \in Deposits : SweepLook(d)
      PROVE  ArrivalInv'
  <2>1. UNCHANGED <<booked, handler>>
    BY <1>3 DEF SweepStart, SweepEnd, SweepLook
  <2>2. spc' \in {"post", "row"} => swept' \in Deposits
    BY <1>3 DEF SweepStart, SweepEnd, SweepLook, ArrivalInv, ArrivalShape
  <2> QED BY <2>1, <2>2, LookKeeps
<1>4. CASE UNCHANGED vars
  BY <1>4, WorldKeeps DEF vars, booked, handler, sweep
<1> QED
  BY <1>1, <1>2, <1>3, <1>4, DeliverKeeps, PostKeeps, InsertRowKeeps, DieKeeps,
     SweepPostKeeps, SweepRowKeeps, AttributeKeeps
     DEF Next, HandlerStep, SweepStep

\* A webhook, the sweep and the staff together credit an arrival at most once, for
\* any arrivals, rails, accounts and handlers, whatever becomes of the ceiling and of
\* the accounts, unless two of them posted on different readings of the arrival.
THEOREM ArrivalsAreCreditedOnce == Spec => []CreditedOnce
<1>1. ArrivalInv /\ [Next]_vars => ArrivalInv'
  BY ArrivalsKeep
<1>2. ArrivalInv => CreditedOnce
  <2> SUFFICES ASSUME ArrivalInv, NEW d \in Deposits, entry[d] = "wallet", d \in attributed
               PROVE  ReadApart(d)
    BY DEF CreditedOnce
  <2>1. d \in HeldOrApart /\ "credit" \in tried[d]
    BY DEF ArrivalInv, AttributedWasHeld, EntriesWereTried
  <2>2. CASE heldEntry[d] = "suspense"
    BY <2>1, <2>2 DEF ArrivalInv, EntriesWereTried, ReadApart
  <2> QED BY <2>1, <2>2 DEF HeldOrApart
<1> QED BY ArrivalsStart, <1>1, <1>2, PTL DEF Spec

\* What the staff see in suspense is there, and nobody has taken it out, unless the
\* arrival was read apart on a rail with one key for both readings.
THEOREM SuspenseIsKept == Spec => []SuspenseIsThere
<1>1. ArrivalInv /\ [Next]_vars => ArrivalInv'
  BY ArrivalsKeep
<1> QED BY ArrivalsStart, <1>1, PTL DEF Spec, ArrivalInv

-----------------------------------------------------------------------------
(* Outbox. *)

RowStatuses == {"absent", "pending", "sent", "abandoned"}

MailShape ==
    /\ status \in [Messages -> RowStatuses]
    /\ due \in [Messages -> BOOLEAN]
    /\ holds \in [Senders -> SUBSET Messages]

\* A message that may be claimed, or is not there yet, is held by nobody.
FreeIsUnheld ==
    \A m \in Messages, s \in Senders :
        status[m] = "absent" \/ due[m] => m \notin holds[s]

MailInv == MailShape /\ FreeIsUnheld /\ OneSenderPerLease

\* Claiming rows that are due keeps the leases apart.
LEMMA ClaimKeeps ==
    ASSUME MailInv, NEW s \in Senders, NEW b \in SUBSET Due, Claim(s, b)
    PROVE  MailInv'
<1>1. b \subseteq Messages /\ \A m \in b : due[m] /\ status[m] = "pending"
  BY DEF Due
<1>2. holds' = [holds EXCEPT ![s] = b] /\ UNCHANGED status
  BY DEF Claim
<1>3. \A m \in Messages : due'[m] = (due[m] /\ m \notin b)
  BY DEF Claim
<1>4. MailShape'
  BY <1>1, <1>2 DEF Claim, MailInv, MailShape
<1>5. \A t \in Senders : \A m \in holds'[t] : m \in holds[t] \/ (t = s /\ m \in b)
  BY <1>2 DEF MailInv, MailShape
<1>6. FreeIsUnheld'
  BY <1>1, <1>2, <1>3, <1>5 DEF MailInv, FreeIsUnheld, RowStatuses
<1>7. OneSenderPerLease'
  <2>1. ASSUME NEW m \in Messages, NEW t \in Senders, NEW u \in Senders,
               m \in holds'[t], m \in holds'[u]
        PROVE  t = u
    <3>1. CASE m \in b
      <4>1. \A v \in Senders : m \notin holds[v]
        BY <1>1, <3>1 DEF MailInv, FreeIsUnheld
      <4>2. QED
        BY <1>5, <2>1, <4>1
    <3>2. CASE m \notin b
      BY <1>5, <2>1, <3>2 DEF MailInv, OneSenderPerLease
    <3>3. QED
      BY <3>1, <3>2
  <2>2. QED
    BY <2>1 DEF OneSenderPerLease
<1>8. QED
  BY <1>4, <1>6, <1>7 DEF MailInv

\* A step that lets go of leases and makes nothing due keeps them apart.
LEMMA LettingGoKeeps ==
    ASSUME MailInv, MailShape',
           \A m \in Messages : due'[m] => due[m],
           \A m \in Messages : status'[m] = "absent" => status[m] = "absent",
           \A s \in Senders : holds'[s] \subseteq holds[s]
    PROVE  MailInv'
  BY DEF MailInv, FreeIsUnheld, OneSenderPerLease

LEMMA RecordKeeps ==
    ASSUME MailInv, NEW s \in Senders, Record(s)
    PROVE  MailInv'
<1>1. holds' = [holds EXCEPT ![s] = @ \ {at[s]}]
  BY DEF Record, Done
<1>2. EndsAs(s) \in RowStatuses \ {"absent"}
  BY DEF EndsAs, RowStatuses
<1>3. CASE UNCHANGED rows
  <2>1. MailShape'
    BY <1>1, <1>3 DEF rows, MailInv, MailShape
  <2>2. QED
    BY <1>1, <1>3, <2>1, LettingGoKeeps DEF rows, MailInv, MailShape
<1>4. CASE /\ status' = [status EXCEPT ![at[s]] = EndsAs(s)]
           /\ due' = [due EXCEPT ![at[s]] = FALSE]
  <2>1. MailShape'
    BY <1>1, <1>2, <1>4 DEF MailInv, MailShape
  <2>2. \A m \in Messages : due'[m] => due[m]
    BY <1>4 DEF MailInv, MailShape
  <2>3. \A m \in Messages : status'[m] = "absent" => status[m] = "absent"
    BY <1>2, <1>4 DEF MailInv, MailShape
  <2>4. QED
    BY <1>1, <2>1, <2>2, <2>3, LettingGoKeeps DEF MailInv, MailShape
<1>5. QED
  BY <1>3, <1>4 DEF Record

LEMMA MailKeeps ==
    ASSUME MailInv, [OutboxNext]_outboxVars
    PROVE  MailInv'
<1>1. ASSUME NEW m \in Messages, Enqueue(m)
      PROVE  MailInv'
  <2>1. MailShape'
    BY <1>1 DEF Enqueue, senders, MailInv, MailShape, RowStatuses
  <2>2. \A s \in Senders : m \notin holds[s]
    BY <1>1 DEF Enqueue, MailInv, FreeIsUnheld
  <2>3. FreeIsUnheld' /\ OneSenderPerLease'
    BY <1>1, <2>2 DEF Enqueue, senders, MailInv, MailShape, FreeIsUnheld, OneSenderPerLease
  <2>4. QED
    BY <2>1, <2>3 DEF MailInv
<1>2. ASSUME NEW m \in Messages, ComesDue(m)
      PROVE  MailInv'
  <2>1. holds' = [s \in Senders |-> holds[s] \ {m}] /\ due' = [due EXCEPT ![m] = TRUE]
        /\ UNCHANGED status
    BY <1>2 DEF ComesDue
  <2>2. MailShape'
    BY <2>1 DEF MailInv, MailShape
  <2>3. FreeIsUnheld' /\ OneSenderPerLease'
    BY <2>1 DEF MailInv, MailShape, FreeIsUnheld, OneSenderPerLease
  <2>4. QED
    BY <2>2, <2>3 DEF MailInv
<1>3. ASSUME NEW m \in Messages, NEW f \in Fast, ClaimNow(f, m)
      PROVE  MailInv'
  <2>1. {m} \in SUBSET Due /\ f \in Senders /\ Claim(f, {m})
    BY <1>3 DEF ClaimNow, Senders
  <2>2. QED
    BY <2>1, ClaimKeeps
<1>4. ASSUME SweepClaim
      PROVE  MailInv'
  <2>1. PICK b \in SUBSET Due : Claim(Sweeper, b)
    BY <1>4 DEF SweepClaim
  <2>2. Sweeper \in Senders
    BY DEF Senders
  <2>3. QED
    BY <2>1, <2>2, ClaimKeeps
<1>5. ASSUME NEW s \in Senders, Send(s)
      PROVE  MailInv'
  BY <1>5 DEF Send, rows, MailInv, MailShape, FreeIsUnheld, OneSenderPerLease
<1>6. ASSUME NEW s \in Senders, Record(s)
      PROVE  MailInv'
  BY <1>6, RecordKeeps
<1>7. ASSUME SendNothing
       PROVE  MailInv'
  <2>1. PICK m \in Messages : holds' = [holds EXCEPT ![Sweeper] = @ \ {m}]
    BY <1>7 DEF SendNothing
  <2>2. UNCHANGED <<status, due>>
    BY <1>7 DEF SendNothing, rows
  <2>3. MailShape'
    BY <2>1, <2>2 DEF MailInv, MailShape
  <2>4. QED
    BY <2>1, <2>2, <2>3, LettingGoKeeps DEF MailInv, MailShape
<1>8. ASSUME Reconfigure
       PROVE  MailInv'
  BY <1>8 DEF Reconfigure, rows, senders, MailInv, MailShape, FreeIsUnheld, OneSenderPerLease
<1>9. ASSUME NEW s \in Senders, SenderDies(s)
      PROVE  MailInv'
  <2>1. holds' = [holds EXCEPT ![s] = {}] /\ UNCHANGED <<status, due>>
    BY <1>9 DEF SenderDies, rows
  <2>2. MailShape'
    BY <2>1 DEF MailInv, MailShape
  <2>3. QED
    BY <2>1, <2>2, LettingGoKeeps DEF MailInv, MailShape
<1>10. CASE UNCHANGED outboxVars
  BY <1>10 DEF outboxVars, MailInv, MailShape, FreeIsUnheld, OneSenderPerLease
<1>11. QED
  BY <1>1, <1>2, <1>3, <1>4, <1>5, <1>6, <1>9, <1>10, <1>7, <1>8 DEF OutboxNext

LEMMA MailStarts == OutboxInit => MailInv
  BY DEF OutboxInit, MailInv, MailShape, RowStatuses, FreeIsUnheld, OneSenderPerLease

\* Two senders never have one message under leases that both stand
\* (notification.worker.ts, the claims of #sweepLocked and deliverNow).
THEOREM LeasesExclude == OutboxSpec => []OneSenderPerLease
<1>1. MailInv /\ [OutboxNext]_outboxVars => MailInv'
  BY MailKeeps
<1>2. MailInv => OneSenderPerLease
  BY DEF MailInv
<1>3. QED
  BY MailStarts, <1>1, <1>2, PTL DEF OutboxSpec

Ended(m) == status[m] \in {"sent", "abandoned"}

\* What a row ended as it stays, whichever sender comes back late with another
\* outcome (the guards on 'pending' of #deliver, #failed and #abandon).
OutcomeIsFinal == [][\A m \in Messages : Ended(m) => status'[m] = status[m]]_outboxVars

\* Every outcome is final.
THEOREM OutcomesAreFinal == OutboxSpec => OutcomeIsFinal
<1>1. ASSUME MailInv, [OutboxNext]_outboxVars
      PROVE  [\A m \in Messages : Ended(m) => status'[m] = status[m]]_outboxVars
  <2>1. ASSUME NEW n \in Messages, Enqueue(n)
        PROVE  \A m \in Messages : Ended(m) => status'[m] = status[m]
    BY <1>1, <2>1 DEF Enqueue, Ended, MailInv, MailShape
  <2>2. ASSUME NEW s \in Senders, Record(s)
        PROVE  \A m \in Messages : Ended(m) => status'[m] = status[m]
    <3>1. CASE UNCHANGED rows
      BY <3>1 DEF rows
    <3>2. CASE status[at[s]] = "pending" /\ status' = [status EXCEPT ![at[s]] = EndsAs(s)]
      BY <1>1, <3>2 DEF Ended, MailInv, MailShape
    <3>3. QED
      BY <2>2, <3>1, <3>2 DEF Record
  <2>3. CASE UNCHANGED status
    BY <2>3
  <2>4. ASSUME NEW s \in Senders, Send(s) \/ SenderDies(s)
        PROVE  UNCHANGED status
    BY <2>4 DEF Send, SenderDies, rows
  <2>5. ASSUME NEW n \in Messages, ComesDue(n) \/ (\E f \in Fast : ClaimNow(f, n))
        PROVE  UNCHANGED status
    BY <2>5 DEF ComesDue, ClaimNow, Claim
  <2>6. ASSUME SweepClaim
        PROVE  UNCHANGED status
    BY <2>6 DEF SweepClaim, Claim
  <2>7. ASSUME SendNothing \/ Reconfigure
        PROVE  UNCHANGED status
    BY <2>7 DEF SendNothing, Reconfigure, rows
  <2>8. QED
    BY <1>1, <2>1, <2>2, <2>3, <2>4, <2>5, <2>6, <2>7 DEF OutboxNext
<1>2. MailInv /\ [OutboxNext]_outboxVars => MailInv'
  BY MailKeeps
<1>3. QED
  BY MailStarts, <1>1, <1>2, PTL DEF OutboxSpec, OutcomeIsFinal
================================================================================
