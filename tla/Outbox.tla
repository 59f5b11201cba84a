-------------------------------- MODULE Outbox ---------------------------------
(***************************************************************************)
(* Mail that is owed: rows of notification_outbox, written on the           *)
(* transaction of the event they tell of (notification.service.ts), claimed  *)
(* under a lease and handed to the provider by the sweep and by the          *)
(* immediate send (notification.worker.ts).                                  *)
(*                                                                          *)
(* A claim pushes next_attempt_at two minutes out and reads the attempts; the *)
(* sweep then sends its whole batch one message after another, so a lease may *)
(* lapse before its message's turn.  A process may die at any step, and an    *)
(* answer of the provider may be lost after the message went out.            *)
(***************************************************************************)
EXTENDS Integers, FiniteSets

CONSTANTS
    Messages,    \* rows, by idempotency key
    Security,    \* those of class security
    Fast,        \* runs of deliverNow
    Sweeper,     \* the sweep that has the advisory lock
    Batch,       \* rows a sweep claims at once
    Ceiling,     \* attempts after which a message is abandoned
    NoMessage

Senders == Fast \cup {Sweeper}

ASSUME OutboxAssumption ==
    /\ Security \subseteq Messages
    /\ Sweeper \notin Fast
    /\ Batch \in Nat \ {0} /\ Ceiling \in Nat \ {0}
    /\ NoMessage \notin Messages

VARIABLES
    status,     \* of each row, "absent" before it is committed
    attempts,
    due,        \* next_attempt_at has come
    batch,      \* each sender: rows it claimed and has not come to
    at,         \* the row it is delivering
    outcome,    \* what the delivery came to, before it is recorded
    read,       \* the attempts its claim read
    holds,      \* rows it claimed whose lease has not lapsed since
    keyring     \* the process the sweep runs in has the encryption keyring

rows == <<status, attempts, due>>
senders == <<batch, at, outcome, read, holds>>
outboxVars == <<status, attempts, due, batch, at, outcome, read, holds, keyring>>

OutboxInit ==
    /\ status = [m \in Messages |-> "absent"]
    /\ attempts = [m \in Messages |-> 0]
    /\ due = [m \in Messages |-> FALSE]
    /\ batch = [s \in Senders |-> {}]
    /\ at = [s \in Senders |-> NoMessage]
    /\ outcome = [s \in Senders |-> "none"]
    /\ read = [s \in Senders |-> [m \in Messages |-> 0]]
    /\ holds = [s \in Senders |-> {}]
    /\ keyring \in BOOLEAN

-----------------------------------------------------------------------------

\* enqueue, as its transaction commits.
Enqueue(m) ==
    /\ status[m] = "absent"
    /\ status' = [status EXCEPT ![m] = "pending"]
    /\ due' = [due EXCEPT ![m] = TRUE]
    /\ UNCHANGED <<attempts, senders, keyring>>

Due == {m \in Messages : status[m] = "pending" /\ due[m]}

Idle(s) == batch[s] = {} /\ at[s] = NoMessage

\* The rows of b are leased to s.
Claim(s, b) ==
    /\ due' = [m \in Messages |-> due[m] /\ m \notin b]
    /\ batch' = [batch EXCEPT ![s] = b]
    /\ read' = [read EXCEPT ![s] = [m \in Messages |-> IF m \in b THEN attempts[m] ELSE 0]]
    /\ holds' = [holds EXCEPT ![s] = b]
    /\ UNCHANGED <<status, attempts, at, outcome, keyring>>

\* ORDER BY class = security, LIMIT.
FirstOf(b) ==
    /\ b # {} /\ Cardinality(b) <= Batch
    /\ Cardinality(b) = Batch \/ b = Due
    /\ \A m \in Due \ b : m \in Security => b \subseteq Security

\* #sweepLocked.
SweepClaim ==
    /\ Idle(Sweeper)
    /\ \E b \in SUBSET Due : FirstOf(b) /\ Claim(Sweeper, b)

\* Faulty variant: a row is taken for the asking.
ClaimLeased(f, m) ==
    /\ Idle(f)
    /\ m \in Security /\ status[m] = "pending"
    /\ Claim(f, {m})

\* deliverNow, asked for codes only.
ClaimNow(f, m) ==
    /\ Idle(f)
    /\ m \in Due \cap Security
    /\ Claim(f, {m})

\* A sender comes to a row of its batch, security mail first.
TakesUp(s, m) ==
    /\ at[s] = NoMessage
    /\ m \in batch[s]
    /\ m \in Security \/ batch[s] \cap Security = {}
    /\ batch' = [batch EXCEPT ![s] = @ \ {m}]

\* #deliver, up to what it has to record: the provider took the message; the try
\* failed, or its answer was lost; it was refused, by the provider or by the
\* allowlist.  deliverNow has looked for the keyring before its claim.
Send(s) ==
    /\ s = Sweeper => keyring
    /\ \E m \in Messages :
          /\ TakesUp(s, m)
          /\ at' = [at EXCEPT ![s] = m]
    /\ \E o \in {"taken", "failed", "refused"} : outcome' = [outcome EXCEPT ![s] = o]
    /\ UNCHANGED <<rows, read, holds, keyring>>

\* #deliver without a keyring: 'retry', with nothing counted and nothing recorded;
\* the row is as the claim left it.
SendNothing ==
    /\ ~keyring
    /\ \E m \in Messages :
          /\ TakesUp(Sweeper, m)
          /\ holds' = [holds EXCEPT ![Sweeper] = @ \ {m}]
          /\ read' = [read EXCEPT ![Sweeper][m] = 0]
    /\ UNCHANGED <<rows, at, outcome, keyring>>

\* The next row of the batch.
Done(s) ==
    /\ at' = [at EXCEPT ![s] = NoMessage]
    /\ outcome' = [outcome EXCEPT ![s] = "none"]
    /\ holds' = [holds EXCEPT ![s] = @ \ {at[s]}]
    /\ read' = [read EXCEPT ![s][at[s]] = 0]
    /\ UNCHANGED <<batch, keyring>>

\* #failed counts from the attempts the claim read.
LastTry(s) == read[s][at[s]] + 1 >= Ceiling

EndsAs(s) ==
    IF outcome[s] = "taken" THEN "sent"
    ELSE IF outcome[s] = "refused" \/ LastTry(s) THEN "abandoned"
    ELSE "pending"

\* Faulty variant: a failure is scheduled again and not counted.
RecordUncounted(s) ==
    /\ at[s] # NoMessage
    /\ IF status[at[s]] # "pending"
       THEN UNCHANGED rows
       ELSE /\ status' = [status EXCEPT ![at[s]] = EndsAs(s)]
            /\ due' = [due EXCEPT ![at[s]] = FALSE]
            /\ UNCHANGED attempts
    /\ Done(s)

\* The outcome on the row, if the row is still pending; a failure that is not the
\* last is scheduled again.
Record(s) ==
    /\ at[s] # NoMessage
    /\ IF status[at[s]] # "pending"
       THEN UNCHANGED rows
       ELSE /\ status' = [status EXCEPT ![at[s]] = EndsAs(s)]
            /\ attempts' = [attempts EXCEPT ![at[s]] = @ + 1]
            /\ due' = [due EXCEPT ![at[s]] = FALSE]
    /\ Done(s)

\* The process dies, and its claims with it.
SenderDies(s) ==
    /\ ~Idle(s)
    /\ batch' = [batch EXCEPT ![s] = {}]
    /\ at' = [at EXCEPT ![s] = NoMessage]
    /\ outcome' = [outcome EXCEPT ![s] = "none"]
    /\ read' = [read EXCEPT ![s] = [m \in Messages |-> 0]]
    /\ holds' = [holds EXCEPT ![s] = {}]
    /\ UNCHANGED <<rows, keyring>>

\* The sweep's process is started again, with another configuration.
Reconfigure ==
    /\ Idle(Sweeper)
    /\ keyring' = ~keyring
    /\ UNCHANGED <<rows, senders>>

\* next_attempt_at comes: the lease lapses, or the backoff is over.
ComesDue(m) ==
    /\ status[m] = "pending" /\ ~due[m]
    /\ due' = [due EXCEPT ![m] = TRUE]
    /\ holds' = [s \in Senders |-> holds[s] \ {m}]
    /\ UNCHANGED <<status, attempts, batch, at, outcome, read, keyring>>

OutboxNext ==
    \/ \E m \in Messages : Enqueue(m) \/ ComesDue(m) \/ (\E f \in Fast : ClaimNow(f, m))
    \/ SweepClaim \/ SendNothing \/ Reconfigure
    \/ \E s \in Senders : Send(s) \/ Record(s) \/ SenderDies(s)

OutboxSpec == OutboxInit /\ [][OutboxNext]_outboxVars

\* Time passes, the interval starts the sweep again, and not every sweep dies at
\* the same step.  Nothing is asked of the provider or of the immediate send.
OutboxFairness ==
    /\ \A m \in Messages : WF_outboxVars(ComesDue(m))
    /\ SF_outboxVars(SweepClaim)
    /\ SF_outboxVars(Send(Sweeper))
    /\ SF_outboxVars(Record(Sweeper))

OutboxFairSpec == OutboxSpec /\ OutboxFairness

-----------------------------------------------------------------------------
(* Properties. *)

\* No two senders have a message under a lease that has not lapsed: while one of
\* them is at it, the other may take it up only if the first was slower than its
\* lease.  (A message whose answer was lost is mailed again by whoever comes next.)
OneSenderPerLease ==
    \A m \in Messages, s, t \in Senders : m \in holds[s] \cap holds[t] => s = t

\* Where the sweep runs with its keyring from some time on, a message that is owed
\* is sent or given up in the end, whatever the provider answers and however often
\* a sender dies, and is then never anything else, though a sender whose lease
\* lapsed may come back with another outcome.
EveryMessageEnds ==
    <>[]keyring =>
        \A m \in Messages :
            status[m] = "pending" ~> [](status[m] = "sent") \/ [](status[m] = "abandoned")
=============================================================================
