------------------------------- MODULE Sessions -------------------------------
(***************************************************************************)
(* One customer's devices, sessions and refresh tokens: AuthService.login,   *)
(* refresh and logout, PasswordResetService, AccountSecurityService and the   *)
(* account freeze (apps/api/src/auth and src/admin), with the triggers and    *)
(* functions of packages/identity/sql/002_identity.sql and 056_reset_codes.   *)
(*                                                                          *)
(* A session is a token family: token g of it is consumed once generation     *)
(* g + 1 exists.  Login is a transaction whose statements see what others     *)
(* have committed and which holds the row lock of the device it touched; a    *)
(* single UPDATE or database function is one step, after the locks it needs.  *)
(***************************************************************************)
EXTENDS Integers, FiniteSets

CONSTANTS
    Devices,
    Logins,         \* sign-in attempts; an attempt opens at most one session
    Holders,        \* whoever presents refresh tokens
    Evictions,      \* runs of "sign out other devices" and "change password"
    Codes,          \* password reset codes
    Admins,         \* staff freezing, unfreezing and closing the account
    Free,           \* nobody holds the row lock
    MaxAttempts,    \* MAX_CODE_ATTEMPTS
    MaxPassword,    \* bound: how often the password changes
    MaxGeneration   \* bound: how often a family is rotated

ASSUME SessionsAssumption ==
    /\ Free \notin Logins
    /\ MaxAttempts \in Nat \ {0}
    /\ MaxPassword \in Nat /\ MaxGeneration \in Nat

VARIABLES
    account,    \* users.status
    password,   \* which password user_credentials holds: 0, 1, 2...
    floor,      \* the password set by the last reset
    device,     \* devices.status, "absent" before the first sign-in on it
    lock,       \* the login holding the row lock of a device
    session,    \* auth_sessions: "none", "live" or the reason of its revocation
    on,         \* the device of a login's session
    opened,     \* the password a login was let in with
    generation, \* the newest refresh token of the session
    replayed,   \* history: a token of the session was exchanged, and presented again
    code,       \* password_reset_tokens: "none", "live" or "spent"
    attempts,   \* wrong guesses charged to a code
    pc, seen,   \* each login: its place, and the device row as it read it
    hand,       \* each holder: the token it is presenting
    sweep,      \* each eviction: its place, kind, own device, and the rows it found
    order       \* each member of staff: the status to set, once checked

logins == <<pc, seen, on, opened>>
family == <<session, generation, replayed>>
reset == <<floor, code, attempts>>
vars == <<account, password, floor, device, lock, session, on, opened, generation,
          replayed, code, attempts, pc, seen, hand, sweep, order>>

Generations == 0..MaxGeneration

Idle == [at |-> "idle"]

Live(l) == session[l] = "live"

\* UPDATE auth_sessions SET revoked_at, revoked_reason ... WHERE revoked_at IS
\* NULL, for the sessions in S.
Revoke(S, reason) ==
    session' = [l \in Logins |-> IF l \in S /\ Live(l) THEN reason ELSE session[l]]

-----------------------------------------------------------------------------
Init ==
    /\ account = "active"
    /\ password = 0
    /\ floor = 0
    /\ device = [d \in Devices |-> "absent"]
    /\ lock = [d \in Devices |-> Free]
    /\ session = [l \in Logins |-> "none"]
    /\ on \in [Logins -> Devices]
    /\ opened = [l \in Logins |-> 0]
    /\ generation = [l \in Logins |-> 0]
    /\ replayed = [l \in Logins |-> FALSE]
    /\ code = [c \in Codes |-> "none"]
    /\ attempts = [c \in Codes |-> 0]
    /\ pc = [l \in Logins |-> "idle"]
    /\ seen = [l \in Logins |-> "absent"]
    /\ hand = [h \in Holders |-> Idle]
    /\ sweep = [e \in Evictions |-> Idle]
    /\ order = [a \in Admins |-> Idle]

-----------------------------------------------------------------------------
(* AuthService.login *)

Goto(l, place) == pc' = [pc EXCEPT ![l] = place]

Unlocked(l) == [d \in Devices |-> IF lock[d] = l THEN Free ELSE lock[d]]

\* The end of a login that opened no session, with its locks released.
Refuse(l) ==
    /\ Goto(l, "done")
    /\ lock' = Unlocked(l)
    /\ seen' = [seen EXCEPT ![l] = "absent"]
    /\ opened' = [opened EXCEPT ![l] = 0]

\* #findUser and verifyPassword: the hash is read, compared, and not read again.
\* Only a closed account is refused here; a wrong password is LoginFails.
Login(l) ==
    /\ pc[l] = "idle"
    /\ IF account = "closed"
       THEN Refuse(l)
       ELSE /\ Goto(l, "find")
            /\ opened' = [opened EXCEPT ![l] = password]
            /\ UNCHANGED <<lock, seen>>
    /\ UNCHANGED <<account, password, device, family, reset, on, hand, sweep, order>>

\* #resolveDevice, the SELECT.  A revoked device refuses.
FindDevice(l) ==
    /\ pc[l] = "find"
    /\ IF device[on[l]] = "revoked"
       THEN Refuse(l)
       ELSE /\ Goto(l, "touch")
            /\ seen' = [seen EXCEPT ![l] = device[on[l]]]
            /\ UNCHANGED <<lock, opened>>
    /\ UNCHANGED <<account, password, device, family, reset, on, hand, sweep, order>>

\* Faulty variant: a known device is read and not updated, so its row is not
\* locked.
TouchDeviceUnlocked(l) ==
    /\ pc[l] = "touch"
    /\ seen[l] = "absent" => lock[on[l]] = Free
    /\ lock' = IF seen[l] = "absent" THEN [lock EXCEPT ![on[l]] = l] ELSE lock
    /\ Goto(l, "open")
    /\ UNCHANGED <<account, password, device, family, reset, seen, on, opened, hand, sweep, order>>

\* #resolveDevice, the INSERT of a new device or the UPDATE of last_seen_at:
\* both wait for the row, and an insert that another login won fails.
TouchDevice(l) ==
    /\ pc[l] = "touch"
    /\ lock[on[l]] = Free
    /\ IF seen[l] = "absent" /\ device[on[l]] # "absent"
       THEN Refuse(l)
       ELSE /\ Goto(l, "open")
            /\ lock' = [lock EXCEPT ![on[l]] = l]
            /\ UNCHANGED <<seen, opened>>
    /\ UNCHANGED <<account, password, device, family, reset, on, hand, sweep, order>>

\* #openSession: assert_session_device_valid refuses a device that is not active.
OpenSession(l) ==
    /\ pc[l] = "open"
    /\ IF seen[l] = "absent" \/ device[on[l]] = "active"
       THEN Goto(l, "commit") /\ UNCHANGED <<lock, seen, opened>>
       ELSE Refuse(l)
    /\ UNCHANGED <<account, password, device, family, reset, on, hand, sweep, order>>

\* COMMIT: the device, the session and its generation 0 become visible.
LoginCommit(l) ==
    /\ pc[l] = "commit"
    /\ session' = [session EXCEPT ![l] = "live"]
    /\ device' = [device EXCEPT ![on[l]] = IF @ = "absent" THEN "active" ELSE @]
    /\ lock' = Unlocked(l)
    /\ seen' = [seen EXCEPT ![l] = "absent"]
    /\ Goto(l, "done")
    /\ UNCHANGED <<account, password, generation, replayed, reset, on, opened, hand, sweep, order>>

\* ROLLBACK: a wrong password, a failed statement, the death of the process.
LoginFails(l) ==
    /\ pc[l] \notin {"idle", "done"}
    /\ Refuse(l)
    /\ UNCHANGED <<account, password, device, family, reset, on, hand, sweep, order>>

-----------------------------------------------------------------------------
(* rotate_refresh_token and revoke_session *)

\* The first SELECT: the token's family and, before the lock, the token.
PresentToken(h) ==
    /\ hand[h] = Idle
    /\ \E l \in Logins, g \in Generations :
          /\ session[l] # "none" /\ g <= generation[l]
          /\ hand' = [hand EXCEPT ![h] = [at |-> "lock", of |-> l, token |-> g,
                                          consumed |-> g < generation[l]]]
    /\ UNCHANGED <<account, password, device, lock, family, logins, reset, sweep, order>>

\* Under the lock of the family: a revoked family answers session_revoked, a
\* consumed token revokes it, and otherwise the next generation is issued, unless
\* the token has expired.
RotateWith(h, live, consumed) ==
    LET l == hand[h].of
        g == hand[h].token
    IN
    /\ hand[h].at = "lock"
    /\ hand' = [hand EXCEPT ![h] = Idle]
    /\ replayed' = [replayed EXCEPT ![l] = @ \/ g < generation[l]]
    /\ \/ /\ live => ~consumed
          /\ UNCHANGED <<session, generation>>
       \/ /\ live /\ consumed
          /\ session' = [session EXCEPT ![l] = "token_reuse"]
          /\ UNCHANGED generation
       \/ /\ live /\ ~consumed /\ g = generation[l] /\ g < MaxGeneration
          /\ generation' = [generation EXCEPT ![l] = g + 1]
          /\ UNCHANGED session
    /\ UNCHANGED <<account, password, device, lock, logins, reset, sweep, order>>

\* Faulty variant: consumed_at is not read again under the lock; the second
\* insert of a generation fails on refresh_tokens_chain.
RotateStale(h) == hand[h] # Idle /\ RotateWith(h, Live(hand[h].of), hand[h].consumed)

\* Faulty variant: the family is not looked at.
RotateUnchecked(h) ==
    hand[h] # Idle /\ RotateWith(h, TRUE, hand[h].token < generation[hand[h].of])

Rotate(h) ==
    /\ hand[h] # Idle
    /\ RotateWith(h, Live(hand[h].of), hand[h].token < generation[hand[h].of])

\* revoke_session(id, 'logout')
Logout(l) ==
    /\ session[l] # "none"
    /\ Revoke({l}, "logout")
    /\ UNCHANGED <<account, password, device, lock, generation, replayed, logins,
                   reset, hand, sweep, order>>

-----------------------------------------------------------------------------
(* AccountSecurityService *)

\* cascade_device_revocation: what revoking the devices D does to their sessions.
RevokeDevices(D) ==
    /\ device' = [d \in Devices |-> IF d \in D THEN "revoked" ELSE device[d]]
    /\ Revoke({l \in Logins : on[l] \in D}, "device_revoked")

\* revokeDevice
RevokeDevice(d) ==
    /\ device[d] = "active"
    /\ lock[d] = Free
    /\ RevokeDevices({d})
    /\ UNCHANGED <<account, password, lock, generation, replayed, logins, reset, hand,
                   sweep, order>>

\* revokeOtherDevices, or changePassword once it has read the account and verified
\* the current password.
Evict(e) ==
    /\ sweep[e] = Idle
    /\ \E d \in Devices, kind \in {"others", "change"} :
          /\ device[d] # "absent"
          /\ kind = "change" => account = "active"
          /\ sweep' = [sweep EXCEPT ![e] = [at |-> "find", kind |-> kind, mine |-> d, found |-> {}]]
    /\ UNCHANGED <<account, password, device, lock, family, logins, reset, hand, order>>

\* Whether a password change holds the row lock of the credential.
Changing == \E e \in Evictions : sweep[e].at = "locks" /\ sweep[e].kind = "change"

\* A change locks the credential first; then the UPDATE finds the active devices
\* that are committed now.
EvictFind(e) ==
    /\ sweep[e].at = "find"
    /\ sweep[e].kind = "change" => ~Changing
    /\ sweep' = [sweep EXCEPT ![e] =
                   [at |-> "locks", kind |-> sweep[e].kind, mine |-> sweep[e].mine,
                    found |-> {d \in Devices \ {sweep[e].mine} : device[d] = "active"}]]
    /\ UNCHANGED <<account, password, device, lock, family, logins, reset, hand, order>>

\* It waits for the rows it found, revokes those still active, and commits with
\* the new password, if that is what it is.
EvictCommit(e) ==
    /\ sweep[e].at = "locks"
    /\ \A d \in sweep[e].found : lock[d] = Free
    /\ RevokeDevices(sweep[e].found)
    /\ password' = IF sweep[e].kind = "change" THEN password + 1 ELSE password
    /\ password' <= MaxPassword
    /\ sweep' = [sweep EXCEPT ![e] = [at |-> "done"]]
    /\ UNCHANGED <<account, lock, generation, replayed, logins, reset, hand, order>>

-----------------------------------------------------------------------------
(* PasswordResetService and the account freeze *)

\* request: a code is issued beside whatever codes are outstanding.
RequestReset(c) ==
    /\ code[c] = "none"
    /\ account # "closed"
    /\ code' = [code EXCEPT ![c] = "live"]
    /\ UNCHANGED <<account, password, floor, device, lock, family, logins, attempts, hand, sweep,
                   order>>

\* consume_password_reset_code with a right code, in time: it and its siblings are
\* spent, the password is set (behind a change that holds the credential) and every
\* live session is revoked.
Reset(c) ==
    /\ code[c] = "live" /\ attempts[c] < MaxAttempts /\ password < MaxPassword
    /\ ~Changing
    /\ code' = [x \in Codes |-> IF code[x] = "live" THEN "spent" ELSE code[x]]
    /\ password' = password + 1
    /\ floor' = password + 1
    /\ Revoke(Logins, "password_reset")
    /\ UNCHANGED <<account, device, lock, generation, replayed, logins, attempts, hand,
                   sweep, order>>

\* The live codes after a wrong guess was charged to each.
Charged == [x \in Codes |-> IF code[x] = "live" THEN attempts[x] + 1 ELSE attempts[x]]

\* Faulty variant: a code that has run out of guesses stays live.
WrongCodeUncapped ==
    /\ \E c \in Codes : code[c] = "live"
    /\ attempts' = Charged
    /\ UNCHANGED <<account, password, floor, device, lock, family, logins, code, hand, sweep,
                   order>>

\* A wrong code is charged to every live one, and spends those at the ceiling.
WrongCode ==
    /\ \E c \in Codes : code[c] = "live"
    /\ attempts' = Charged
    /\ code' = [x \in Codes |-> IF code[x] = "live" /\ Charged[x] >= MaxAttempts
                                THEN "spent" ELSE code[x]]
    /\ UNCHANGED <<account, password, floor, device, lock, family, logins, hand, sweep, order>>

\* AdminService.setUserStatus, up to BEGIN: the status is read and checked.
OrderStatus(a, to) ==
    /\ order[a] = Idle
    /\ account # to /\ account # "closed"
    /\ order' = [order EXCEPT ![a] = [at |-> "write", to |-> to]]
    /\ UNCHANGED <<account, password, device, lock, family, logins, reset, hand, sweep>>

\* Its transaction: the status is written, and freezing and closing revoke.
SetStatus(a) ==
    /\ order[a].at = "write"
    /\ account' = order[a].to
    /\ IF account' = "active" THEN UNCHANGED session ELSE Revoke(Logins, "admin")
    /\ order' = [order EXCEPT ![a] = [at |-> "done"]]
    /\ UNCHANGED <<password, device, lock, generation, replayed, logins, reset, hand,
                   sweep>>

Statuses == {"active", "frozen", "closed"}

LoginStep(l) ==
    \/ Login(l) \/ FindDevice(l) \/ TouchDevice(l) \/ OpenSession(l)
    \/ LoginCommit(l) \/ LoginFails(l)

Next ==
    \/ \E l \in Logins : LoginStep(l) \/ Logout(l)
    \/ \E h \in Holders : PresentToken(h) \/ Rotate(h)
    \/ \E d \in Devices : RevokeDevice(d)
    \/ \E e \in Evictions : Evict(e) \/ EvictFind(e) \/ EvictCommit(e)
    \/ \E c \in Codes : RequestReset(c) \/ Reset(c)
    \/ WrongCode
    \/ \E a \in Admins : SetStatus(a) \/ \E to \in Statuses : OrderStatus(a, to)

Spec == Init /\ [][Next]_vars

-----------------------------------------------------------------------------
(* Properties. *)

Reasons == {"logout", "token_reuse", "device_revoked", "password_reset", "admin"}

Hands == {Idle} \cup [at : {"lock"}, of : Logins, token : Generations, consumed : BOOLEAN]

Sweeps == {Idle, [at |-> "done"]}
          \cup [at : {"find", "locks"}, kind : {"others", "change"}, mine : Devices,
                found : SUBSET Devices]

\* The type of every variable; a session is revoked with a reason, and a live
\* code is below the ceiling of guesses.
TypeOK ==
    /\ account \in Statuses
    /\ password \in 0..MaxPassword /\ floor \in 0..password
    /\ device \in [Devices -> {"absent", "active", "revoked"}]
    /\ lock \in [Devices -> Logins \cup {Free}]
    /\ session \in [Logins -> {"none", "live"} \cup Reasons]
    /\ on \in [Logins -> Devices]
    /\ opened \in [Logins -> 0..password]
    /\ generation \in [Logins -> Generations]
    /\ replayed \in [Logins -> BOOLEAN]
    /\ code \in [Codes -> {"none", "live", "spent"}]
    /\ attempts \in [Codes -> 0..MaxAttempts]
    /\ pc \in [Logins -> {"idle", "find", "touch", "open", "commit", "done"}]
    /\ seen \in [Logins -> {"absent", "active"}]
    /\ hand \in [Holders -> Hands]
    /\ sweep \in [Evictions -> Sweeps]
    /\ order \in [Admins -> {Idle, [at |-> "done"]} \cup [at : {"write"}, to : Statuses]]

\* "Revoke this device" is not advisory: whatever logins were under way when the
\* device was revoked, no session on it is live.
NoSessionOnRevokedDevice == \A l \in Logins : Live(l) => device[on[l]] = "active"

\* Reuse detection cannot be raced: once a token that was exchanged is presented
\* again, however closely the two came together, the family has no session.
ReplayRevokes == \A l \in Logins : replayed[l] => session[l] \in Reasons

\* Revocation is final: a revoked session keeps its reason and never gets another
\* refresh token, from whatever request was under way.
RevocationIsFinal ==
    [][\A l \in Logins : session[l] \in Reasons =>
          session'[l] = session[l] /\ generation'[l] = generation[l]]_vars

\* 056_reset_codes.sql: a reset revokes every live session, since "finishing one
\* while the intruder's session keeps working would make it theatre".  So no live
\* session was let in by a password older than the last reset.
ResetEndsEverySession == \A l \in Logins : Live(l) => opened[l] >= floor

-----------------------------------------------------------------------------
(* The inductive invariant. *)

\* From TouchDevice to its end a login holds the row of its device.
LoginHoldsRow == \A l \in Logins : pc[l] \in {"open", "commit"} => lock[on[l]] = l

\* While it holds the row, what it found of the device is still so.
FoundIsStillSo ==
    \A l \in Logins :
        /\ pc[l] \in {"open", "commit"} /\ seen[l] = "absent" => device[on[l]] = "absent"
        /\ pc[l] = "commit" /\ seen[l] # "absent" => device[on[l]] = "active"

\* A session exists once its login has committed, and not before.
SessionFollowsLogin == \A l \in Logins : session[l] # "none" => pc[l] = "done"

\* Tokens in somebody's hand are tokens of sessions.
TokensAreOfSessions == \A h \in Holders : hand[h] # Idle => session[hand[h].of] # "none"

\* A code is guessed at only below the ceiling.
CodesBelowCeiling ==
    \A c \in Codes :
        /\ code[c] = "none" => attempts[c] = 0
        /\ code[c] = "live" => attempts[c] < MaxAttempts

IInv ==
    /\ TypeOK
    /\ LoginHoldsRow
    /\ FoundIsStillSo
    /\ SessionFollowsLogin
    /\ TokensAreOfSessions
    /\ CodesBelowCeiling
    /\ NoSessionOnRevokedDevice
    /\ ReplayRevokes
=============================================================================
