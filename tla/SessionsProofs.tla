---------------------------- MODULE SessionsProofs ----------------------------
(* Sessions, for any devices, sign-ins, holders of tokens and staff, from the     *)
(* inductive invariant IInv of Sessions.tla; then SessionClient, the other end.    *)
EXTENDS Sessions, SessionClient, TLAPS

\* Nobody is signed in before the first sign-in.
LEMMA InitHasInv == Init => IInv
BY SessionsAssumption DEF Init, IInv, TypeOK, LoginHoldsRow, FoundIsStillSo,
                          SessionFollowsLogin, TokensAreOfSessions, CodesBelowCeiling,
                          NoSessionOnRevokedDevice, ReplayRevokes, Live, Statuses, Reasons,
                          Generations, Hands, Sweeps, Idle

\* The end of a login that opened nothing releases its own locks only.
LEMMA RefuseKeepsInv ==
    ASSUME IInv, NEW l \in Logins, pc[l] # "done", Refuse(l),
           UNCHANGED <<account, password, device, family, reset, on, hand, sweep, order>>
    PROVE  IInv'
<1> USE SessionsAssumption DEF IInv
<1>1. TypeOK'
  BY DEF TypeOK, Refuse, Goto, Unlocked, family, reset
<1>2. LoginHoldsRow'
  BY DEF TypeOK, Refuse, Goto, Unlocked, LoginHoldsRow
<1>3. FoundIsStillSo'
  BY DEF TypeOK, Refuse, Goto, FoundIsStillSo
<1>4. SessionFollowsLogin' /\ TokensAreOfSessions' /\ CodesBelowCeiling'
  BY DEF TypeOK, Refuse, Goto, SessionFollowsLogin, TokensAreOfSessions, CodesBelowCeiling,
         family, reset
<1>5. NoSessionOnRevokedDevice' /\ ReplayRevokes'
  BY DEF NoSessionOnRevokedDevice, ReplayRevokes, Live, family
<1> QED BY <1>1, <1>2, <1>3, <1>4, <1>5

\* The statements of the login transaction.
LEMMA LoginKeepsInv ==
    ASSUME IInv, NEW l \in Logins, LoginStep(l)
    PROVE  IInv'
<1> USE SessionsAssumption
<1>1. ASSUME Login(l) PROVE IInv'
  <2>1. CASE account = "closed"
    BY <1>1, <2>1, RefuseKeepsInv DEF Login
  <2>2. CASE account # "closed"
    <3> USE <1>1, <2>2 DEF IInv, Login, Goto
    <3>1. TypeOK'
      BY DEF TypeOK, family, reset
    <3>2. LoginHoldsRow' /\ FoundIsStillSo'
      BY DEF TypeOK, LoginHoldsRow, FoundIsStillSo
    <3>3. SessionFollowsLogin' /\ TokensAreOfSessions' /\ CodesBelowCeiling'
      BY DEF TypeOK, SessionFollowsLogin, TokensAreOfSessions, CodesBelowCeiling, family, reset
    <3>4. NoSessionOnRevokedDevice' /\ ReplayRevokes'
      BY DEF NoSessionOnRevokedDevice, ReplayRevokes, Live, family
    <3> QED BY <3>1, <3>2, <3>3, <3>4
  <2> QED BY <2>1, <2>2
<1>2. ASSUME FindDevice(l) PROVE IInv'
  <2>1. CASE device[on[l]] = "revoked"
    BY <1>2, <2>1, RefuseKeepsInv DEF FindDevice
  <2>2. CASE device[on[l]] # "revoked"
    <3> USE <1>2, <2>2 DEF IInv, FindDevice, Goto
    <3>1. TypeOK'
      BY DEF TypeOK, family, reset
    <3>2. LoginHoldsRow' /\ FoundIsStillSo'
      BY DEF TypeOK, LoginHoldsRow, FoundIsStillSo
    <3>3. SessionFollowsLogin' /\ TokensAreOfSessions' /\ CodesBelowCeiling'
      BY DEF TypeOK, SessionFollowsLogin, TokensAreOfSessions, CodesBelowCeiling, family, reset
    <3>4. NoSessionOnRevokedDevice' /\ ReplayRevokes'
      BY DEF NoSessionOnRevokedDevice, ReplayRevokes, Live, family
    <3> QED BY <3>1, <3>2, <3>3, <3>4
  <2> QED BY <2>1, <2>2
<1>3. ASSUME TouchDevice(l) PROVE IInv'
  <2>1. CASE seen[l] = "absent" /\ device[on[l]] # "absent"
    BY <1>3, <2>1, RefuseKeepsInv DEF TouchDevice
  <2>2. CASE ~(seen[l] = "absent" /\ device[on[l]] # "absent")
    <3> USE <1>3, <2>2 DEF IInv, TouchDevice, Goto
    <3>1. TypeOK'
      BY DEF TypeOK, family, reset
    <3>2. LoginHoldsRow' /\ FoundIsStillSo'
      BY DEF TypeOK, LoginHoldsRow, FoundIsStillSo
    <3>3. SessionFollowsLogin' /\ TokensAreOfSessions' /\ CodesBelowCeiling'
      BY DEF TypeOK, SessionFollowsLogin, TokensAreOfSessions, CodesBelowCeiling, family, reset
    <3>4. NoSessionOnRevokedDevice' /\ ReplayRevokes'
      BY DEF NoSessionOnRevokedDevice, ReplayRevokes, Live, family
    <3> QED BY <3>1, <3>2, <3>3, <3>4
  <2> QED BY <2>1, <2>2
<1>4. ASSUME OpenSession(l) PROVE IInv'
  <2>1. CASE ~(seen[l] = "absent" \/ device[on[l]] = "active")
    BY <1>4, <2>1, RefuseKeepsInv DEF OpenSession
  <2>2. CASE seen[l] = "absent" \/ device[on[l]] = "active"
    <3> USE <1>4, <2>2 DEF IInv, OpenSession, Goto
    <3>1. TypeOK'
      BY DEF TypeOK, family, reset
    <3>2. LoginHoldsRow' /\ FoundIsStillSo'
      BY DEF TypeOK, LoginHoldsRow, FoundIsStillSo
    <3>3. SessionFollowsLogin' /\ TokensAreOfSessions' /\ CodesBelowCeiling'
      BY DEF TypeOK, SessionFollowsLogin, TokensAreOfSessions, CodesBelowCeiling, family, reset
    <3>4. NoSessionOnRevokedDevice' /\ ReplayRevokes'
      BY DEF NoSessionOnRevokedDevice, ReplayRevokes, Live, family
    <3> QED BY <3>1, <3>2, <3>3, <3>4
  <2> QED BY <2>1, <2>2
<1>5. ASSUME LoginCommit(l) PROVE IInv'
  <2> USE <1>5 DEF IInv, LoginCommit, Goto
  <2>1. session[l] = "none" /\ ~replayed[l] /\ lock[on[l]] = l /\ device[on[l]] # "revoked"
    BY DEF TypeOK, SessionFollowsLogin, ReplayRevokes, Reasons, LoginHoldsRow, FoundIsStillSo
  <2>2. TypeOK'
    BY DEF TypeOK, Unlocked, reset
  <2>3. LoginHoldsRow'
    BY DEF TypeOK, Unlocked, LoginHoldsRow
  <2>4. FoundIsStillSo'
    BY DEF TypeOK, FoundIsStillSo, LoginHoldsRow
  <2>5. SessionFollowsLogin' /\ TokensAreOfSessions' /\ CodesBelowCeiling'
    BY DEF TypeOK, SessionFollowsLogin, TokensAreOfSessions, CodesBelowCeiling, reset
  <2>6. NoSessionOnRevokedDevice'
    BY <2>1 DEF TypeOK, NoSessionOnRevokedDevice, Live
  <2>7. ReplayRevokes'
    BY <2>1 DEF TypeOK, ReplayRevokes
  <2> QED BY <2>2, <2>3, <2>4, <2>5, <2>6, <2>7
<1>6. ASSUME LoginFails(l) PROVE IInv'
  BY <1>6, RefuseKeepsInv DEF LoginFails
<1> QED BY <1>1, <1>2, <1>3, <1>4, <1>5, <1>6 DEF LoginStep

\* Presenting, rotating and logging out: what leaves devices and logins alone and
\* takes sessions only from "live" to a reason.
LEMMA TokenKeepsInv ==
    ASSUME IInv, NEW h \in Holders, PresentToken(h) \/ Rotate(h)
    PROVE  IInv'
<1> USE SessionsAssumption
<1>1. ASSUME PresentToken(h) PROVE IInv'
  <2> USE <1>1 DEF IInv, PresentToken
  <2>1. PICK l \in Logins, g \in Generations :
          /\ session[l] # "none" /\ g <= generation[l]
          /\ hand' = [hand EXCEPT ![h] = [at |-> "lock", of |-> l, token |-> g,
                                          consumed |-> g < generation[l]]]
    OBVIOUS
  <2>2. hand' \in [Holders -> Hands]
    BY <2>1 DEF TypeOK, Hands, Generations
  <2>3. TypeOK'
    BY <2>2 DEF TypeOK, family, logins, reset
  <2>4. TokensAreOfSessions'
    BY <2>1 DEF TypeOK, TokensAreOfSessions, family, Idle
  <2>5. LoginHoldsRow' /\ FoundIsStillSo' /\ SessionFollowsLogin' /\ CodesBelowCeiling'
    BY DEF LoginHoldsRow, FoundIsStillSo, SessionFollowsLogin, CodesBelowCeiling, family,
           logins, reset
  <2>6. NoSessionOnRevokedDevice' /\ ReplayRevokes'
    BY DEF NoSessionOnRevokedDevice, ReplayRevokes, Live, family, logins
  <2> QED BY <2>3, <2>4, <2>5, <2>6
<1>2. ASSUME Rotate(h) PROVE IInv'
  <2> DEFINE l == hand[h].of
             g == hand[h].token
  <2>1. /\ hand[h] # Idle /\ hand[h] \in Hands
        /\ RotateWith(h, Live(l), g < generation[l])
    BY <1>2 DEF Rotate, IInv, TypeOK
  <2>2. /\ l \in Logins /\ g \in Generations /\ session[l] # "none"
        /\ generation[l] \in Generations
    BY <2>1 DEF Hands, Idle, IInv, TypeOK, TokensAreOfSessions
  <2>3. /\ hand' = [hand EXCEPT ![h] = Idle]
        /\ replayed' = [replayed EXCEPT ![l] = replayed[l] \/ g < generation[l]]
        /\ UNCHANGED <<account, password, device, lock, logins, reset, sweep, order>>
    BY <2>1 DEF RotateWith
  <2>4. \/ (Live(l) => ~(g < generation[l])) /\ UNCHANGED <<session, generation>>
        \/ /\ Live(l) /\ g < generation[l] /\ session' = [session EXCEPT ![l] = "token_reuse"]
           /\ UNCHANGED generation
        \/ /\ Live(l) /\ ~(g < generation[l]) /\ g = generation[l] /\ g < MaxGeneration
           /\ generation' = [generation EXCEPT ![l] = g + 1] /\ UNCHANGED session
    BY <2>1 DEF RotateWith
  <2> HIDE DEF l, g
  <2> USE DEF IInv
  <2>5. /\ session' \in [Logins -> {"none", "live"} \cup Reasons]
        /\ generation' \in [Logins -> Generations]
    BY <2>2, <2>4 DEF TypeOK, Generations, Reasons
  <2>6. replayed' \in [Logins -> BOOLEAN] /\ hand' \in [Holders -> Hands]
    BY <2>2, <2>3 DEF TypeOK, Hands
  <2>7. TypeOK'
    BY <2>3, <2>5, <2>6 DEF TypeOK, logins, reset
  <2>8. /\ \A k \in Logins : session'[k] = "none" <=> session[k] = "none"
        /\ \A k \in Logins : session'[k] = "live" => session[k] = "live"
    BY <2>2, <2>4 DEF TypeOK
  <2>9. TokensAreOfSessions' /\ SessionFollowsLogin'
    <3>1. SessionFollowsLogin'
      BY <2>3, <2>8 DEF SessionFollowsLogin, logins
    <3>2. ASSUME NEW k \in Holders, hand'[k] # Idle
          PROVE  session'[hand'[k].of] # "none"
      <4>1. hand'[k] = hand[k] /\ hand[k] # Idle
        BY <2>3, <3>2 DEF TypeOK
      <4>2. hand[k].of \in Logins
        BY <4>1 DEF TypeOK, Hands
      <4> QED BY <4>1, <4>2, <2>8 DEF TokensAreOfSessions
    <3> QED BY <3>1, <3>2 DEF TokensAreOfSessions
  <2>10. LoginHoldsRow' /\ FoundIsStillSo' /\ CodesBelowCeiling'
    BY <2>3 DEF LoginHoldsRow, FoundIsStillSo, CodesBelowCeiling, logins, reset
  <2>11. NoSessionOnRevokedDevice'
    BY <2>3, <2>8 DEF NoSessionOnRevokedDevice, Live, logins
  <2>12. ReplayRevokes'
    <3> SUFFICES ASSUME NEW k \in Logins, replayed'[k] PROVE session'[k] \in Reasons
      BY DEF ReplayRevokes
    <3>1. CASE replayed[k]
      <4>1. session[k] \in Reasons
        BY <3>1 DEF ReplayRevokes
      <4>2. session[k] # "live"
        BY <4>1 DEF Reasons
      <4> QED BY <4>1, <4>2, <2>2, <2>4 DEF TypeOK, Live
    <3>2. CASE ~replayed[k]
      <4>1. k = l /\ g < generation[l]
        BY <3>2, <2>2, <2>3 DEF TypeOK
      <4>2. CASE Live(l)
        BY <4>1, <4>2, <2>2, <2>4 DEF TypeOK, Reasons
      <4>3. CASE ~Live(l)
        BY <4>1, <4>3, <2>2, <2>4 DEF TypeOK, Live
      <4> QED BY <4>2, <4>3
    <3> QED BY <3>1, <3>2
  <2> QED BY <2>7, <2>9, <2>10, <2>11, <2>12
<1> QED BY <1>1, <1>2

\* Revoking sessions: nobody's becomes live, and nobody's is forgotten.
LEMMA RevokeMoves ==
    ASSUME TypeOK, NEW S, NEW reason \in Reasons, Revoke(S, reason)
    PROVE  /\ session' \in [Logins -> {"none", "live"} \cup Reasons]
           /\ \A l \in Logins : session'[l] = "none" <=> session[l] = "none"
           /\ \A l \in Logins : session'[l] = "live" => session[l] = "live" /\ l \notin S
           /\ \A l \in Logins : session[l] \in Reasons => session'[l] = session[l]
BY DEF TypeOK, Revoke, Live, Reasons

\* Whatever ends sessions and leaves logins, tokens and devices alone.
LEMMA EndingKeepsInv ==
    ASSUME IInv, TypeOK',
           \A l \in Logins : session'[l] = "none" <=> session[l] = "none",
           \A l \in Logins : session'[l] = "live" => session[l] = "live",
           \A l \in Logins : session[l] \in Reasons => session'[l] = session[l],
           UNCHANGED <<device, lock, logins, generation, replayed, hand>>,
           CodesBelowCeiling'
    PROVE  IInv'
<1> USE DEF IInv
<1>1. LoginHoldsRow' /\ FoundIsStillSo' /\ SessionFollowsLogin' /\ NoSessionOnRevokedDevice'
  BY DEF LoginHoldsRow, FoundIsStillSo, SessionFollowsLogin, NoSessionOnRevokedDevice, Live, logins
<1>2. ReplayRevokes'
  BY DEF ReplayRevokes
<1>3. TokensAreOfSessions'
  BY DEF TypeOK, TokensAreOfSessions, Hands
<1> QED BY <1>1, <1>2, <1>3

\* Revoking devices whose rows nobody holds.
LEMMA RevokingDevicesKeepsInv ==
    ASSUME IInv, TypeOK', NEW D, \A d \in D : d \in Devices /\ lock[d] = Free,
           RevokeDevices(D),
           UNCHANGED <<lock, logins, generation, replayed, hand, code, attempts>>
    PROVE  IInv'
<1> USE SessionsAssumption DEF IInv
<1>1. Revoke({l \in Logins : on[l] \in D}, "device_revoked") /\ "device_revoked" \in Reasons
  BY DEF RevokeDevices, Reasons
<1>2. /\ \A l \in Logins : session'[l] = "none" <=> session[l] = "none"
      /\ \A l \in Logins : session'[l] = "live" => session[l] = "live" /\ on[l] \notin D
      /\ \A l \in Logins : session[l] \in Reasons => session'[l] = session[l]
  BY <1>1, RevokeMoves
<1>3. \A d \in Devices : d \notin D => device'[d] = device[d]
  BY DEF RevokeDevices
<1>4. \A l \in Logins : pc[l] \in {"open", "commit"} => on[l] \notin D
  BY DEF LoginHoldsRow
<1>5. LoginHoldsRow' /\ SessionFollowsLogin' /\ CodesBelowCeiling'
  BY <1>2 DEF LoginHoldsRow, SessionFollowsLogin, CodesBelowCeiling, logins
<1>6. FoundIsStillSo'
  BY <1>3, <1>4 DEF FoundIsStillSo, TypeOK, logins
<1>7. TokensAreOfSessions'
  BY <1>2 DEF TypeOK, TokensAreOfSessions, Hands
<1>8. NoSessionOnRevokedDevice'
  BY <1>2, <1>3 DEF TypeOK, NoSessionOnRevokedDevice, Live, logins
<1>9. ReplayRevokes'
  BY <1>2 DEF ReplayRevokes
<1> QED BY <1>5, <1>6, <1>7, <1>8, <1>9

\* Every step of the sessions keeps the invariant.
LEMMA NextKeepsInv == IInv /\ [Next]_vars => IInv'
<1> SUFFICES ASSUME IInv, [Next]_vars PROVE IInv'
  OBVIOUS
<1> USE SessionsAssumption
<1>1. ASSUME NEW l \in Logins, LoginStep(l) PROVE IInv'
  BY <1>1, LoginKeepsInv
<1>2. ASSUME NEW h \in Holders, PresentToken(h) \/ Rotate(h) PROVE IInv'
  BY <1>2, TokenKeepsInv
<1>3. ASSUME NEW l \in Logins, Logout(l) PROVE IInv'
  <2>1. Revoke({l}, "logout") /\ "logout" \in Reasons
    BY <1>3 DEF Logout, Reasons
  <2>2. TypeOK'
    BY <1>3, <2>1, RevokeMoves DEF Logout, IInv, TypeOK, logins, reset
  <2>3. CodesBelowCeiling'
    BY <1>3 DEF Logout, IInv, CodesBelowCeiling, reset
  <2> QED BY <1>3, <2>1, <2>2, <2>3, RevokeMoves, EndingKeepsInv DEF Logout, IInv
<1>4. ASSUME NEW d \in Devices, RevokeDevice(d) PROVE IInv'
  <2>1. RevokeDevices({d}) /\ "device_revoked" \in Reasons
    BY <1>4 DEF RevokeDevice, Reasons
  <2>2. TypeOK'
    <3>1. session' \in [Logins -> {"none", "live"} \cup Reasons]
      BY <2>1, RevokeMoves DEF RevokeDevices, IInv
    <3>2. device' \in [Devices -> {"absent", "active", "revoked"}]
      BY <2>1 DEF RevokeDevices, IInv, TypeOK
    <3> QED BY <1>4, <3>1, <3>2 DEF RevokeDevice, IInv, TypeOK, logins, reset
  <2> QED BY <1>4, <2>1, <2>2, RevokingDevicesKeepsInv DEF RevokeDevice, reset
<1>5. ASSUME NEW e \in Evictions, Evict(e) PROVE IInv'
  <2>1. sweep' \in [Evictions -> Sweeps]
    BY <1>5 DEF Evict, IInv, TypeOK, Sweeps
  <2>2. TypeOK'
    BY <1>5, <2>1 DEF Evict, IInv, TypeOK, family, logins, reset
  <2>3. CodesBelowCeiling'
    BY <1>5 DEF Evict, IInv, CodesBelowCeiling, reset
  <2> QED BY <1>5, <2>2, <2>3, EndingKeepsInv DEF Evict, family
<1>6. ASSUME NEW e \in Evictions, EvictFind(e) PROVE IInv'
  <2>1. sweep' \in [Evictions -> Sweeps]
    BY <1>6 DEF EvictFind, IInv, TypeOK, Sweeps, Idle
  <2>2. TypeOK'
    BY <1>6, <2>1 DEF EvictFind, IInv, TypeOK, family, logins, reset
  <2>3. CodesBelowCeiling'
    BY <1>6 DEF EvictFind, IInv, CodesBelowCeiling, reset
  <2> QED BY <1>6, <2>2, <2>3, EndingKeepsInv DEF EvictFind, family
<1>7. ASSUME NEW e \in Evictions, EvictCommit(e) PROVE IInv'
  <2> DEFINE D == sweep[e].found
  <2>1. /\ RevokeDevices(D) /\ "device_revoked" \in Reasons
        /\ \A d \in D : d \in Devices /\ lock[d] = Free
    BY <1>7 DEF EvictCommit, Reasons, IInv, TypeOK, Sweeps, Idle
  <2>2. /\ session' \in [Logins -> {"none", "live"} \cup Reasons]
        /\ device' \in [Devices -> {"absent", "active", "revoked"}]
    BY <2>1, RevokeMoves DEF RevokeDevices, IInv, TypeOK
  <2>3. /\ password' \in 0..MaxPassword /\ floor \in 0..password'
        /\ opened \in [Logins -> 0..password']
    BY <1>7 DEF EvictCommit, IInv, TypeOK
  <2>4. sweep' \in [Evictions -> Sweeps]
    BY <1>7 DEF EvictCommit, IInv, TypeOK, Sweeps
  <2>5. TypeOK'
    BY <1>7, <2>2, <2>3, <2>4 DEF EvictCommit, IInv, TypeOK, logins, reset
  <2> QED BY <1>7, <2>1, <2>5, RevokingDevicesKeepsInv DEF EvictCommit, reset
<1>8. ASSUME NEW c \in Codes, RequestReset(c) PROVE IInv'
  <2>1. TypeOK' /\ CodesBelowCeiling'
    BY <1>8 DEF RequestReset, IInv, TypeOK, CodesBelowCeiling, family, logins
  <2> QED BY <1>8, <2>1, EndingKeepsInv DEF RequestReset, family
<1>9. ASSUME NEW c \in Codes, Reset(c) PROVE IInv'
  <2>1. Revoke(Logins, "password_reset") /\ "password_reset" \in Reasons
    BY <1>9 DEF Reset, Reasons
  <2>2. /\ password' \in 0..MaxPassword /\ floor' \in 0..password'
        /\ opened \in [Logins -> 0..password']
    BY <1>9 DEF Reset, IInv, TypeOK
  <2>3. CodesBelowCeiling' /\ code' \in [Codes -> {"none", "live", "spent"}]
    BY <1>9 DEF Reset, IInv, CodesBelowCeiling, TypeOK
  <2>4. TypeOK'
    BY <1>9, <2>1, <2>2, <2>3, RevokeMoves DEF Reset, IInv, TypeOK, logins
  <2> QED BY <1>9, <2>1, <2>3, <2>4, RevokeMoves, EndingKeepsInv DEF Reset, IInv
<1>10. ASSUME WrongCode PROVE IInv'
  <2>1. TypeOK' /\ CodesBelowCeiling'
    BY <1>10 DEF WrongCode, Charged, IInv, TypeOK, CodesBelowCeiling, family, logins
  <2> QED BY <1>10, <2>1, EndingKeepsInv DEF WrongCode, family
<1>11. ASSUME NEW a \in Admins, NEW to \in Statuses, OrderStatus(a, to) PROVE IInv'
  <2>1. TypeOK'
    BY <1>11 DEF OrderStatus, IInv, TypeOK, family, logins, reset
  <2>2. CodesBelowCeiling'
    BY <1>11 DEF OrderStatus, IInv, CodesBelowCeiling, reset
  <2> QED BY <1>11, <2>1, <2>2, EndingKeepsInv DEF OrderStatus, family
<1>12. ASSUME NEW a \in Admins, SetStatus(a) PROVE IInv'
  <2>1. /\ session' \in [Logins -> {"none", "live"} \cup Reasons]
        /\ \A l \in Logins : session'[l] = "none" <=> session[l] = "none"
        /\ \A l \in Logins : session'[l] = "live" => session[l] = "live"
        /\ \A l \in Logins : session[l] \in Reasons => session'[l] = session[l]
    <3>1. CASE account' = "active"
      BY <1>12, <3>1 DEF SetStatus, IInv, TypeOK
    <3>2. CASE account' # "active"
      <4>1. Revoke(Logins, "admin") /\ "admin" \in Reasons
        BY <1>12, <3>2 DEF SetStatus, Reasons
      <4> QED BY <4>1, RevokeMoves DEF IInv
    <3> QED BY <3>1, <3>2
  <2>2. account' \in Statuses
    BY <1>12 DEF SetStatus, IInv, TypeOK, Idle
  <2>3. TypeOK'
    BY <1>12, <2>1, <2>2 DEF SetStatus, IInv, TypeOK, logins, reset
  <2>4. CodesBelowCeiling'
    BY <1>12 DEF SetStatus, IInv, CodesBelowCeiling, reset
  <2> QED BY <1>12, <2>1, <2>3, <2>4, EndingKeepsInv DEF SetStatus
<1>13. CASE UNCHANGED vars
  BY <1>13 DEF vars, IInv, TypeOK, LoginHoldsRow, FoundIsStillSo, SessionFollowsLogin,
               TokensAreOfSessions, CodesBelowCeiling, NoSessionOnRevokedDevice, ReplayRevokes,
               Live
<1> QED
  BY <1>1, <1>2, <1>3, <1>4, <1>5, <1>6, <1>7, <1>8, <1>9, <1>10, <1>11, <1>12, <1>13 DEF Next

\* The invariant holds in every state.
LEMMA SessionsInvariant == Spec => []IInv
BY InitHasInv, NextKeepsInv, PTL DEF Spec

\* Type correctness: no code is guessed at beyond its ceiling, and no session is
\* revoked without a reason.
THEOREM SessionTypes == Spec => []TypeOK
BY SessionsInvariant, PTL DEF IInv

\* However many logins are under way on however many devices when one is revoked,
\* no session is live on a revoked device (the row lock of #resolveDevice's UPDATE,
\* assert_session_device_valid and cascade_device_revocation together).
THEOREM RevokedDevicesAreOut == Spec => []NoSessionOnRevokedDevice
BY SessionsInvariant, PTL DEF IInv

\* However closely a token's holders present it, its second presentation costs the
\* family its session (rotate_refresh_token reads consumed_at again under the lock).
THEOREM ReplaysAreNoticed == Spec => []ReplayRevokes
BY SessionsInvariant, PTL DEF IInv

\* A revoked session keeps its reason and gets no further refresh token, whatever
\* was under way when it was revoked.
THEOREM RevocationsAreFinal == Spec => RevocationIsFinal
<1> DEFINE Final == \A l \in Logins : session[l] \in Reasons =>
                        session'[l] = session[l] /\ generation'[l] = generation[l]
<1>1. ASSUME IInv, [Next]_vars PROVE [Final]_vars
  <2> SUFFICES ASSUME NEW l \in Logins, session[l] \in Reasons
               PROVE  session'[l] = session[l] /\ generation'[l] = generation[l]
    OBVIOUS
  <2>0. session[l] # "live" /\ session[l] # "none" /\ TypeOK /\ pc[l] = "done"
    BY <1>1 DEF IInv, SessionFollowsLogin, Reasons
  <2>1. ASSUME NEW S, NEW reason, Revoke(S, reason) PROVE session'[l] = session[l]
    BY <2>0, <2>1 DEF Revoke, Live
  <2>2. ASSUME NEW k \in Logins, LoginStep(k)
        PROVE  session'[l] = session[l] /\ generation' = generation
    <3>1. CASE LoginCommit(k)
      BY <2>0, <3>1 DEF LoginCommit, TypeOK
    <3>2. CASE ~LoginCommit(k)
      BY <2>2, <3>2 DEF LoginStep, Login, FindDevice, TouchDevice, OpenSession, LoginFails, family
    <3> QED BY <3>1, <3>2
  <2>3. ASSUME NEW h \in Holders, PresentToken(h) \/ Rotate(h)
        PROVE  session'[l] = session[l] /\ generation'[l] = generation[l]
    <3>1. CASE PresentToken(h)
      BY <3>1 DEF PresentToken, family
    <3>2. CASE Rotate(h)
      <4>1. RotateWith(h, Live(hand[h].of), hand[h].token < generation[hand[h].of])
        BY <3>2 DEF Rotate
      <4>2. CASE Live(hand[h].of)
        <5>1. hand[h].of # l
          BY <4>2, <2>0 DEF Live
        <5> QED BY <4>1, <5>1, <2>0 DEF RotateWith, TypeOK
      <4>3. CASE ~Live(hand[h].of)
        BY <4>1, <4>3 DEF RotateWith
      <4> QED BY <4>2, <4>3
    <3> QED BY <2>3, <3>1, <3>2
  <2>4. ASSUME NEW k \in Logins, Logout(k)
        PROVE  session'[l] = session[l] /\ generation' = generation
    BY <2>1, <2>4 DEF Logout
  <2>5. ASSUME NEW d \in Devices, RevokeDevice(d)
        PROVE  session'[l] = session[l] /\ generation' = generation
    BY <2>1, <2>5 DEF RevokeDevice, RevokeDevices
  <2>6. ASSUME NEW e \in Evictions, Evict(e) \/ EvictFind(e) \/ EvictCommit(e)
        PROVE  session'[l] = session[l] /\ generation' = generation
    BY <2>1, <2>6 DEF Evict, EvictFind, EvictCommit, RevokeDevices, family
  <2>7. ASSUME NEW c \in Codes, RequestReset(c) \/ Reset(c)
        PROVE  session'[l] = session[l] /\ generation' = generation
    BY <2>1, <2>7 DEF RequestReset, Reset, family
  <2>8. ASSUME WrongCode PROVE session'[l] = session[l] /\ generation' = generation
    BY <2>8 DEF WrongCode, family
  <2>9. ASSUME NEW a \in Admins, SetStatus(a) \/ \E to \in Statuses : OrderStatus(a, to)
        PROVE  session'[l] = session[l] /\ generation' = generation
    BY <2>1, <2>9 DEF SetStatus, OrderStatus, family
  <2>10. CASE UNCHANGED vars
    BY <2>10 DEF vars
  <2> QED BY <1>1, <2>2, <2>3, <2>4, <2>5, <2>6, <2>7, <2>8, <2>9, <2>10 DEF Next
<1> QED BY <1>1, SessionsInvariant, PTL DEF Spec, RevocationIsFinal

-----------------------------------------------------------------------------
(****************************************************************************)
(* SessionClient, for any requests, pages and rotations.                      *)
(****************************************************************************)

FlightShape ==
    [at : {"air", "rotated", "refused", "error"}, kind : {"boot", "refresh"}, page : Pages,
     token : Tokens \cup {None}]

CallShape ==
    [at : {"boot", "ask", "refresh", "again", "read", "done"}, page : Pages,
     wait : Flights \cup {None}, retried : BOOLEAN]

Access == {"none", "fresh", "stale"}

OutShape ==
    [at : {"no", "clear", "logout"}, token : Access]
        \cup [at : {"answer", "reset", "done"}, token : Access \cup {"taken"}]
        \cup [at : {"boot"}, token : Access, wait : Flights]

ClientShape ==
    /\ cookie \in Tokens \cup {None}
    /\ newest \in Tokens
    /\ page \in Pages
    /\ memory \in [Pages -> Access]
    /\ latch \in [Pages -> Flights \cup {None}]
    /\ refresh = [p \in Pages |-> refresh[p]]
    /\ flight \in [Flights -> {Resting} \cup FlightShape]
    /\ call \in [Calls -> {Resting} \cup CallShape]
    /\ out \in OutShape

\* One exchange at a time.
OneInAir == \A x, y \in InAir : x = y

\* It is the page's own, carries the cookie, and holds the latch of its kind; one
\* that was rotated carries the token that replaces the cookie.
FlightFits ==
    \A x \in InAir :
        /\ flight[x].page = page
        /\ IF flight[x].at = "rotated" THEN flight[x].token = newest /\ cookie # None
           ELSE flight[x].token = cookie
        /\ IF flight[x].kind = "boot" THEN latch[page] = x /\ memory[page] = "none"
           ELSE refresh[page].at = "air"

\* But for an answer on its way, the cookie is the family's newest token.
CookieFits == (\A x \in InAir : flight[x].at # "rotated") => cookie \in {None, newest}

\* A refresh that is under way has a token to replace.
RefreshFits ==
    /\ \A p \in Pages \ {page} : refresh[p] = Resting
    /\ refresh[page].at \in {"send", "air"} => memory[page] # "none"
    /\ refresh[page].at = "send" => InAir = {}

\* Only requests of the page in use are under way.
CallsHere ==
    \A c \in Calls :
        call[c].at \in {"boot", "ask", "refresh", "again", "read"} => call[c].page = page

\* A sign-out that was told there is no token has left no cookie to exchange.
ClearKnows == out.at = "clear" /\ out.token = "none" => cookie = None

Calm ==
    /\ tokenFamily = "live" /\ OneInAir /\ FlightFits /\ CookieFits /\ RefreshFits /\ CallsHere
    /\ ClearKnows

\* Nothing was lost, and no sign-out has cleared the store yet.
Quiet == ~lost /\ out.at \in {"no", "boot", "clear"}

\* After the logout was answered the browser has no cookie, but for an exchange
\* answered since.
NoCookieLeft == out.at \in {"reset", "done"} /\ ~lost /\ ~raced => cookie = None

\* A logout that was taken ended the family.
TakenIsOver ==
    out.at \in {"answer", "reset", "done"} /\ out.token = "taken" => tokenFamily # "live"

ClientInv == ClientShape /\ (Quiet => Calm) /\ NoCookieLeft /\ TakenIsOver

-----------------------------------------------------------------------------
(* Types. *)

LEMMA SendTypes ==
    ASSUME ClientShape, NEW x \in Flights, NEW kind \in {"boot", "refresh"}, NEW p \in Pages,
           Send(x, kind, p)
    PROVE  flight' \in [Flights -> {Resting} \cup FlightShape]
<1>1. [at |-> "air", kind |-> kind, page |-> p, token |-> cookie] \in FlightShape
  BY DEF ClientShape, FlightShape
<1> QED BY <1>1 DEF Send, ClientShape

LEMMA JoinTypes ==
    ASSUME ClientShape, NEW x \in Flights, NEW p \in Pages, JoinBoot(p, x)
    PROVE  /\ flight' \in [Flights -> {Resting} \cup FlightShape]
           /\ latch' \in [Pages -> Flights \cup {None}]
<1>1. CASE latch[p] # None
  BY <1>1 DEF JoinBoot, ClientShape
<1>2. CASE latch[p] = None
  BY <1>2, SendTypes DEF JoinBoot, ClientShape
<1> QED BY <1>1, <1>2

LEMMA EndsTypes ==
    ASSUME ClientShape, NEW x \in Flights, NEW end, Ends(x, end)
    PROVE  /\ memory' \in [Pages -> Access]
           /\ latch' \in [Pages -> Flights \cup {None}]
           /\ refresh' = [p \in Pages |-> refresh'[p]]
           /\ call' \in [Calls -> {Resting} \cup CallShape]
           /\ out' \in OutShape
<1> DEFINE told == end = "rotated"
<1>1. memory' \in [Pages -> Access] /\ latch' \in [Pages -> Flights \cup {None}]
  BY DEF Ends, ClientShape, Access
<1>2. refresh' = [p \in Pages |-> refresh'[p]]
  BY DEF Ends, ClientShape
<1>3. CASE flight[x].kind = "boot"
  <2>1. AfterBoot(x, told)
    BY <1>3 DEF Ends
  <2>2. ASSUME NEW c \in Calls PROVE call'[c] \in {Resting} \cup CallShape
    BY <2>1 DEF AfterBoot, ClientShape, CallShape, Resting
  <2>3. call' \in [Calls -> {Resting} \cup CallShape]
    BY <2>1, <2>2 DEF AfterBoot
  <2>4. out' \in OutShape
    BY <2>1 DEF AfterBoot, ClientShape, OutShape, Access
  <2> QED BY <1>1, <1>2, <2>3, <2>4
<1>4. CASE flight[x].kind # "boot"
  <2>1. AfterRefresh(flight[x].page, told)
    BY <1>4 DEF Ends
  <2>2. ASSUME NEW c \in Calls PROVE call'[c] \in {Resting} \cup CallShape
    BY <2>1 DEF AfterRefresh, ClientShape, CallShape, Resting
  <2>3. call' \in [Calls -> {Resting} \cup CallShape]
    BY <2>1, <2>2 DEF AfterRefresh
  <2> QED BY <1>1, <1>2, <2>1, <2>3 DEF AfterRefresh, ClientShape
<1> QED BY <1>3, <1>4

LEMMA FlightStepTypes ==
    ASSUME ClientShape, NEW x \in Flights, FlightStep(x)
    PROVE  ClientShape'
<1> USE SessionClientAssumption
<1>1. CASE Handle(x)
  <2>1. flight[x] \in FlightShape
    BY <1>1 DEF Handle, ClientShape, Resting
  <2>2. newest' \in Tokens
    BY <1>1 DEF Handle, ClientShape, server, Tokens
  <2>3. flight' \in [Flights -> {Resting} \cup FlightShape]
    <3>1. CASE newest' = newest
      BY <1>1, <2>1, <2>2, <3>1 DEF Handle, ClientShape, FlightShape, server, Tokens
    <3>2. CASE newest' # newest
      <4>1. flight' = [flight EXCEPT ![x] = [@ EXCEPT !.at = "rotated", !.token = newest']]
        BY <1>1, <3>2 DEF Handle, server
      <4>2. [flight[x] EXCEPT !.at = "rotated", !.token = newest'] \in FlightShape
        BY <2>1, <2>2 DEF FlightShape
      <4> QED BY <4>1, <4>2 DEF ClientShape
    <3> QED BY <3>1, <3>2
  <2>4. UNCHANGED <<cookie, page, memory, latch, refresh, call, out>>
    BY <1>1 DEF Handle, client
  <2> QED BY <2>2, <2>3, <2>4 DEF ClientShape
<1>2. CASE Arrive(x)
  <2>1. flight[x] \in FlightShape
    BY <1>2 DEF Arrive, ClientShape, Resting
  <2>2. /\ Ends(x, flight[x].at)
        /\ cookie' \in {flight[x].token, cookie, None}
        /\ flight' = [flight EXCEPT ![x] = Resting]
        /\ UNCHANGED <<newest, page>>
    BY <1>2 DEF Arrive, server
  <2> QED BY <2>1, <2>2, EndsTypes DEF ClientShape, FlightShape
<1>3. CASE Lose(x)
  <2>1. flight' = [flight EXCEPT ![x] = Resting] /\ UNCHANGED <<cookie, newest, page>>
    BY <1>3 DEF Lose, server
  <2>2. CASE flight[x].page \in gone
    BY <1>3, <2>1, <2>2 DEF Lose, ClientShape, client
  <2>3. CASE Ends(x, "error")
    BY <2>1, <2>3, EndsTypes DEF ClientShape
  <2> QED BY <1>3, <2>2, <2>3 DEF Lose
<1> QED BY <1>1, <1>2, <1>3 DEF FlightStep

LEMMA RefreshStepTypes ==
    ASSUME ClientShape, NEW p \in Pages, RefreshStep(p)
    PROVE  ClientShape'
<1>1. CASE RefreshRead(p)
  <2>1. UNCHANGED <<cookie, newest, page, memory, call, out>>
    BY <1>1 DEF RefreshRead, server
  <2>2. refresh' = [q \in Pages |-> refresh'[q]]
    BY <1>1 DEF RefreshRead, ClientShape
  <2>3. /\ flight' \in [Flights -> {Resting} \cup FlightShape]
        /\ latch' \in [Pages -> Flights \cup {None}]
    <3>1. CASE UNCHANGED <<flight, latch>>
      BY <3>1 DEF ClientShape
    <3>2. CASE \E x \in Flights : JoinBoot(p, x)
      BY <3>2, JoinTypes
    <3> QED BY <1>1, <3>1, <3>2 DEF RefreshRead
  <2> QED BY <2>1, <2>2, <2>3 DEF ClientShape
<1>2. CASE RefreshSend(p)
  <2>1. PICK x \in Flights : Send(x, "refresh", p)
    BY <1>2 DEF RefreshSend
  <2>2. flight' \in [Flights -> {Resting} \cup FlightShape]
    BY <2>1, SendTypes
  <2> QED BY <1>2, <2>2 DEF RefreshSend, ClientShape, server
<1>3. CASE RefreshFails(p)
  <2>1. ASSUME NEW c \in Calls PROVE call'[c] \in {Resting} \cup CallShape
    BY <1>3 DEF RefreshFails, AfterRefresh, ClientShape, CallShape, Resting
  <2>2. call' \in [Calls -> {Resting} \cup CallShape]
    BY <1>3, <2>1 DEF RefreshFails, AfterRefresh
  <2> QED BY <1>3, <2>2 DEF RefreshFails, AfterRefresh, ClientShape, server
<1> QED BY <1>1, <1>2, <1>3 DEF RefreshStep

LEMMA CallStepTypes ==
    ASSUME ClientShape, NEW c \in Calls, CallStep(c)
    PROVE  ClientShape'
<1>1. CASE Read(c)
  <2> DEFINE p == IF call[c] = Resting THEN page ELSE call[c].page
  <2>1. p \in Pages
    BY DEF ClientShape, CallShape
  <2>2. UNCHANGED <<cookie, newest, page, memory, out>>
    BY <1>1 DEF Read, server
  <2>3. \E place \in {"ask", "refresh", "boot"}, x \in Flights \cup {None} :
           call' = [call EXCEPT ![c] = [at |-> place, page |-> p, wait |-> x,
                                        retried |-> call[c] # Resting]]
    BY <1>1 DEF Read
  <2>4. call' \in [Calls -> {Resting} \cup CallShape]
    BY <2>1, <2>3 DEF ClientShape, CallShape
  <2>5. refresh' = [q \in Pages |-> refresh'[q]]
    BY <1>1 DEF Read, JoinRefresh, ClientShape
  <2>6. /\ flight' \in [Flights -> {Resting} \cup FlightShape]
        /\ latch' \in [Pages -> Flights \cup {None}]
    <3>1. CASE UNCHANGED <<flight, latch>>
      BY <3>1 DEF ClientShape
    <3>2. CASE \E x \in Flights : JoinBoot(p, x)
      BY <2>1, <3>2, JoinTypes
    <3> QED BY <1>1, <3>1, <3>2 DEF Read
  <2> QED BY <2>2, <2>4, <2>5, <2>6 DEF ClientShape
<1>2. CASE Rejected(c) \/ Answered(c)
  <2>1. call[c] \in CallShape
    BY <1>2 DEF Rejected, Answered, ClientShape, Resting
  <2>2. /\ \E place \in {"done", "again"} : call' = [call EXCEPT ![c].at = place]
        /\ refresh' = [q \in Pages |-> refresh'[q]]
        /\ UNCHANGED <<cookie, newest, page, memory, latch, flight, out>>
    BY <1>2 DEF Rejected, Answered, Done, JoinRefresh, client, server, ClientShape
  <2>3. call' \in [Calls -> {Resting} \cup CallShape]
    BY <2>1, <2>2 DEF ClientShape, CallShape
  <2> QED BY <2>2, <2>3 DEF ClientShape
<1> QED BY <1>1, <1>2 DEF CallStep

LEMMA StepTypes ==
    ASSUME ClientShape, [ClientNext]_clientVars
    PROVE  ClientShape'
<1> USE SessionClientAssumption
<1>1. CASE Expire
  BY <1>1 DEF Expire, ClientShape, Access, server
<1>2. CASE SignOutStep
  <2>1. CASE SignOut
    <3>1. CASE UNCHANGED <<flight, latch>> /\ out' = [at |-> "clear", token |-> memory[page]]
      BY <2>1, <3>1 DEF SignOut, ClientShape, OutShape, server
    <3>2. CASE \E x \in Flights :
                 JoinBoot(page, x) /\ out' = [at |-> "boot", token |-> "none", wait |-> x]
      <4>1. PICK x \in Flights :
               JoinBoot(page, x) /\ out' = [at |-> "boot", token |-> "none", wait |-> x]
        BY <3>2
      <4>2. /\ flight' \in [Flights -> {Resting} \cup FlightShape]
            /\ latch' \in [Pages -> Flights \cup {None}]
        BY <4>1, JoinTypes DEF ClientShape
      <4> QED BY <2>1, <4>1, <4>2 DEF SignOut, ClientShape, OutShape, Access, server
    <3> QED BY <2>1, <3>1, <3>2 DEF SignOut
  <2>2. CASE Clear
    BY <2>2 DEF Clear, ClientShape, OutShape, Access, server
  <2>3. CASE AskLogout \/ LoggedOut \/ LogoutLost
    BY <2>3 DEF AskLogout, LoggedOut, LogoutLost, ClientShape, OutShape, client, server
  <2>4. CASE ResetXetral
    <3>1. page' \in Pages
      BY <2>4 DEF ResetXetral, ClientShape, Pages
    <3>2. out' \in OutShape
      BY <2>4 DEF ResetXetral, ClientShape, OutShape
    <3> QED BY <2>4, <3>1, <3>2 DEF ResetXetral, ClientShape, client, server
  <2> QED BY <1>2, <2>1, <2>2, <2>3, <2>4 DEF SignOutStep
<1>3. CASE Reload
  <2>1. ASSUME NEW c \in Calls PROVE call'[c] \in {Resting} \cup CallShape
    BY <1>3 DEF Reload, ClientShape, CallShape
  <2>2. call' \in [Calls -> {Resting} \cup CallShape]
    BY <1>3, <2>1 DEF Reload
  <2> QED BY <1>3, <2>2 DEF Reload, ClientShape, server, Pages
<1>4. CASE UNCHANGED clientVars
  BY <1>4 DEF clientVars, ClientShape
<1> QED
  BY <1>1, <1>2, <1>3, <1>4, FlightStepTypes, RefreshStepTypes, CallStepTypes DEF ClientNext

-----------------------------------------------------------------------------
(* While nothing is lost and nobody has signed out. *)

\* An exchange in the air answers the only one there is.
LEMMA TheFlight ==
    ASSUME ClientShape, Calm, NEW x \in Flights, flight[x].at # "idle"
    PROVE  /\ InAir = {x} /\ flight[x] \in FlightShape /\ flight[x].page = page
           /\ IF flight[x].at = "rotated" THEN flight[x].token = newest /\ cookie # None
              ELSE flight[x].token = cookie /\ cookie \in {None, newest}
           /\ IF flight[x].kind = "boot" THEN latch[page] = x /\ memory[page] = "none"
              ELSE refresh[page].at = "air"
<1>1. flight[x] \in FlightShape
  BY DEF ClientShape, Resting
<1>2. x \in InAir
  BY DEF InAir, Resting
<1>3. InAir = {x}
  BY <1>2 DEF Calm, OneInAir
<1>4. flight[x].at # "rotated" => cookie \in {None, newest}
  BY <1>3 DEF Calm, CookieFits
<1> QED BY <1>1, <1>2, <1>3, <1>4 DEF Calm, FlightFits

LEMMA HandleKeeps ==
    ASSUME ClientShape, Calm, NEW x \in Flights, Handle(x)
    PROVE  Calm'
<1> USE SessionClientAssumption
<1>1. flight[x].at = "air"
  BY DEF Handle
<1>2. /\ InAir = {x} /\ flight[x] \in FlightShape /\ flight[x].page = page
      /\ flight[x].token = cookie /\ cookie \in {None, newest}
      /\ IF flight[x].kind = "boot" THEN latch[page] = x /\ memory[page] = "none"
         ELSE refresh[page].at = "air"
  BY <1>1, TheFlight
<1>3. UNCHANGED <<cookie, page, memory, latch, refresh, call, out>>
  BY DEF Handle, client
<1>4. tokenFamily' = "live"
  BY <1>2 DEF Handle, server, Calm
<1>5. PICK a \in {"rotated", "refused", "error"} :
         /\ flight' = [flight EXCEPT ![x] = [flight[x] EXCEPT !.at = a, !.token =
                                                 IF a = "rotated" THEN newest' ELSE cookie]]
         /\ a = "rotated" => cookie # None
         /\ a # "rotated" => newest' = newest
  <2>1. \A a : [flight[x] EXCEPT !.at = a, !.token = cookie] = [flight[x] EXCEPT !.at = a]
    BY <1>2 DEF FlightShape
  <2> QED BY <1>2, <2>1 DEF Handle, server
<1>6. /\ flight'[x].at = a /\ flight'[x].page = page /\ flight'[x].kind = flight[x].kind
      /\ flight'[x].token = IF a = "rotated" THEN newest' ELSE cookie
      /\ \A y \in Flights : y # x => flight'[y] = flight[y]
  BY <1>2, <1>5 DEF ClientShape, FlightShape
<1>7. InAir' = {x}
  <2>1. flight'[x] # Resting
    BY <1>6 DEF Resting
  <2>2. \A y \in Flights : y # x => flight'[y] = Resting
    BY <1>2, <1>6 DEF InAir
  <2> QED BY <2>1, <2>2 DEF InAir
<1>8. OneInAir' /\ FlightFits' /\ CookieFits'
  BY <1>2, <1>3, <1>5, <1>6, <1>7 DEF OneInAir, FlightFits, CookieFits
<1>9. RefreshFits'
  BY <1>1, <1>2, <1>3, <1>7 DEF Calm, RefreshFits
<1>10. CallsHere' /\ ClearKnows'
  BY <1>3 DEF Calm, CallsHere, ClearKnows
<1> QED BY <1>4, <1>8, <1>9, <1>10 DEF Calm

LEMMA ArriveKeeps ==
    ASSUME ClientShape, Calm, NEW x \in Flights, Arrive(x)
    PROVE  Calm'
<1> DEFINE end == flight[x].at
           told == end = "rotated"
<1>1. end \in {"rotated", "refused", "error"}
  BY DEF Arrive
<1>2. /\ InAir = {x} /\ flight[x] \in FlightShape /\ flight[x].page = page
      /\ IF told THEN flight[x].token = newest /\ cookie # None
         ELSE flight[x].token = cookie /\ cookie \in {None, newest}
      /\ IF flight[x].kind = "boot" THEN latch[page] = x /\ memory[page] = "none"
         ELSE refresh[page].at = "air"
  BY <1>1, TheFlight
<1>3. UNCHANGED <<newest, tokenFamily, page>> /\ flight' = [flight EXCEPT ![x] = Resting]
  BY DEF Arrive, server
<1>4. InAir' = {}
  BY <1>2, <1>3 DEF InAir, ClientShape
<1>5. cookie' = IF told THEN newest ELSE None
  BY <1>2 DEF Arrive
<1>6. Ends(x, end)
  BY DEF Arrive
<1>7. memory'[page] = IF told THEN "fresh" ELSE IF flight[x].kind = "refresh" /\ end = "refused"
                                               THEN "none" ELSE memory[page]
  BY <1>2, <1>6 DEF Ends, ClientShape
<1>8. RefreshFits'
  <2>1. \A p \in Pages : p # page => refresh'[p] = Resting
    BY <1>2, <1>6 DEF Ends, ClientShape, Calm, RefreshFits
  <2>2. refresh'[page].at \in {"send", "air"} => memory'[page] # "none"
    <3>1. CASE flight[x].kind = "boot"
      <4>1. refresh[page].at \notin {"send", "air"}
        BY <1>2, <3>1 DEF Calm, RefreshFits
      <4>2. refresh'[page] = RefreshAfterBoot(page, x, told)
        BY <1>2, <1>6, <3>1 DEF Ends, ClientShape
      <4> QED BY <1>7, <4>1, <4>2 DEF RefreshAfterBoot
    <3>2. CASE flight[x].kind # "boot"
      BY <1>2, <1>6, <3>2 DEF Ends, ClientShape, Resting
    <3> QED BY <3>1, <3>2
  <2> QED BY <1>3, <1>4, <2>1, <2>2 DEF RefreshFits
<1>9. CallsHere'
  <2>1. \A c \in Calls :
           /\ call'[c].at \in {"boot", "ask", "refresh", "again", "read"}
           => /\ call[c].at \in {"boot", "ask", "refresh", "again", "read"}
              /\ call'[c].page = call[c].page
    <3>1. CASE flight[x].kind = "boot"
      BY <1>6, <3>1 DEF Ends, AfterBoot, ClientShape, CallShape, Resting
    <3>2. CASE flight[x].kind # "boot"
      BY <1>6, <3>2 DEF Ends, AfterRefresh, ClientShape, CallShape, Resting
    <3> QED BY <3>1, <3>2
  <2> QED BY <1>3, <2>1 DEF Calm, CallsHere
<1>10. ClearKnows'
  <2>1. out' = out \/ (out' = [at |-> "clear", token |-> IF told THEN "fresh" ELSE "none"])
    BY <1>6 DEF Ends, AfterBoot, AfterRefresh
  <2> QED BY <1>2, <1>5, <2>1 DEF Calm, ClearKnows
<1>11. OneInAir' /\ FlightFits' /\ CookieFits'
  BY <1>3, <1>4, <1>5 DEF OneInAir, FlightFits, CookieFits
<1> QED BY <1>3, <1>8, <1>9, <1>10, <1>11 DEF Calm

\* A new exchange is the only one, and carries the cookie.
LEMMA SendKeeps ==
    ASSUME ClientShape, Calm, InAir = {}, NEW x \in Flights,
           NEW kind \in {"boot", "refresh"}, Send(x, kind, page),
           UNCHANGED <<cookie, newest, page>>,
           IF kind = "boot" THEN latch'[page] = x /\ memory'[page] = "none"
           ELSE refresh'[page].at = "air"
    PROVE  InAir' = {x} /\ OneInAir' /\ FlightFits' /\ CookieFits'
<1> USE SessionClientAssumption
<1>1. flight' = [flight EXCEPT ![x] = [at |-> "air", kind |-> kind, page |-> page,
                                       token |-> cookie]]
  BY DEF Send
<1>2. InAir' = {x}
  BY <1>1 DEF InAir, Resting, ClientShape
<1>3. flight'[x] = [at |-> "air", kind |-> kind, page |-> page, token |-> cookie]
  BY <1>1 DEF ClientShape
<1> QED BY <1>2, <1>3 DEF Calm, OneInAir, FlightFits, CookieFits

\* Joining a boot, with nothing in memory and no rotation in the air.
LEMMA JoinKeeps ==
    ASSUME ClientShape, Calm,
           NEW x \in Flights, JoinBoot(page, x),
           memory[page] = "none", UNCHANGED <<cookie, newest, page, memory>>
    PROVE  OneInAir' /\ FlightFits' /\ CookieFits'
<1> USE SessionClientAssumption
<1>1. \A y \in InAir : flight[y].kind = "boot" /\ latch[page] = y /\ flight[y].page = page
  BY DEF Calm, FlightFits, RefreshFits
<1>2. CASE latch[page] # None
  <2>1. UNCHANGED <<flight, latch>> /\ InAir' = InAir
    BY <1>2 DEF JoinBoot, InAir
  <2>2. FlightFits'
    BY <1>1, <2>1 DEF Calm, FlightFits
  <2> QED BY <2>1, <2>2 DEF Calm, OneInAir, CookieFits
<1>3. CASE latch[page] = None
  <2>1. InAir = {}
    BY <1>1, <1>3 DEF InAir
  <2>2. Send(x, "boot", page) /\ latch'[page] = x
    BY <1>3 DEF JoinBoot, ClientShape
  <2> QED BY <2>1, <2>2, SendKeeps
<1> QED BY <1>2, <1>3

LEMMA RefreshStepKeeps ==
    ASSUME ClientShape, Calm,
           NEW p \in Pages, RefreshStep(p)
    PROVE  Calm'
<1> USE SessionClientAssumption
<1>1. p = page /\ refresh[page].at \in {"read", "send", "failed"}
  <2>1. refresh[p].at \in {"read", "send", "failed"}
    BY DEF RefreshStep, RefreshRead, RefreshSend, RefreshFails
  <2>2. refresh[p] # Resting
    BY <2>1 DEF Resting
  <2> QED BY <2>1, <2>2 DEF Calm, RefreshFits
<1>2. CASE RefreshRead(p)
  <2>1. /\ refresh[page].at = "read"
        /\ UNCHANGED <<cookie, newest, tokenFamily, page, memory, call, out>>
    BY <1>1, <1>2 DEF RefreshRead, server
  <2>2. CallsHere' /\ ClearKnows'
    BY <2>1 DEF Calm, CallsHere, ClearKnows
  <2>3. CASE memory[page] # "none"
    <3>1. InAir = {}
      BY <2>1, <2>3 DEF Calm, FlightFits
    <3>2. refresh' = [refresh EXCEPT ![page] = [at |-> "send"]] /\ UNCHANGED <<flight, latch>>
      BY <1>1, <1>2, <2>3 DEF RefreshRead
    <3>3. InAir' = {}
      BY <3>1, <3>2 DEF InAir
    <3>4. RefreshFits'
      BY <2>1, <2>3, <3>2, <3>3 DEF Calm, RefreshFits, ClientShape
    <3> QED
      BY <2>1, <2>2, <3>1, <3>3, <3>4 DEF Calm, OneInAir, FlightFits, CookieFits
  <2>4. CASE memory[page] = "none"
    <3>1. PICK x \in Flights :
             /\ JoinBoot(page, x)
             /\ refresh' = [refresh EXCEPT ![page] = [at |-> "boot", wait |-> x]]
      BY <1>1, <1>2, <2>4 DEF RefreshRead
    <3>2. OneInAir' /\ FlightFits' /\ CookieFits'
      BY <2>1, <2>4, <3>1, JoinKeeps
    <3>3. RefreshFits'
      BY <2>1, <3>1 DEF Calm, RefreshFits, ClientShape
    <3> QED BY <2>1, <2>2, <3>2, <3>3 DEF Calm
  <2> QED BY <2>3, <2>4
<1>3. CASE RefreshSend(p)
  <2>1. /\ refresh[page].at = "send" /\ refresh' = [refresh EXCEPT ![page] = [at |-> "air"]]
        /\ UNCHANGED <<cookie, newest, tokenFamily, page, memory, call, out>>
    BY <1>1, <1>3 DEF RefreshSend, server
  <2>2. PICK x \in Flights : Send(x, "refresh", page)
    BY <1>1, <1>3 DEF RefreshSend
  <2>3. refresh'[page].at = "air" /\ \A q \in Pages : q # page => refresh'[q] = refresh[q]
    BY <2>1 DEF ClientShape
  <2>4. InAir' = {x} /\ OneInAir' /\ FlightFits' /\ CookieFits'
    <3>1. InAir = {}
      BY <2>1 DEF Calm, RefreshFits
    <3> QED BY <2>1, <2>2, <2>3, <3>1, SendKeeps
  <2>5. RefreshFits'
    BY <2>1, <2>3 DEF Calm, RefreshFits
  <2> QED BY <2>1, <2>4, <2>5 DEF Calm, CallsHere, ClearKnows
<1>4. CASE RefreshFails(p)
  <2>1. /\ refresh[page].at = "failed" /\ refresh' = [refresh EXCEPT ![page] = Resting]
        /\ UNCHANGED <<cookie, newest, tokenFamily, page, memory, latch, flight, out>>
        /\ InAir' = InAir
    BY <1>1, <1>4 DEF RefreshFails, AfterRefresh, server, InAir
  <2>2. RefreshFits'
    BY <2>1 DEF Calm, RefreshFits, ClientShape, Resting
  <2>3. \A c \in Calls :
           /\ call'[c].at \in {"boot", "ask", "refresh", "again", "read"}
           => /\ call[c].at \in {"boot", "ask", "refresh", "again", "read"}
              /\ call'[c].page = call[c].page
    BY <1>4 DEF RefreshFails, AfterRefresh, ClientShape, CallShape, Resting
  <2>4. CallsHere' /\ ClearKnows'
    BY <2>1, <2>3 DEF Calm, CallsHere, ClearKnows
  <2>5. FlightFits'
    BY <2>1 DEF Calm, FlightFits
  <2> QED BY <2>1, <2>2, <2>4, <2>5 DEF Calm, OneInAir, CookieFits
<1> QED BY <1>2, <1>3, <1>4 DEF RefreshStep

LEMMA CallStepKeeps ==
    ASSUME ClientShape, Calm, NEW c \in Calls, CallStep(c)
    PROVE  Calm'
<1> USE SessionClientAssumption
<1>1. UNCHANGED <<cookie, newest, tokenFamily, page, memory, out>>
  BY DEF CallStep, Read, Rejected, Answered, server, client
<1>2. ClearKnows'
  BY <1>1 DEF Calm, ClearKnows
<1>3. CASE /\ UNCHANGED <<flight, latch>> /\ CallsHere'
           /\ (UNCHANGED refresh \/ JoinRefresh(page))
  <2>1. \/ UNCHANGED refresh
        \/ refresh[page] = Resting /\ refresh' = [refresh EXCEPT ![page] = [at |-> "read"]]
    BY <1>3 DEF JoinRefresh
  <2>2. InAir' = InAir
    BY <1>3 DEF InAir
  <2>3. RefreshFits'
    BY <1>1, <2>1, <2>2 DEF Calm, RefreshFits, ClientShape, Resting
  <2>4. FlightFits'
    BY <1>1, <1>3, <2>1, <2>2 DEF Calm, FlightFits, ClientShape, Resting
  <2> QED BY <1>1, <1>2, <1>3, <2>2, <2>3, <2>4 DEF Calm, OneInAir, CookieFits
<1>4. CASE Rejected(c) \/ Answered(c)
  <2>1. call[c] \in CallShape /\ call[c].at = "ask" /\ call[c].page = page
    BY <1>4 DEF Rejected, Answered, ClientShape, Resting, Calm, CallsHere
  <2>2. \E place \in {"done", "again"} : call' = [call EXCEPT ![c].at = place]
    BY <1>4 DEF Rejected, Answered, Done
  <2>3. CallsHere'
    BY <1>1, <2>1, <2>2 DEF Calm, CallsHere, ClientShape, CallShape
  <2> QED BY <1>3, <1>4, <2>1, <2>3 DEF Rejected, Answered, client
<1>5. CASE Read(c)
  <2> DEFINE p == IF call[c] = Resting THEN page ELSE call[c].page
  <2>1. p = page
    BY <1>5 DEF Read, ClientShape, CallShape, Calm, CallsHere
  <2>2. \E place \in {"ask", "refresh", "boot"}, x \in Flights \cup {None} :
           call' = [call EXCEPT ![c] = [at |-> place, page |-> page, wait |-> x,
                                        retried |-> call[c] # Resting]]
    BY <1>5, <2>1 DEF Read
  <2>3. CallsHere'
    BY <1>1, <2>2 DEF Calm, CallsHere, ClientShape
  <2>4. CASE memory[page] = "none"
    <3>1. PICK x \in Flights : JoinBoot(page, x)
      BY <1>5, <2>1, <2>4 DEF Read
    <3>2. OneInAir' /\ FlightFits' /\ CookieFits'
      BY <1>1, <2>4, <3>1, JoinKeeps
    <3>3. UNCHANGED refresh
      BY <1>5, <2>1, <2>4 DEF Read
    <3>4. RefreshFits'
      BY <1>1, <2>4, <3>3 DEF Calm, RefreshFits
    <3> QED BY <1>1, <1>2, <2>3, <3>2, <3>4 DEF Calm
  <2> QED BY <1>3, <1>5, <2>1, <2>3, <2>4 DEF Read
<1> QED BY <1>4, <1>5 DEF CallStep

\* Where a sign-out goes.
LEMMA SignOutGoes ==
    ASSUME ClientShape
    PROVE  /\ SignOut => out.at = "no"
           /\ Clear => out.at = "clear" /\ out'.at \in {"logout", "reset"}
                       /\ out'.token # "taken"
           /\ AskLogout => out.at = "logout" /\ out'.at = "answer"
           /\ LoggedOut => out'.at = "reset" /\ out'.token = out.token
           /\ LogoutLost => out'.at = "reset" /\ out'.token = out.token
           /\ ResetXetral => out.at = "reset" /\ out'.at = "done" /\ out'.token = out.token
<1>1. SignOut => out.at = "no"
  BY DEF SignOut
<1>2. ASSUME Clear
      PROVE  out.at = "clear" /\ out'.at \in {"logout", "reset"} /\ out'.token # "taken"
  <2>1. out \in [at : {"no", "clear", "logout"}, token : Access]
    BY <1>2 DEF Clear, ClientShape, OutShape
  <2> QED BY <1>2, <2>1 DEF Clear, Access
<1>3. ASSUME AskLogout PROVE out.at = "logout" /\ out'.at = "answer"
  <2>1. out \in [at : {"no", "clear", "logout"}, token : Access]
    BY <1>3 DEF AskLogout, ClientShape, OutShape
  <2> QED BY <1>3, <2>1 DEF AskLogout
<1>4. ASSUME LoggedOut PROVE out'.at = "reset" /\ out'.token = out.token
  BY <1>4 DEF LoggedOut, ClientShape, OutShape
<1>5. ASSUME LogoutLost PROVE out'.at = "reset" /\ out'.token = out.token
  BY <1>5 DEF LogoutLost, ClientShape, OutShape
<1>6. ASSUME ResetXetral
      PROVE  out.at = "reset" /\ out'.at = "done" /\ out'.token = out.token
  BY <1>6 DEF ResetXetral, ClientShape, OutShape
<1> QED BY <1>1, <1>2, <1>3, <1>4, <1>5, <1>6

\* Loss, and a sign-out that has cleared the store, are for good.
LEMMA QuietWas ==
    ASSUME ClientShape, [ClientNext]_clientVars, Quiet'
    PROVE  Quiet
<1>1. CASE \E x \in Flights : FlightStep(x)
  <2>1. PICK x \in Flights : FlightStep(x)
    BY <1>1
  <2>3. out' = out \/ out.at = "boot"
    BY <2>1 DEF FlightStep, Handle, Arrive, Lose, Ends, AfterBoot, AfterRefresh, client
  <2>4. lost => lost'
    BY <2>1 DEF FlightStep, Handle, Arrive, Lose
  <2> QED BY <2>3, <2>4 DEF Quiet
<1>2. CASE \E p \in Pages : RefreshStep(p)
  BY <1>2 DEF RefreshStep, RefreshRead, RefreshSend, RefreshFails, AfterRefresh, Quiet
<1>3. CASE \E c \in Calls : CallStep(c)
  BY <1>3 DEF CallStep, Read, Rejected, Answered, Quiet
<1>4. CASE Expire \/ Reload
  <2>1. out' = out /\ (lost => lost')
    <3>1. CASE Expire
      BY <3>1 DEF Expire
    <3>2. CASE Reload
      <4>1. out' = out
        BY <3>2 DEF Reload
      <4>2. lost => lost'
        BY <3>2, Zenon DEF Reload
      <4> QED BY <4>1, <4>2
    <3> QED BY <1>4, <3>1, <3>2
  <2> QED BY <2>1 DEF Quiet
<1>5. CASE SignOutStep
  <2>1. out'.at \in {"no", "boot", "clear"}
    BY DEF Quiet
  <2>2. SignOut
    BY <1>5, <2>1, SignOutGoes DEF SignOutStep
  <2> QED BY <2>2 DEF SignOut, Quiet
<1>6. CASE UNCHANGED clientVars
  BY <1>6 DEF clientVars, Quiet
<1> QED BY <1>1, <1>2, <1>3, <1>4, <1>5, <1>6 DEF ClientNext

LEMMA CalmStays ==
    ASSUME ClientShape, Calm, [ClientNext]_clientVars, Quiet'
    PROVE  Calm'
<1> USE SessionClientAssumption
<1>1. CASE \E x \in Flights : FlightStep(x)
  BY <1>1, HandleKeeps, ArriveKeeps DEF FlightStep, Lose, Quiet
<1>2. CASE \E p \in Pages : RefreshStep(p)
  BY <1>2, RefreshStepKeeps
<1>3. CASE \E c \in Calls : CallStep(c)
  BY <1>3, CallStepKeeps
<1>4. CASE Expire
  <2>1. /\ memory[page] = "fresh" /\ memory' = [memory EXCEPT ![page] = "stale"]
        /\ UNCHANGED <<cookie, newest, tokenFamily, page, refresh, flight, latch, call, out>>
    BY <1>4 DEF Expire, server
  <2>2. InAir' = InAir /\ memory'[page] = "stale"
    BY <2>1 DEF InAir, ClientShape
  <2>3. FlightFits' /\ RefreshFits'
    BY <2>1, <2>2 DEF Calm, FlightFits, RefreshFits
  <2> QED
    BY <2>1, <2>2, <2>3 DEF Calm, OneInAir, CookieFits, CallsHere, ClearKnows
<1>5. CASE SignOutStep
  <2>1. SignOut
    BY <1>5, SignOutGoes DEF SignOutStep, Quiet
  <2>2. UNCHANGED <<cookie, newest, tokenFamily, page, memory, refresh, call>>
    BY <2>1 DEF SignOut, server
  <2>3. CASE memory[page] # "none"
    <3>1. UNCHANGED <<flight, latch>> /\ out' = [at |-> "clear", token |-> memory[page]]
      BY <2>1, <2>3 DEF SignOut
    <3>2. InAir' = InAir
      BY <3>1 DEF InAir
    <3>3. FlightFits' /\ RefreshFits' /\ ClearKnows'
      BY <2>2, <2>3, <3>1, <3>2 DEF Calm, FlightFits, RefreshFits, ClearKnows
    <3> QED BY <2>2, <3>1, <3>2, <3>3 DEF Calm, OneInAir, CookieFits, CallsHere
  <2>4. CASE memory[page] = "none"
    <3>1. PICK x \in Flights :
             JoinBoot(page, x) /\ out' = [at |-> "boot", token |-> "none", wait |-> x]
      BY <2>1, <2>4 DEF SignOut
    <3>2. OneInAir' /\ FlightFits' /\ CookieFits'
      BY <2>2, <2>4, <3>1, JoinKeeps
    <3>3. RefreshFits' /\ ClearKnows'
      BY <2>2, <2>4, <3>1 DEF Calm, RefreshFits, ClearKnows
    <3> QED BY <2>2, <3>2, <3>3 DEF Calm, CallsHere
  <2> QED BY <2>3, <2>4
<1>6. CASE Reload
  <2>1. /\ InAir = {} /\ page' = page + 1 /\ refresh' = [p \in Pages |-> Resting]
        /\ UNCHANGED <<cookie, newest, tokenFamily, flight, out>> /\ out.at \in {"no", "done"}
        /\ call' = [c \in Calls |-> IF call[c] = Resting THEN Resting
                                   ELSE [call[c] EXCEPT !.at = "done"]]
    BY <1>6 DEF Reload, Quiet, server
  <2>2. InAir' = {}
    BY <2>1 DEF InAir
  <2>3. RefreshFits'
    <3>1. page' \in Pages
      BY <1>6 DEF Reload, ClientShape, Pages
    <3> QED BY <2>1, <3>1 DEF RefreshFits, Resting
  <2>4. CallsHere'
    BY <2>1 DEF CallsHere, ClientShape, CallShape, Resting
  <2> QED
    BY <2>1, <2>2, <2>3, <2>4 DEF Calm, OneInAir, FlightFits, CookieFits, ClearKnows
<1>7. CASE UNCHANGED clientVars
  <2>1. InAir' = InAir
    BY <1>7 DEF clientVars, InAir
  <2> QED
    BY <1>7, <2>1 DEF clientVars, Calm, OneInAir, FlightFits, CookieFits, RefreshFits,
                      CallsHere, ClearKnows
<1> QED BY <1>1, <1>2, <1>3, <1>4, <1>5, <1>6, <1>7 DEF ClientNext

\* What an exchange that ends does to a sign-out and to the family.
LEMMA FlightStepMoves ==
    ASSUME ClientShape, NEW x \in Flights, FlightStep(x)
    PROVE  /\ lost => lost'
           /\ raced => raced'
           /\ tokenFamily # "live" => tokenFamily' # "live"
           /\ out' = out \/ out'.at = "clear"
           /\ out.at \in {"reset", "done"} => cookie' = cookie \/ raced'
<1>1. CASE Handle(x)
  BY <1>1 DEF Handle, server
<1>2. CASE Arrive(x)
  <2>1. out' = out \/ out'.at = "clear"
    BY <1>2 DEF Arrive, Ends, AfterBoot, AfterRefresh
  <2>2. UNCHANGED <<tokenFamily, lost>> /\ raced' = (raced \/ out.at \in {"reset", "done"})
    BY <1>2 DEF Arrive, server
  <2> QED BY <2>1, <2>2, Zenon
<1>3. CASE Lose(x)
  BY <1>3 DEF Lose, Ends, AfterBoot, AfterRefresh, server
<1> QED BY <1>1, <1>2, <1>3 DEF FlightStep

LEMMA ClientKeeps ==
    ClientInv /\ [ClientNext]_clientVars => ClientInv'
<1> USE SessionClientAssumption
<1> SUFFICES ASSUME ClientInv, [ClientNext]_clientVars PROVE ClientInv'
  OBVIOUS
<1>1. ClientShape /\ ClientShape'
  BY StepTypes DEF ClientInv
<1>2. (Quiet => Calm)'
  BY <1>1, QuietWas, CalmStays DEF ClientInv
<1>3. NoCookieLeft' /\ TakenIsOver'
  <2>1. CASE \E x \in Flights : FlightStep(x)
    BY <1>1, <2>1, FlightStepMoves DEF ClientInv, NoCookieLeft, TakenIsOver
  <2>2. CASE \E p \in Pages : RefreshStep(p)
    BY <2>2 DEF RefreshStep, RefreshRead, RefreshSend, RefreshFails, AfterRefresh, server,
                ClientInv, NoCookieLeft, TakenIsOver
  <2>3. CASE \E c \in Calls : CallStep(c)
    BY <2>3 DEF CallStep, Read, Rejected, Answered, server, ClientInv, NoCookieLeft,
                TakenIsOver
  <2>4. CASE Expire \/ Reload
    BY <2>4 DEF Expire, Reload, server, ClientInv, NoCookieLeft, TakenIsOver
  <2>5. CASE SignOutStep
    <3>1. CASE SignOut
      <4>1. out'.at \in {"clear", "boot"}
        BY <3>1 DEF SignOut
      <4> QED BY <4>1 DEF NoCookieLeft, TakenIsOver
    <3>2. CASE Clear
      <4>1. ~lost /\ out.token = "none" => cookie = None
        BY <3>2 DEF Clear, ClientInv, Quiet, Calm, ClearKnows
      <4>2. TakenIsOver'
        BY <1>1, <3>2, SignOutGoes DEF TakenIsOver
      <4>3. NoCookieLeft'
        <5>1. out'.at = "logout" \/ out.token = "none"
          BY <3>2 DEF Clear
        <5> QED BY <3>2, <4>1, <5>1 DEF Clear, NoCookieLeft
      <4> QED BY <4>2, <4>3
    <3>3. CASE AskLogout
      <4>1. out \in [at : {"no", "clear", "logout"}, token : Access]
        BY <1>1, <3>3 DEF AskLogout, ClientShape, OutShape
      <4>2. out'.at = "answer"
        BY <1>1, <3>3, SignOutGoes
      <4>3. CASE out.token # "none" /\ tokenFamily' # "live"
        BY <4>2, <4>3 DEF NoCookieLeft, TakenIsOver
      <4>4. CASE out' = [out EXCEPT !.at = "answer"]
        <5>1. out'.token # "taken"
          BY <4>1, <4>4 DEF Access
        <5> QED BY <4>2, <5>1 DEF NoCookieLeft, TakenIsOver
      <4> QED BY <3>3, <4>3, <4>4 DEF AskLogout
    <3>4. CASE LoggedOut
      BY <1>1, <3>4, SignOutGoes DEF LoggedOut, server, ClientInv, NoCookieLeft, TakenIsOver
    <3>5. CASE LogoutLost
      <4>1. out.at = "answer" \/ out.token # "taken"
        BY <1>1, <3>5 DEF LogoutLost, ClientShape, OutShape, Access
      <4>2. UNCHANGED tokenFamily /\ lost'
        BY <3>5 DEF LogoutLost, server
      <4> QED BY <1>1, <3>5, <4>1, <4>2, SignOutGoes DEF ClientInv, NoCookieLeft, TakenIsOver
    <3>6. CASE ResetXetral
      BY <1>1, <3>6, SignOutGoes DEF ResetXetral, server, ClientInv, NoCookieLeft, TakenIsOver
    <3> QED BY <2>5, <3>1, <3>2, <3>3, <3>4, <3>5, <3>6 DEF SignOutStep
  <2>6. CASE UNCHANGED clientVars
    BY <2>6 DEF clientVars, ClientInv, NoCookieLeft, TakenIsOver
  <2> QED BY <2>1, <2>2, <2>3, <2>4, <2>5, <2>6 DEF ClientNext
<1> QED BY <1>1, <1>2, <1>3 DEF ClientInv

LEMMA ClientStarts ==
    ClientInit => ClientInv
<1> USE SessionClientAssumption
<1> SUFFICES ASSUME ClientInit PROVE ClientInv
  OBVIOUS
<1>1. ClientShape
  BY DEF ClientInit, ClientShape, OutShape, Access, Pages, Tokens
<1>2. InAir = {}
  BY DEF ClientInit, InAir
<1>3. Calm
  <2>1. OneInAir /\ FlightFits /\ CookieFits
    BY <1>2 DEF ClientInit, OneInAir, FlightFits, CookieFits
  <2>2. \A p \in Pages : refresh[p] = Resting
    BY DEF ClientInit
  <2>3. RefreshFits
    BY <1>1, <2>2 DEF RefreshFits, ClientShape, Resting
  <2>4. CallsHere /\ ClearKnows
    BY DEF ClientInit, CallsHere, ClearKnows, Resting
  <2> QED BY <2>1, <2>3, <2>4 DEF ClientInit, Calm
<1>4. NoCookieLeft /\ TakenIsOver
  BY DEF ClientInit, NoCookieLeft, TakenIsOver
<1> QED BY <1>1, <1>3, <1>4 DEF ClientInv

\* However many screens, pages and exchanges: the API takes a token for stolen only
\* after an answer was lost or a sign-out was pressed.
THEOREM OnlyLossLooksLikeReuse == ClientSpec => []OnlyLossIsReuse
<1>1. ClientInv => OnlyLossIsReuse
  BY DEF ClientInv, Quiet, Calm, OnlyLossIsReuse
<1> QED BY <1>1, ClientStarts, ClientKeeps, PTL DEF ClientSpec

\* Whatever was in the air: once signed out, the browser has no cookie that the API
\* would exchange.
THEOREM SignedOutHoldsNothing == ClientSpec => []SignedOutIsOut
<1>1. ClientInv => SignedOutIsOut
  BY DEF ClientInv, NoCookieLeft, TakenIsOver, SignedOutIsOut
<1> QED BY <1>1, ClientStarts, ClientKeeps, PTL DEF ClientSpec
=============================================================================
