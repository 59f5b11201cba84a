----------------------------- MODULE SessionClient ------------------------------
(***************************************************************************)
(* How one browser tab keeps a customer signed in: Session                    *)
(* (packages/client/src/session.ts), the requests of XetralClient (client.ts), *)
(* the token store of the web app (apps/web/src/lib/session.ts) and its route  *)
(* handlers, over the refresh token family of Sessions.                        *)
(*                                                                          *)
(* The refresh token is in a cookie and good for one exchange: presented a     *)
(* second time it revokes the family.  A store with nothing in memory          *)
(* exchanges the cookie (a "boot"), a session whose access token is about to   *)
(* expire refreshes, and each has a latch that makes its callers share one.    *)
(* A page is one pair of store and session; a reload or a sign-out makes the   *)
(* next.                                                                      *)
(***************************************************************************)
EXTENDS Integers, FiniteSets, FiniteSetsExt

CONSTANTS
    Calls,      \* requests the screens make
    Flights,    \* exchanges in the air at a time; a set of numbers
    MaxPage,    \* bound: pages
    MaxToken,   \* bound: how often the family is rotated
    None

Pages == 0..MaxPage

Tokens == 0..MaxToken

ASSUME SessionClientAssumption ==
    /\ Flights \subseteq Nat \ {0}
    /\ MaxPage \in Nat /\ MaxToken \in Nat
    /\ None \notin Flights \cup Tokens

VARIABLES
    cookie,    \* the refresh token of the browser
    newest,    \* the API: the family's token not yet consumed,
    tokenFamily,   \* and "live", "reuse" or "logout"
    page,      \* the page in use
    gone,      \* pages closed before their exchanges were answered
    memory,    \* page -> its access token: "none", "fresh" or near its end, "stale"
    latch,     \* page -> #bootstrapping: the boot to join
    refresh,   \* page -> #refreshing: where it is, and the boot it waits for
    flight,    \* each exchange
    call,      \* each request: where it is, its page, the boot it waits for
    out,       \* sign-out: where it is, the access token it read, what became of it
    lost,      \* history: an answer was lost
    raced      \* history: an exchange was answered after the logout was

server == <<newest, tokenFamily>>
client == <<memory, latch, refresh>>
clientVars == <<cookie, newest, tokenFamily, page, gone, memory, latch, refresh, flight,
                call, out, lost, raced>>

Resting == [at |-> "idle"]

ClientInit ==
    /\ cookie = 0 /\ newest = 0 /\ tokenFamily = "live"
    /\ page = 0
    /\ gone = {}
    /\ memory = [p \in Pages |-> "none"]
    /\ latch = [p \in Pages |-> None]
    /\ refresh = [p \in Pages |-> Resting]
    /\ flight = [x \in Flights |-> Resting]
    /\ call = [c \in Calls |-> Resting]
    /\ out = [at |-> "no", token |-> "none"]
    /\ lost = FALSE
    /\ raced = FALSE

-----------------------------------------------------------------------------
(* Exchanges. *)

InAir == {x \in Flights : flight[x] # Resting}

\* POST /api/auth/refresh, with the cookie the browser has now.
Send(x, kind, p) ==
    /\ x = Min(Flights \ InAir)
    /\ flight' = [flight EXCEPT ![x] = [at |-> "air", kind |-> kind, page |-> p, token |-> cookie]]

\* Faulty variant: every read with nothing in memory exchanges the cookie.
JoinBootAlone(p, x) ==
    /\ InAir # Flights
    /\ Send(x, "boot", p)
    /\ latch' = [latch EXCEPT ![p] = x]

\* BrowserTokenStore.read with nothing in memory: x is the boot it waits for.
JoinBoot(p, x) ==
    IF latch[p] # None
    THEN x = latch[p] /\ UNCHANGED <<flight, latch>>
    ELSE /\ InAir # Flights
         /\ Send(x, "boot", p)
         /\ latch' = [latch EXCEPT ![p] = x]

\* Session.refresh: one at a time, which everybody joins.
JoinRefresh(p) ==
    refresh' = IF refresh[p] = Resting THEN [refresh EXCEPT ![p] = [at |-> "read"]] ELSE refresh

\* #doRefresh reads the store ...
RefreshRead(p) ==
    /\ refresh[p].at = "read"
    /\ IF memory[p] # "none"
       THEN /\ refresh' = [refresh EXCEPT ![p] = [at |-> "send"]]
            /\ UNCHANGED <<flight, latch>>
       ELSE \E x \in Flights :
               JoinBoot(p, x) /\ refresh' = [refresh EXCEPT ![p] = [at |-> "boot", wait |-> x]]
    /\ UNCHANGED <<cookie, server, page, gone, memory, call, out, lost, raced>>

\* ... and asks for the rotation.
RefreshSend(p) ==
    /\ refresh[p].at = "send"
    /\ InAir # Flights
    /\ \E x \in Flights : Send(x, "refresh", p)
    /\ refresh' = [refresh EXCEPT ![p] = [at |-> "air"]]
    /\ UNCHANGED <<cookie, server, page, gone, memory, latch, call, out, lost, raced>>

\* The route handler and rotate_refresh_token.
Handle(x) ==
    /\ flight[x].at = "air"
    /\ LET token == flight[x].token
           Answer(a) == flight' = [flight EXCEPT ![x] = [@ EXCEPT !.at = a]]
       IN
       \/ /\ token # None /\ tokenFamily = "live" /\ token = newest /\ newest < MaxToken
          /\ newest' = newest + 1
          /\ flight' = [flight EXCEPT ![x] = [@ EXCEPT !.at = "rotated", !.token = newest + 1]]
          /\ UNCHANGED tokenFamily
       \/ /\ token = None \/ tokenFamily # "live" \/ token # newest
          /\ tokenFamily' = IF token # None /\ tokenFamily = "live" THEN "reuse" ELSE tokenFamily
          /\ Answer("refused")
          /\ UNCHANGED newest
       \/ token # None /\ Answer("error") /\ UNCHANGED server
    /\ UNCHANGED <<cookie, page, gone, client, call, out, lost, raced>>

\* Where what waits for boot x goes, when it is told of a token or of none.
AfterBoot(x, told) ==
    /\ call' = [c \in Calls |->
                  IF call[c].at = "boot" /\ call[c].wait = x
                  THEN [call[c] EXCEPT !.at = IF told THEN "ask" ELSE "done"]
                  ELSE call[c]]
    /\ out' = IF out.at = "boot" /\ out.wait = x
              THEN [at |-> "clear", token |-> IF told THEN "fresh" ELSE "none"]
              ELSE out

\* Where the callers of the refresh of page p go.
AfterRefresh(p, told) ==
    /\ call' = [c \in Calls |->
                  IF call[c].at \in {"refresh", "again"} /\ call[c].page = p
                  THEN [call[c] EXCEPT !.at = IF ~told THEN "done"
                                              ELSE IF @ = "refresh" THEN "ask" ELSE "read"]
                  ELSE call[c]]
    /\ UNCHANGED out

\* Faulty variant: a refresh that finds no token goes on waiting for one.
RefreshAfterBootSilent(p, x, told) ==
    IF refresh[p] = [at |-> "boot", wait |-> x] /\ told THEN [at |-> "send"] ELSE refresh[p]

\* The refresh of p once boot x ended; without a token it fails, and so do its
\* callers.
RefreshAfterBoot(p, x, told) ==
    IF refresh[p] = [at |-> "boot", wait |-> x]
    THEN IF told THEN [at |-> "send"] ELSE [at |-> "failed"]
    ELSE refresh[p]

\* A refresh that had no token to read.
RefreshFails(p) ==
    /\ refresh[p].at = "failed"
    /\ refresh' = [refresh EXCEPT ![p] = Resting]
    /\ AfterRefresh(p, FALSE)
    /\ UNCHANGED <<cookie, server, page, gone, memory, latch, flight, lost, raced>>

\* What an exchange that ended does to its page.  Both latches are dropped, whoever
\* holds the boot's by now; a refused refresh clears the store.
Ends(x, end) ==
    LET p == flight[x].page
        told == end = "rotated"
        dropped == flight[x].kind = "refresh" /\ end = "refused"
    IN
    /\ memory' = [memory EXCEPT ![p] = IF told THEN "fresh" ELSE IF dropped THEN "none" ELSE @]
    /\ IF flight[x].kind = "boot"
       THEN /\ latch' = [latch EXCEPT ![p] = None]
            /\ refresh' = [refresh EXCEPT ![p] = RefreshAfterBoot(p, x, told)]
            /\ AfterBoot(x, told)
       ELSE /\ latch' = IF dropped THEN [latch EXCEPT ![p] = None] ELSE latch
            /\ refresh' = [refresh EXCEPT ![p] = Resting]
            /\ AfterRefresh(p, told)

\* The answer reaches the page: the cookie is replaced, or deleted by any refusal
\* and any error of the API.
Arrive(x) ==
    LET end == flight[x].at IN
    /\ end \in {"rotated", "refused", "error"}
    /\ flight[x].page \notin gone
    /\ cookie' = IF end = "rotated" THEN flight[x].token
                 ELSE IF flight[x].token = None THEN cookie ELSE None
    /\ Ends(x, end)
    /\ flight' = [flight EXCEPT ![x] = Resting]
    /\ raced' = (raced \/ out.at \in {"reset", "done"})
    /\ UNCHANGED <<server, page, gone, lost>>

\* The network fails, before or after the API has seen the request.
Lose(x) ==
    /\ flight[x] # Resting
    /\ IF flight[x].page \in gone THEN UNCHANGED <<client, call, out>> ELSE Ends(x, "error")
    /\ flight' = [flight EXCEPT ![x] = Resting]
    /\ lost' = TRUE
    /\ UNCHANGED <<cookie, server, page, gone, raced>>

-----------------------------------------------------------------------------
(* Requests: XetralClient.#request. *)

\* accessToken, of a new request on the page in use or of one retried.
Read(c) ==
    LET p == IF call[c] = Resting THEN page ELSE call[c].page
        retried == call[c] # Resting
        To(place, x) == call' = [call EXCEPT ![c] =
                          [at |-> place, page |-> p, wait |-> x, retried |-> retried]]
    IN
    /\ call[c].at \in {"idle", "read"}
    /\ \/ /\ memory[p] = "fresh"
          /\ To("ask", None)
          /\ UNCHANGED <<flight, latch, refresh>>
       \/ /\ memory[p] = "stale"
          /\ JoinRefresh(p)
          /\ To("refresh", None)
          /\ UNCHANGED <<flight, latch>>
       \/ /\ memory[p] = "none"
          /\ \E x \in Flights : JoinBoot(p, x) /\ To("boot", x)
          /\ UNCHANGED refresh
    /\ UNCHANGED <<cookie, server, page, gone, memory, out, lost, raced>>

Done(c) == call' = [call EXCEPT ![c].at = "done"]

\* 401: one refresh and one retry, and no more.
Rejected(c) ==
    /\ call[c].at = "ask"
    /\ IF call[c].retried
       THEN Done(c) /\ UNCHANGED refresh
       ELSE JoinRefresh(call[c].page) /\ call' = [call EXCEPT ![c].at = "again"]
    /\ UNCHANGED <<cookie, server, page, gone, memory, latch, flight, out, lost, raced>>

\* Any other answer, or none.
Answered(c) ==
    /\ call[c].at = "ask"
    /\ Done(c)
    /\ UNCHANGED <<cookie, server, page, gone, client, flight, out, lost, raced>>

\* The access token comes within a minute of its end.
Expire ==
    /\ memory[page] = "fresh"
    /\ memory' = [memory EXCEPT ![page] = "stale"]
    /\ UNCHANGED <<cookie, server, page, gone, latch, refresh, flight, call, out, lost, raced>>

-----------------------------------------------------------------------------
(* Sign-out and reload. *)

\* signOut reads the store.
SignOut ==
    /\ out.at = "no"
    /\ IF memory[page] # "none"
       THEN out' = [at |-> "clear", token |-> memory[page]] /\ UNCHANGED <<flight, latch>>
       ELSE \E x \in Flights :
               JoinBoot(page, x) /\ out' = [at |-> "boot", token |-> "none", wait |-> x]
    /\ UNCHANGED <<cookie, server, page, gone, memory, refresh, call, lost, raced>>

\* It clears the store first; then it asks for the logout, with the cookie there is.
Clear ==
    /\ out.at = "clear"
    /\ memory' = [memory EXCEPT ![page] = "none"]
    /\ latch' = [latch EXCEPT ![page] = None]
    /\ out' = [at |-> IF out.token = "none" THEN "reset" ELSE "logout",
               token |-> IF cookie = None THEN "none" ELSE out.token]
    /\ UNCHANGED <<cookie, server, page, gone, refresh, flight, call, lost, raced>>

\* The route handler asks the API, where there is a cookie.  A logout that the API
\* refuses, for its token or its rate, or never hears of is like any other to it.
AskLogout ==
    /\ out.at = "logout"
    /\ \/ /\ out.token # "none"
          /\ tokenFamily' = IF tokenFamily = "live" THEN "logout" ELSE tokenFamily
          /\ out' = [out EXCEPT !.at = "answer", !.token = "taken"]
       \/ /\ UNCHANGED tokenFamily
          /\ out' = [out EXCEPT !.at = "answer"]
    /\ UNCHANGED <<cookie, newest, page, gone, client, flight, call, lost, raced>>

\* Faulty variant: the cookie goes only when the API took the logout.
LoggedOutIfTaken ==
    /\ out.at = "answer"
    /\ cookie' = IF tokenFamily = "live" THEN cookie ELSE None
    /\ out' = [out EXCEPT !.at = "reset"]
    /\ UNCHANGED <<server, page, gone, client, flight, call, lost, raced>>

\* The answer deletes the cookie whatever the API said.
LoggedOut ==
    /\ out.at = "answer"
    /\ cookie' = None
    /\ out' = [out EXCEPT !.at = "reset"]
    /\ UNCHANGED <<server, page, gone, client, flight, call, lost, raced>>

\* The logout is lost, before or after the API took it, and so is its answer.
LogoutLost ==
    /\ out.at \in {"logout", "answer"}
    /\ out' = [out EXCEPT !.at = "reset"]
    /\ lost' = TRUE
    /\ UNCHANGED <<cookie, server, page, gone, client, flight, call, raced>>

\* resetXetral: the next page starts clean.  What the old one still does goes on.
ResetXetral ==
    /\ out.at = "reset"
    /\ page < MaxPage
    /\ page' = page + 1
    /\ out' = [out EXCEPT !.at = "done"]
    /\ UNCHANGED <<cookie, server, gone, client, flight, call, lost, raced>>

\* The tab is reloaded, or closed and opened: nothing is left but the cookie.
Reload ==
    /\ out.at \in {"no", "done"}
    /\ page < MaxPage
    /\ page' = page + 1
    /\ gone' = gone \cup 0..page
    /\ lost' = (lost \/ InAir # {})
    /\ call' = [c \in Calls |->
                  IF call[c] = Resting THEN Resting ELSE [call[c] EXCEPT !.at = "done"]]
    /\ refresh' = [p \in Pages |-> Resting]
    /\ UNCHANGED <<cookie, server, memory, latch, flight, out, raced>>

FlightStep(x) == Handle(x) \/ Arrive(x) \/ Lose(x)

RefreshStep(p) == RefreshRead(p) \/ RefreshSend(p) \/ RefreshFails(p)

CallStep(c) == Read(c) \/ Rejected(c) \/ Answered(c)

SignOutStep == SignOut \/ Clear \/ AskLogout \/ LoggedOut \/ LogoutLost \/ ResetXetral

ClientNext ==
    \/ \E x \in Flights : FlightStep(x)
    \/ \E p \in Pages : RefreshStep(p)
    \/ \E c \in Calls : CallStep(c)
    \/ Expire
    \/ SignOutStep
    \/ Reload

ClientSpec == ClientInit /\ [][ClientNext]_clientVars

\* Every exchange and every request ends, in an answer or in a failure of the
\* network; the page runs what is ready to run.
ClientFairness ==
    /\ \A x \in Flights : WF_clientVars(FlightStep(x))
    /\ \A p \in Pages : WF_clientVars(RefreshStep(p))
    /\ \A c \in Calls : /\ WF_clientVars(Rejected(c) \/ Answered(c))
                       /\ WF_clientVars(call[c] # Resting /\ Read(c))

ClientFairSpec == ClientSpec /\ ClientFairness

-----------------------------------------------------------------------------
(* Properties. *)

\* The API sees a token twice, and takes it for stolen, only after an answer was
\* lost or a sign-out was pressed: however many screens find nothing in memory, an
\* expired token or a 401 at once, they share an exchange.
OnlyLossIsReuse == tokenFamily = "reuse" => lost \/ out.at # "no"

\* Once signed out the browser holds nothing that can be exchanged, whatever was in
\* the air meanwhile: unless an answer was lost, or an exchange was answered after a
\* logout that the API did not take.
SignedOutIsOut ==
    out.at = "done" /\ ~lost /\ (raced => out.token = "taken")
        => cookie = None \/ tokenFamily # "live"

\* Every request of a screen ends, with an answer or without: neither latch is left
\* set over an exchange that is over, and whoever shares one hears how it ended.
CallsEnd == \A c \in Calls : call[c].at # "idle" ~> call[c].at = "done"
=============================================================================
