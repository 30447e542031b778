---------------------------- MODULE AccountPool ----------------------------
(***************************************************************************)
(* The pool of upstream accounts and the requests that draw on it: the     *)
(* rows of accounts and account_runtime_state, the selection of db.rs, the *)
(* failover loops of proxy.rs (proxy_request, proxy_models) and of         *)
(* websocket.rs (select_and_connect), the turns of a WebSocket bridge, and *)
(* the leases that return an account to the pool.                          *)
(*                                                                         *)
(* Every SQL statement or transaction is one step; a request may be        *)
(* dropped by its client between any two of its awaits (axum drops the     *)
(* handler's future), where the drop of a lease spawns the release.  Which *)
(* points of a request a client may leave it at is a parameter.            *)
(*                                                                         *)
(* Routing keys, tokens, request logs, the order in which selection        *)
(* prefers eligible accounts and what the client of a failed request gets  *)
(* to read are left out.  There is one session key; its affinity row is    *)
(* pin.  A live cooldown and an exhausted quota window bar an account in   *)
(* the same way, until time passes.                                        *)
(***************************************************************************)
EXTENDS Integers, FiniteSets, FiniteSetsExt

CONSTANTS
    Accounts, NoAccount,
    Clients,
    KindsOf,        \* what each client may send, a function on Clients
    MaxAttempts,    \* proxy_max_attempts
    LeavePoints,    \* the phases in which a client may go away
    MaxReleases     \* no request starts while an account has so many releases to run

Kinds == {"responses", "models", "websocket"}

ASSUME PoolAssumption ==
    /\ IsFiniteSet(Accounts) /\ NoAccount \notin Accounts
    /\ IsFiniteSet(Clients)
    /\ KindsOf \in [Clients -> SUBSET Kinds]
    /\ MaxAttempts \in Nat
    /\ MaxReleases \in Nat \ {0}

VARIABLES
    status,     \* accounts.status; "inactive" is paused or auth_failed
    barred,     \* accounts with a live cooldown or an exhausted quota window
    inflight,   \* account_runtime_state.inflight_count
    pin,        \* the affinity row of the session key
    requests,   \* what each client's request is doing
    releases,   \* release tasks spawned and not yet run, by account
    steady      \* history: by client, the accounts eligible ever since its request arrived

vars == <<status, barred, inflight, pin, requests, releases, steady>>

-----------------------------------------------------------------------------
Statuses == {"active", "inactive", "deleted"}

\* The awaits of a request.  It holds an account from the UPDATE that acquired it
\* ("acquired") to the one that releases it; "settled" is a reservation whose
\* release has been executed and not yet been acknowledged.
Holding == {"acquired", "leased", "settling", "streaming", "turn"}
Phases == Holding \cup {"idle", "select", "sticky", "choose", "settled", "open"}

\* The awaits of a failover loop.
Loop == {"select", "sticky", "choose", "acquired", "leased", "settling", "settled"}

Request == [kind : Kinds \cup {"none"}, phase : Phases,
            account : Accounts \cup {NoAccount}, excluded : SUBSET Accounts,
            attempts : 0..Max({MaxAttempts, 1}), connected : BOOLEAN]
NoRequest == [kind |-> "none", phase |-> "idle", account |-> NoAccount, excluded |-> {},
              attempts |-> 0, connected |-> FALSE]

PoolTypeOK ==
    /\ status \in [Accounts -> Statuses]
    /\ barred \in SUBSET Accounts
    /\ inflight \in [Accounts -> Nat]
    /\ pin \in Accounts \cup {NoAccount}
    /\ requests \in [Clients -> Request]
    /\ releases \in [Accounts -> Nat]
    /\ steady \in [Clients -> SUBSET Accounts]

Init ==
    /\ status = [a \in Accounts |-> "active"]
    /\ barred = {}
    /\ inflight = [a \in Accounts |-> 0]
    /\ pin = NoAccount
    /\ requests = [c \in Clients |-> NoRequest]
    /\ releases = [a \in Accounts |-> 0]
    /\ steady = [c \in Clients |-> {}]

-----------------------------------------------------------------------------
(***************************************************************************)
(* The database's statements.                                              *)
(***************************************************************************)
Eligible(a) == status[a] = "active" /\ a \notin barred

Acquired(a) == [inflight EXCEPT ![a] = @ + 1]

\* A deleted account has no row to update.
Released(a) ==
    [inflight EXCEPT ![a] = IF status[a] = "deleted" \/ @ = 0 THEN @ ELSE @ - 1]

MarkAuthFailed(a) ==
    /\ status' = [status EXCEPT ![a] = IF @ = "deleted" THEN @ ELSE "inactive"]
    /\ UNCHANGED barred

CooldownAccount(a) ==
    /\ barred' = IF status[a] = "deleted" THEN barred ELSE barred \cup {a}
    /\ UNCHANGED status

\* A bind may be refused (SessionRoutes says when).
BindSession(a) ==
    pin' \in {pin} \cup {x \in {a} : status[x] # "deleted"}

-----------------------------------------------------------------------------
(***************************************************************************)
(* Selection, the same for every kind of request.                          *)
(***************************************************************************)
InPhase(c, phase) == requests[c].phase = phase
GoTo(c, phase, a) ==
    requests' = [requests EXCEPT ![c].phase = phase, ![c].account = a]

\* The loop has returned, and its variables are gone.
LeaveLoop(c, phase) ==
    requests' = [requests EXCEPT
                   ![c] = [NoRequest EXCEPT !.kind = requests[c].kind, !.phase = phase,
                                            !.account = requests[c].account]]

End(c) == requests' = [requests EXCEPT ![c] = NoRequest]

\* Mutant: an account that has failed may be taken again.
Anyone(r) == Accounts

\* The accounts a loop has not tried.
Untried(r) == Accounts \ r.excluded

ActiveCount == Cardinality({a \in Accounts : status[a] = "active"})

\* Mutant: one try more, and no limit.
AttemptsUncapped == ActiveCount + 1

ProxyAttempts ==
    IF ActiveCount = 0 THEN 1 ELSE Min({ActiveCount, Max({MaxAttempts, 1})})

Arrive(c) ==
    /\ InPhase(c, "idle")
    /\ \A a \in Accounts : releases[a] < MaxReleases
    /\ \E kind \in KindsOf[c] :
         requests' = [requests EXCEPT
                        ![c] = [NoRequest EXCEPT !.kind = kind, !.phase = "select",
                                                 !.attempts = ProxyAttempts]]
    /\ UNCHANGED <<status, barred, inflight, pin, releases>>

\* The affinity lookup.  The row counts only within the sticky session's TTL, and
\* a model list has no affinity.
LookUpPin(c) ==
    /\ InPhase(c, "select")
    /\ \/ /\ requests[c].kind # "models"
          /\ pin \in Untried(requests[c]) /\ Eligible(pin)
          /\ GoTo(c, "sticky", pin)
       \/ GoTo(c, "choose", NoAccount)
    /\ UNCHANGED <<status, barred, inflight, pin, releases>>

\* Mutant: the pinned account is taken as the lookup found it.
AcquirableAsFound(a) == status[a] # "deleted"

\* What acquire_account_if_available checks in its one UPDATE.
AcquirableNow(a) == Eligible(a)

\* Mutant: the affinity is looked up again.
AfterStickyMissRetry == "select"

\* Where a request goes whose pinned account has become unavailable.
AfterStickyMiss == "choose"

AcquireSticky(c) ==
    LET a == requests[c].account IN
    /\ InPhase(c, "sticky")
    /\ IF AcquirableNow(a)
       THEN inflight' = Acquired(a) /\ GoTo(c, "acquired", a)
       ELSE GoTo(c, AfterStickyMiss, NoAccount) /\ UNCHANGED inflight
    /\ UNCHANGED <<status, barred, pin, releases>>

AcquireSmart(c) ==
    /\ InPhase(c, "choose")
    /\ \E a \in Untried(requests[c]) :
         /\ Eligible(a)
         /\ inflight' = Acquired(a)
         /\ GoTo(c, "acquired", a)
    /\ UNCHANGED <<status, barred, pin, releases>>

NoneEligible(c) ==
    /\ InPhase(c, "choose")
    /\ ~\E a \in Untried(requests[c]) : Eligible(a)
    /\ End(c)
    /\ UNCHANGED <<status, barred, inflight, pin, releases>>

\* selected_account reads the row and decrypts its tokens; only when it returns
\* does the caller have a lease (or a reservation).
ReadAccount(c) ==
    /\ InPhase(c, "acquired")
    /\ status[requests[c].account] # "deleted"
    /\ GoTo(c, "leased", requests[c].account)
    /\ UNCHANGED <<status, barred, inflight, pin, releases>>

\* The row is gone or the tokens cannot be decrypted.
ReadAccountFails(c) ==
    /\ InPhase(c, "acquired")
    /\ inflight' = Released(requests[c].account)
    /\ End(c)
    /\ UNCHANGED <<status, barred, pin, releases>>

-----------------------------------------------------------------------------
(***************************************************************************)
(* proxy_request and proxy_models.  An expired token is refreshed and the  *)
(* request sent again first, so these are the final outcomes of an attempt *)
(* on one account.  A lease is released by a spawned task.                 *)
(***************************************************************************)
SpawnRelease(a) == releases' = [releases EXCEPT ![a] = @ + 1]

\* The next attempt of a loop, or the end of it.
AfterFailure(r) ==
    IF r.attempts > 1
    THEN [r EXCEPT !.excluded = @ \cup {r.account}, !.attempts = @ - 1,
                   !.account = NoAccount, !.phase = "select"]
    ELSE NoRequest

AttemptFails(c) ==
    LET a == requests[c].account IN
    /\ InPhase(c, "leased") /\ requests[c].kind # "websocket"
    /\ \/ MarkAuthFailed(a)     \* a 401 or 403 that no refresh could cure
       \/ CooldownAccount(a)    \* 429, 5xx, or no response
       \/ requests[c].kind = "models" /\ UNCHANGED <<status, barred>>  \* no response to the retry
    /\ requests' = [requests EXCEPT ![c] = AfterFailure(@)]
    /\ SpawnRelease(a)
    /\ UNCHANGED <<inflight, pin>>

\* Any other error status is the client's own; it is passed on.
Refused(c) ==
    /\ InPhase(c, "leased") /\ requests[c].kind = "responses"
    /\ End(c)
    /\ SpawnRelease(requests[c].account)
    /\ UNCHANGED <<status, barred, inflight, pin>>

Stream(c) ==
    /\ InPhase(c, "leased") /\ requests[c].kind # "websocket"
    /\ LeaveLoop(c, "streaming")
    /\ IF requests[c].kind = "responses" THEN BindSession(requests[c].account) ELSE UNCHANGED pin
    /\ UNCHANGED <<status, barred, inflight, releases>>

StreamEnds(c) ==
    /\ InPhase(c, "streaming")
    /\ SpawnRelease(requests[c].account)
    /\ End(c)
    /\ UNCHANGED <<status, barred, inflight, pin>>

RunRelease(a) ==
    /\ releases[a] > 0
    /\ releases' = [releases EXCEPT ![a] = @ - 1]
    /\ inflight' = Released(a)
    /\ UNCHANGED <<status, barred, pin, requests>>

-----------------------------------------------------------------------------
(***************************************************************************)
(* select_and_connect, which holds a reservation until the handshake is    *)
(* over and awaits its release, and the turns of bridge.                   *)
(***************************************************************************)
Handshake(c) ==
    LET a == requests[c].account IN
    /\ InPhase(c, "leased") /\ requests[c].kind = "websocket"
    /\ \E connected \in BOOLEAN :
         /\ IF connected THEN UNCHANGED <<status, barred>>
                         ELSE MarkAuthFailed(a) \/ CooldownAccount(a)
         /\ requests' = [requests EXCEPT ![c].phase = "settling", ![c].connected = connected]
    /\ UNCHANGED <<inflight, pin, releases>>

\* Mutant: the reservation is kept for the life of the connection.
KeepReservation(a) == inflight

ReservationReleased(a) == Released(a)

ReleaseReservation(c) ==
    /\ InPhase(c, "settling")
    /\ inflight' = ReservationReleased(requests[c].account)
    /\ GoTo(c, "settled", requests[c].account)
    /\ UNCHANGED <<status, barred, pin, releases>>

ReservationSettled(c) ==
    /\ InPhase(c, "settled")
    /\ IF requests[c].connected
       THEN /\ LeaveLoop(c, "open")
            /\ BindSession(requests[c].account)
       ELSE /\ requests' = [requests EXCEPT ![c] = AfterFailure(@)]
            /\ UNCHANGED pin
    /\ UNCHANGED <<status, barred, inflight, releases>>

StartTurn(c) ==
    LET a == requests[c].account IN
    /\ InPhase(c, "open")
    /\ IF AcquirableNow(a)
       THEN inflight' = Acquired(a) /\ GoTo(c, "turn", a)
       ELSE End(c) /\ UNCHANGED inflight
    /\ UNCHANGED <<status, barred, pin, releases>>

\* A terminal event that leaves the bridge open, or a new request on it.
EndTurn(c) ==
    LET a == requests[c].account IN
    /\ InPhase(c, "turn")
    /\ inflight' = Released(a)
    /\ GoTo(c, "open", a)
    /\ UNCHANGED <<status, barred, releases>>
    /\ BindSession(a)

\* An error event that asks for a new connection, a reroute, a timeout, a shutdown
\* or the loss of either side.
BreakTurn(c) ==
    LET a == requests[c].account IN
    /\ InPhase(c, "turn")
    /\ MarkAuthFailed(a) \/ CooldownAccount(a) \/ UNCHANGED <<status, barred>>
    /\ inflight' = Released(a)
    /\ End(c)
    /\ BindSession(a)
    /\ UNCHANGED releases

CloseBridge(c) ==
    /\ InPhase(c, "open")
    /\ End(c)
    /\ UNCHANGED <<status, barred, inflight, pin, releases>>

-----------------------------------------------------------------------------
\* The client goes away and the future is dropped; a lease, or a reservation whose
\* release was not acknowledged, spawns a release.  A bridge has a task of its own.
Leave(c) ==
    /\ requests[c].phase \in LeavePoints \ {"idle", "open", "turn"}
    /\ IF requests[c].phase \in {"leased", "settling", "settled", "streaming"}
       THEN SpawnRelease(requests[c].account)
       ELSE UNCHANGED releases
    /\ End(c)
    /\ UNCHANGED <<status, barred, inflight, pin>>

\* An operator, an import or a token refresh; the usage refresh; the passing of time.
SetStatus(a, new) ==
    /\ status[a] \notin {"deleted", new}
    /\ new \in {"active", "inactive"}
    /\ status' = [status EXCEPT ![a] = new]
    /\ UNCHANGED <<barred, inflight, pin, requests, releases>>

DeleteAccount(a) ==
    /\ status[a] # "deleted"
    /\ status' = [status EXCEPT ![a] = "deleted"]
    /\ barred' = barred \ {a}
    /\ inflight' = [inflight EXCEPT ![a] = 0]
    /\ pin' = IF pin = a THEN NoAccount ELSE pin
    /\ UNCHANGED <<requests, releases>>

Bar(a) ==
    /\ status[a] # "deleted" /\ a \notin barred
    /\ barred' = barred \cup {a}
    /\ UNCHANGED <<status, inflight, pin, requests, releases>>

Unbar(a) ==
    /\ a \in barred
    /\ barred' = barred \ {a}
    /\ UNCHANGED <<status, inflight, pin, requests, releases>>

\* The daemon stops and starts; reset_inflight.
Restart ==
    /\ inflight' = [a \in Accounts |-> 0]
    /\ requests' = [c \in Clients |-> NoRequest]
    /\ releases' = [a \in Accounts |-> 0]
    /\ UNCHANGED <<status, barred, pin>>

SelectionStep(c) ==
    \/ LookUpPin(c) \/ AcquireSticky(c) \/ AcquireSmart(c) \/ NoneEligible(c)
    \/ ReadAccount(c) \/ ReadAccountFails(c)
HttpStep(c) == AttemptFails(c) \/ Refused(c) \/ Stream(c) \/ StreamEnds(c)
ConnectStep(c) == Handshake(c) \/ ReleaseReservation(c) \/ ReservationSettled(c)
TurnStep(c) == EndTurn(c) \/ BreakTurn(c)
RequestStep(c) == SelectionStep(c) \/ HttpStep(c) \/ ConnectStep(c) \/ TurnStep(c)
ClientStep(c) == Arrive(c) \/ StartTurn(c) \/ CloseBridge(c) \/ Leave(c)
AccountStep(a) ==
    \/ \E new \in Statuses : SetStatus(a, new)
    \/ DeleteAccount(a) \/ Bar(a) \/ Unbar(a)

PoolStep ==
    \/ \E c \in Clients : RequestStep(c) \/ ClientStep(c)
    \/ \E a \in Accounts : RunRelease(a) \/ AccountStep(a)
    \/ Restart

\* The history: a request has seen the accounts eligible that were so when it arrived
\* and have been so since.
Watch ==
    steady' = [c \in Clients |->
                 {a \in IF InPhase(c, "idle") THEN Accounts ELSE steady[c] :
                    /\ requests'[c].phase \in Loop
                    /\ Eligible(a) /\ Eligible(a)'}]

Next == PoolStep /\ Watch

Spec == Init /\ [][Next]_vars

-----------------------------------------------------------------------------
(***************************************************************************)
(* Properties.                                                             *)
(***************************************************************************)
Holders(a) == {c \in Clients : requests[c].account = a /\ requests[c].phase \in Holding}

\* The ledger balances: an account's in-flight count is the number of requests that
\* hold it and of releases under way, through failover, dropped clients, awaited
\* and spawned releases, turns, deletions and restarts.
InflightExact ==
    \A a \in Accounts : status[a] # "deleted" =>
        inflight[a] = Cardinality(Holders(a)) + releases[a]

\* A pause, a deletion, a cooldown or an exhausted quota that comes between the
\* affinity lookup (or the opening of a bridge) and the acquisition is honoured.
OnlyEligibleAcquired ==
    [][\A a \in Accounts : inflight'[a] > inflight[a] => Eligible(a)]_vars

\* An attempt fails, or selection finds no account, and the loop is over.
GivesUp(c) ==
    /\ NoneEligible(c) \/ AttemptFails(c) \/ ReservationSettled(c)
    /\ requests'[c].phase = "idle"

Tried(r) == r.excluded \cup ({r.account} \ {NoAccount})

\* A request fails only when it has tried as many accounts as were usable all the time it
\* ran, or as its limit allows: no attempt is spent twice on one account, and an account
\* that comes, goes or loses its cooldown meanwhile does not cost the request another.
UsableAccountsTried ==
    [][\A c \in Clients : GivesUp(c) =>
         Cardinality(Tried(requests[c]))
           >= Min({Cardinality(steady[c]), Max({MaxAttempts, 1})})]_vars

\* What a request still has before it: its attempts, and the awaits of the current one.
Awaits == [select |-> 8, sticky |-> 7, choose |-> 6, acquired |-> 5, leased |-> 4, settling |-> 3,
           settled |-> 2, streaming |-> 1, turn |-> 1, open |-> 0, idle |-> 0]
StepsLeft(r) == 10 * r.attempts + Awaits[r.phase]

\* Failover is bounded however accounts come and go under it: whatever a request does
\* next, from its arrival to its answer (or, for a turn, from its start to its end), it
\* has less before it than it had.
RequestsDescend ==
    [][\A c \in Clients :
         requests[c].phase \notin {"idle", "open"} /\ requests'[c] # requests[c]
           => StepsLeft(requests'[c]) < StepsLeft(requests[c])]_vars

\* tests/sqlite_proxy.rs waits for "inflight == 0" once every connection is gone: an
\* account nobody uses counts no request.
IdlePoolIsFree ==
    \A a \in Accounts :
        Holders(a) = {} /\ releases[a] = 0 => inflight[a] = 0
=============================================================================
