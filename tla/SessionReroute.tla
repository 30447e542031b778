--------------------------- MODULE SessionReroute ---------------------------
(***************************************************************************)
(* A reroute seen from the WebSocket bridges: the routing tables (what     *)
(* RouteEpochs promises of them), the connection registry, the bridges of  *)
(* websocket.rs and the admin and scheduler commands, which commit to the  *)
(* database first and signal the registry later, in a step of their own.   *)
(*                                                                         *)
(* A bridge resolves its epoch, connects upstream and binds its keys,      *)
(* registers, and then carries turns, each of which binds the keys again   *)
(* before it is forwarded.  It is closed when it sees a signal above its   *)
(* generation or when a turn's bind is refused; the client then connects   *)
(* anew and replays the turn.  Accounts are left out: what is asked here   *)
(* is whether bridges that a command made obsolete learn of it, and        *)
(* whether their clients get through again.                                *)
(***************************************************************************)
EXTENDS SessionRegistry, FiniteSets

CONSTANTS
    Bridges,        \* the clients, each with one bridge at a time
    NoToken,        \* no registration
    KeysOfClient,   \* the affinity headers of each client, a function on Bridges
    ResponseIds,    \* the keys that are response ids
    Payloads,       \* the key sets operators send
    MaxUnsent       \* the most commands between their commit and their signal

ASSUME ClientsAssumption ==
    /\ KeysOfClient \in [Bridges -> (SUBSET Keys) \ {{}}]
    /\ ResponseIds \subseteq Keys
    /\ Payloads \subseteq SUBSET Keys
    /\ NoToken \notin Tokens
    /\ MaxUnsent \in Nat \ {0}

VARIABLES
    keyRoot, gen, commanded,    \* the tables, as in RouteEpochs
    bridges,                    \* the bridge of each client
    unsent                      \* committed commands that have not signalled yet

Tables == INSTANCE RouteEpochs

tableVars == <<keyRoot, gen, commanded>>
vars == <<tableVars, registryVars, bridges, unsent>>

-----------------------------------------------------------------------------
Phases == {"idle", "resolved", "connected", "open", "turn"}
NoEpoch == [root |-> NoKey, gen |-> 0]
Epoch == [root : Keys, gen : 0..MaxGeneration] \cup {NoEpoch}

\* named is a history component: since the bridge resolved, a command that named its
\* keys and its root has moved them.
Bridge == [phase : Phases, epoch : Epoch, token : Tokens \cup {NoToken},
           named : BOOLEAN]
IdleBridge == [phase |-> "idle", epoch |-> NoEpoch, token |-> NoToken,
               named |-> FALSE]
Signal == [root : Keys, keys : SUBSET Keys, gen : 0..MaxGeneration]

RerouteTypeOK ==
    /\ RegistryTypeOK
    /\ keyRoot \in [Keys -> Keys \cup {NoKey}]
    /\ gen \in [Keys -> 0..MaxGeneration]
    /\ commanded \in SUBSET Keys
    /\ bridges \in [Bridges -> Bridge]
    /\ unsent \in SUBSET Signal

RerouteInit ==
    /\ Tables!EpochInit
    /\ RegistryInit
    /\ bridges = [b \in Bridges |-> IdleBridge]
    /\ unsent = {}

-----------------------------------------------------------------------------
(***************************************************************************)
(* Bridges.                                                                *)
(***************************************************************************)
\* resolve_session_route_epoch: the newest root, which may be any of them.
Resolve(b) ==
    LET rs == Tables!TreesOf(KeysOfClient[b]) IN
    /\ bridges[b].phase = "idle"
    /\ \E epoch \in IF rs = {} THEN {NoEpoch} ELSE {[root |-> r, gen |-> gen[r]] : r \in rs} :
         bridges' = [bridges EXCEPT ![b] = [IdleBridge EXCEPT !.phase = "resolved",
                                                              !.epoch = epoch]]
    /\ UNCHANGED <<tableVars, registryVars, unsent>>

\* bind_affinities_at_epoch
BindAllowed(epoch, keys) ==
    LET rs == Tables!TreesOf(keys) IN
    IF epoch # NoEpoch
    THEN /\ Tables!IsRoot(epoch.root)
         /\ gen[epoch.root] = epoch.gen
         /\ rs \subseteq {epoch.root}
    ELSE \A r, s \in rs : r = s /\ gen[r] = 0 /\ r \notin commanded

\* The root an allowed bind joins: the epoch's, the one the keys have, or the
\* client's preferred key.
BindRoots(epoch, keys) ==
    IF epoch # NoEpoch THEN {epoch.root}
    ELSE IF Tables!TreesOf(keys) # {} THEN Tables!TreesOf(keys)
    ELSE keys

BindKeys(b, keys) ==
    \E root \in BindRoots(bridges[b].epoch, keys) : Tables!Join(root, keys)

\* select_and_connect: a refused bind is only logged.
Connect(b) ==
    /\ bridges[b].phase = "resolved"
    /\ bridges' = [bridges EXCEPT ![b].phase = "connected"]
    /\ IF BindAllowed(bridges[b].epoch, KeysOfClient[b])
       THEN BindKeys(b, KeysOfClient[b])
       ELSE UNCHANGED tableVars
    /\ UNCHANGED <<registryVars, unsent>>

\* bridge: the registration, under the epoch's root or the first affinity.
Open(b) ==
    LET epoch == bridges[b].epoch IN
    /\ bridges[b].phase = "connected"
    /\ \E token \in Tokens, root \in IF epoch = NoEpoch THEN KeysOfClient[b] ELSE {epoch.root} :
         /\ Register(token, root, KeysOfClient[b], epoch.gen)
         /\ bridges' = [bridges EXCEPT ![b].phase = "open", ![b].token = token]
    /\ UNCHANGED <<tableVars, unsent>>

\* With close code 1012 for a reroute, with another one otherwise.
Close(b) ==
    /\ Unregister(bridges[b].token)
    /\ bridges' = [bridges EXCEPT ![b] = IdleBridge]

\* Mutant: a bridge's own generation counts as a signal.
SignalledAtOwn(b) == connections[bridges[b].token].signal >= bridges[b].epoch.gen

Signalled(b) == connections[bridges[b].token].signal > bridges[b].epoch.gen

\* A signal may come after the select loop has taken the client's message, so the
\* bind is the last word.  A turn that was under way is abandoned.
StartTurn(b) ==
    /\ bridges[b].phase \in {"open", "turn"}
    /\ IF BindAllowed(bridges[b].epoch, KeysOfClient[b])
       THEN /\ BindKeys(b, KeysOfClient[b])
            /\ bridges' = [bridges EXCEPT ![b].phase = "turn"]
            /\ UNCHANGED registryVars
       ELSE Close(b) /\ UNCHANGED tableVars
    /\ UNCHANGED unsent

\* finish_turn binds the keys again, with the response id when there is one.
FinishTurn(b, responseIds) ==
    LET keys == KeysOfClient[b] \cup responseIds IN
    /\ bridges[b].phase = "turn"
    /\ bridges' = [bridges EXCEPT ![b].phase = "open"]
    /\ IF responseIds # {} /\ BindAllowed(bridges[b].epoch, keys)
       THEN BindKeys(b, keys)
       ELSE UNCHANGED tableVars
    /\ UNCHANGED <<registryVars, unsent>>

\* wait_for_session_reroute
SeeReroute(b) ==
    /\ bridges[b].phase \in {"open", "turn"}
    /\ Signalled(b)
    /\ Close(b)
    /\ UNCHANGED <<tableVars, unsent>>

\* Either side closes, or an attempt to connect fails.
Disconnect(b) ==
    /\ bridges[b].phase # "idle"
    /\ IF bridges[b].phase \in {"open", "turn"}
       THEN Close(b)
       ELSE /\ bridges' = [bridges EXCEPT ![b] = IdleBridge]
            /\ UNCHANGED registryVars
    /\ UNCHANGED <<tableVars, unsent>>

-----------------------------------------------------------------------------
(***************************************************************************)
(* Commands: the database transaction, then the signal.                    *)
(***************************************************************************)
RegisteredKeys(b) == KeysOfClient[b] \cup ({bridges[b].epoch.root} \ {NoKey})

\* Applied, or a fallback: the trees are moved.
CommitMove(root, keys) ==
    /\ Tables!Move(root, keys)
    /\ unsent' = unsent \cup {[root |-> root, keys |-> keys, gen |-> gen'[root]]}
    /\ bridges' = [b \in Bridges |->
                     IF bridges[b].phase = "idle" THEN bridges[b]
                     ELSE [bridges[b] EXCEPT !.named = @ \/ RegisteredKeys(b) \subseteq keys]]
    /\ UNCHANGED registryVars

\* Pending: no account is eligible.
CommitPending(root, keys) ==
    /\ Tables!Merge(root, keys)
    /\ UNCHANGED <<registryVars, bridges, unsent>>

\* A fallback to the account the tree already has signals without moving; at
\* generation 0 only the scheduler does, whose root has been commanded before.
CommitUnmoved(root, keys) ==
    /\ Tables!IsRoot(root)
    /\ gen[root] > 0 \/ root \in commanded
    /\ \A k \in keys : keyRoot[k] = root
    /\ Tables!Merge(root, keys)
    /\ unsent' = unsent \cup {[root |-> root, keys |-> keys, gen |-> gen[root]]}
    /\ UNCHANGED <<registryVars, bridges>>

SendSignal(s) ==
    /\ s \in unsent
    /\ SignalReroute(s.root, s.keys, s.gen)
    /\ unsent' = unsent \ {s}
    /\ UNCHANGED <<tableVars, bridges>>

\* The daemon stops and starts: the tables are kept.
Restart ==
    /\ bridges' = [b \in Bridges |-> IdleBridge]
    /\ unsent' = {}
    /\ connections' = [t \in Tokens |-> NoEntry]
    /\ connectionsByKey' = [k \in Keys |-> {}]
    /\ rootByKey' = [k \in Keys |-> NoKey]
    /\ generationByRoot' = [k \in Keys |-> 0]
    /\ UNCHANGED tableVars

BridgeProgress(b) ==
    \/ Resolve(b)
    \/ Connect(b)
    \/ Open(b)
    \/ StartTurn(b)
    \/ FinishTurn(b, {})
    \/ \E k \in ResponseIds : FinishTurn(b, {k})
    \/ SeeReroute(b)

\* An operator's keys, or all the keys of a pending root.
CommandStep ==
    \E root \in Keys : \E keys \in Payloads \cup {Tables!MembersOf({root})} :
        /\ root \in keys
        /\ Cardinality(unsent) < MaxUnsent
        /\ CommitMove(root, keys) \/ CommitPending(root, keys) \/ CommitUnmoved(root, keys)

RerouteNext ==
    \/ \E b \in Bridges : BridgeProgress(b) \/ Disconnect(b)
    \/ CommandStep
    \/ \E s \in unsent : SendSignal(s)
    \/ Restart

RerouteSpec == RerouteInit /\ [][RerouteNext]_vars

\* The bridges' loops and the handlers of committed commands run for as long as the
\* daemon does; the client connects again and replays its turn.
Fairness ==
    /\ \A b \in Bridges :
         /\ WF_vars(Resolve(b))
         /\ WF_vars(Connect(b))
         /\ WF_vars(Open(b))
         /\ WF_vars(StartTurn(b))
         /\ WF_vars(SeeReroute(b))
    /\ \A s \in Signal : WF_vars(SendSignal(s))

\* From some time on there are no more commands, restarts and lost connections.
Quiet ==
    <>[][\/ \E b \in Bridges : BridgeProgress(b)
         \/ \E s \in unsent : SendSignal(s)]_vars

FairRerouteSpec == RerouteSpec /\ Fairness /\ Quiet

-----------------------------------------------------------------------------
\* Once the commands have signalled, an open bridge all of whose keys (and root) one
\* of them named has been told to reconnect, however the steps of the bridge (resolve,
\* connect, register) and of the commands (commit, signal) interleave.  Commands
\* whose signals overtake each other are another matter (MaxUnsent > 1).
NamedBridgesSignalled ==
    \A b \in Bridges :
        bridges[b].phase \in {"open", "turn"} /\ bridges[b].named
          => Signalled(b) \/ unsent # {}

\* README: after a reroute "Codex reconnects and replays an interrupted turn".  When
\* the commands cease, a client that reconnects gets its turn through: neither a
\* stale entry of the registry nor the tables close its bridges for ever.  (The
\* tokens of the model may be used up, those of the code may not.)
TurnsGetThrough ==
    \A b \in Bridges :
        []<>(bridges[b].phase = "turn" \/ \A t \in Tokens : ~IsFresh(t))
=============================================================================
