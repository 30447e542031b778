-------------------------- MODULE SessionRegistry --------------------------
(***************************************************************************)
(* session_registry.rs: the in-memory index of open WebSocket bridges that *)
(* a routing command uses to find and signal the ones it moves.  Every     *)
(* method holds the registry's mutex throughout, so each is one step.      *)
(*                                                                         *)
(* A key has no entry in root_by_key when rootByKey is NoKey.  A missing   *)
(* generation_by_root and an unsignalled watch channel are 0: a signal is  *)
(* only ever sent for a generation above the connection's own.  Tokens are *)
(* never reused in the code (a 64-bit counter); here a token that nothing  *)
(* in the registry mentions any more may be, which no method can tell from *)
(* a fresh one.                                                            *)
(***************************************************************************)
EXTENDS Integers

CONSTANTS
    Keys, NoKey,
    MaxToken,       \* the most tokens the registry mentions at a time
    MaxGeneration

ASSUME RegistryKeysAssumption == NoKey \notin Keys
ASSUME RegistryBoundsAssumption == MaxToken \in Nat /\ MaxGeneration \in Nat

VARIABLES
    connections,        \* connections: token -> ConnectionEntry
    connectionsByKey,   \* connections_by_key: key -> tokens
    rootByKey,          \* root_by_key: key -> root
    generationByRoot    \* generation_by_root: root -> generation

registryVars ==
    <<connections, connectionsByKey, rootByKey, generationByRoot>>

Tokens == 1..MaxToken
Entry == [live : BOOLEAN, root : Keys \cup {NoKey}, aliases : SUBSET Keys,
          gen : 0..MaxGeneration, signal : 0..MaxGeneration]
NoEntry == [live |-> FALSE, root |-> NoKey, aliases |-> {}, gen |-> 0, signal |-> 0]

RegistryTypeOK ==
    /\ connections \in [Tokens -> Entry]
    /\ connectionsByKey \in [Keys -> SUBSET Tokens]
    /\ rootByKey \in [Keys -> Keys \cup {NoKey}]
    /\ generationByRoot \in [Keys -> 0..MaxGeneration]

RegistryInit ==
    /\ connections = [t \in Tokens |-> NoEntry]
    /\ connectionsByKey = [k \in Keys |-> {}]
    /\ rootByKey = [k \in Keys |-> NoKey]
    /\ generationByRoot = [k \in Keys |-> 0]

-----------------------------------------------------------------------------
KnownRoots(keys) == {rootByKey[k] : k \in keys} \ {NoKey}

\* The root the registry knows the connection's root by, else the least root it
\* knows one of the aliases by (the order of hashes is arbitrary), else the root.
CanonicalRoots(root, aliases) ==
    IF rootByKey[root] # NoKey THEN {rootByKey[root]}
    ELSE IF KnownRoots(aliases) # {} THEN KnownRoots(aliases)
    ELSE {root}

\* Mutant: a late registration starts unsignalled.
UnsignalledAtStart(canonical, generation) == 0

\* Mutant: it is signalled one above what its root is known at.
SignalledAbove(canonical, generation) == generationByRoot[canonical] + 1

SignalAtStart(canonical, generation) ==
    IF generation < generationByRoot[canonical] THEN generationByRoot[canonical] ELSE 0

IsFresh(t) ==
    /\ ~connections[t].live
    /\ \A k \in Keys : t \notin connectionsByKey[k]

NextToken(token) == IsFresh(token) /\ \A t \in Tokens : IsFresh(t) => token <= t

Register(token, root, aliases, generation) ==
    /\ NextToken(token)
    /\ \E canonical \in CanonicalRoots(root, aliases) :
         LET keys == aliases \cup {canonical} IN
         /\ connections' =
              [connections EXCEPT ![token] =
                 [live |-> TRUE, root |-> canonical, aliases |-> keys,
                  gen |-> generation, signal |-> SignalAtStart(canonical, generation)]]
         /\ connectionsByKey' =
              [k \in Keys |-> IF k \in keys THEN connectionsByKey[k] \cup {token}
                                            ELSE connectionsByKey[k]]
         /\ rootByKey' =
              [k \in Keys |-> IF k \in keys /\ rootByKey[k] = NoKey
                              THEN canonical ELSE rootByKey[k]]
    /\ UNCHANGED generationByRoot

\* The tokens indexed under the keys or under the roots the keys are known by.
MatchingTokens(root, aliases) ==
    LET keys == aliases \cup {root} IN
    UNION {connectionsByKey[k] : k \in keys \cup KnownRoots(keys)}

\* Mutant: matched connections are signalled and not indexed under the new root.
IndexedByAliasOnly(root, tokens) == connectionsByKey

IndexedUnder(root, tokens) == [connectionsByKey EXCEPT ![root] = @ \cup tokens]

Raised(known, generation) == IF known < generation THEN generation ELSE known

SignalReroute(root, aliases, generation) ==
    LET tokens == MatchingTokens(root, aliases)
        Signalled(entry) ==
          [entry EXCEPT !.root = root,
                        !.signal = IF entry.gen < generation THEN generation ELSE @]
    IN
    /\ generationByRoot' = [generationByRoot EXCEPT ![root] = Raised(@, generation)]
    /\ rootByKey' = [k \in Keys |-> IF k \in aliases \cup {root} THEN root ELSE rootByKey[k]]
    /\ connections' = [t \in Tokens |->
                         IF t \in tokens /\ connections[t].live
                         THEN Signalled(connections[t]) ELSE connections[t]]
    /\ connectionsByKey' = IndexedUnder(root, tokens)

\* Mutant: what is known of the connection's root goes with it.
UnregisterWithRoot(t) ==
    /\ connections[t].live
    /\ connections' = [connections EXCEPT ![t] = NoEntry]
    /\ connectionsByKey' =
         [k \in Keys |-> IF k \in connections[t].aliases \cup {connections[t].root}
                         THEN connectionsByKey[k] \ {t} ELSE connectionsByKey[k]]
    /\ generationByRoot' = [generationByRoot EXCEPT ![connections[t].root] = 0]
    /\ UNCHANGED rootByKey

\* The registration is dropped with its bridge.
Unregister(t) ==
    /\ connections[t].live
    /\ connections' = [connections EXCEPT ![t] = NoEntry]
    /\ connectionsByKey' =
         [k \in Keys |-> IF k \in connections[t].aliases \cup {connections[t].root}
                         THEN connectionsByKey[k] \ {t} ELSE connectionsByKey[k]]
    /\ UNCHANGED <<rootByKey, generationByRoot>>

RegistryNext ==
    \/ \E token \in Tokens, root \in Keys, aliases \in SUBSET Keys,
          generation \in 0..MaxGeneration :
         aliases # {} /\ Register(token, root, aliases, generation)
    \/ \E root \in Keys, aliases \in SUBSET Keys, generation \in 1..MaxGeneration :
         SignalReroute(root, aliases, generation)
    \/ \E t \in Tokens : Unregister(t)

RegistrySpec == RegistryInit /\ [][RegistryNext]_registryVars

-----------------------------------------------------------------------------
(***************************************************************************)
(* Properties.                                                             *)
(***************************************************************************)
\* An open connection is found under each of its aliases and under its current
\* root, whatever merges and re-rootings the signals performed: a command that
\* names any of them reaches it.
IndexComplete ==
    \A t \in Tokens : connections[t].live =>
        \A k \in connections[t].aliases \cup {connections[t].root} :
            t \in connectionsByKey[k]

\* Short of a restart, which empties the registry, the generation a root has been
\* signalled at never goes down, and a connection that has been signalled stays
\* signalled above its own generation, in whatever order signals, registrations and
\* drops follow each other.
SignalsPersist ==
    [][\/ RegistryInit'
       \/ /\ \A r \in Keys : generationByRoot'[r] >= generationByRoot[r]
          /\ \A t \in Tokens :
               connections[t].signal > connections[t].gen /\ connections'[t].live
                 => connections'[t].signal > connections'[t].gen]_registryVars
=============================================================================
