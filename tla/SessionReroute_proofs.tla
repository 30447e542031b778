----------------------- MODULE SessionReroute_proofs -----------------------
(***************************************************************************)
(* Proofs about SessionRegistry and SessionReroute: what the registry      *)
(* guarantees on its own, for any keys and any bounds, holds in the        *)
(* composed system too, for any number of commands under way, and a bridge *)
(* all of whose keys a command named is told, when commands signal before  *)
(* the next one commits.                                                   *)
(***************************************************************************)
EXTENDS SessionReroute, TLAPS, FiniteSetTheorems

-----------------------------------------------------------------------------
(***************************************************************************)
(* The registry on its own.                                                *)
(***************************************************************************)
\* What the index needs to be complete and the signals to persist: an open
\* connection has a root, and a closed one has left nothing in its entry.
EntriesInv ==
    \A t \in Tokens :
        /\ connections[t].live => connections[t].root \in Keys
        /\ ~connections[t].live => connections[t] = NoEntry

RegistryInv == RegistryTypeOK /\ EntriesInv /\ IndexComplete

USE DEF Tokens, Entry, NoEntry

\* The root a connection is registered under is a key.
LEMMA CanonicalRootIsKey ==
    ASSUME RegistryTypeOK, NEW root \in Keys, NEW aliases \in SUBSET Keys,
           NEW canonical \in CanonicalRoots(root, aliases)
    PROVE  canonical \in Keys
<1>1. CASE rootByKey[root] # NoKey
  BY <1>1 DEF RegistryTypeOK, CanonicalRoots
<1>2. CASE rootByKey[root] = NoKey /\ KnownRoots(aliases) # {}
  BY <1>2 DEF RegistryTypeOK, CanonicalRoots, KnownRoots
<1>3. CASE rootByKey[root] = NoKey /\ KnownRoots(aliases) = {}
  BY <1>3 DEF CanonicalRoots
<1>4. QED BY <1>1, <1>2, <1>3

\* The tokens a signal matches are tokens.
LEMMA MatchingTokensAreTokens ==
    ASSUME RegistryTypeOK, NEW root \in Keys, NEW aliases \in SUBSET Keys
    PROVE  MatchingTokens(root, aliases) \subseteq Tokens
<1>1. KnownRoots(aliases \cup {root}) \subseteq Keys
  BY DEF RegistryTypeOK, KnownRoots
<1>2. \A k \in Keys : connectionsByKey[k] \subseteq Tokens
  BY DEF RegistryTypeOK
<1>3. QED BY <1>1, <1>2 DEF MatchingTokens

\* The known generation only rises, within its bound.
LEMMA RaisedGeneration ==
    ASSUME NEW known \in 0..MaxGeneration, NEW generation \in 0..MaxGeneration
    PROVE  /\ Raised(known, generation) \in 0..MaxGeneration
           /\ Raised(known, generation) >= known
           /\ Raised(known, generation) >= generation
<1>1. MaxGeneration \in Nat
  BY RegistryBoundsAssumption
<1>2. QED BY <1>1 DEF Raised

\* The invariant holds of an empty registry.
LEMMA InitInv == RegistryInit => RegistryInv
<1> SUFFICES ASSUME RegistryInit PROVE RegistryInv
  OBVIOUS
<1>1. RegistryTypeOK
  BY RegistryBoundsAssumption DEF RegistryInit, RegistryTypeOK
<1>2. EntriesInv /\ IndexComplete
  BY DEF RegistryInit, EntriesInv, IndexComplete
<1>3. QED BY <1>1, <1>2 DEF RegistryInv

\* Registering a connection, which is indexed under all its keys at once.
LEMMA RegisterInv ==
    ASSUME RegistryInv, NEW token \in Tokens, NEW root \in Keys,
           NEW aliases \in SUBSET Keys, NEW generation \in 0..MaxGeneration,
           Register(token, root, aliases, generation)
    PROVE  RegistryInv'
<1>1. PICK canonical \in CanonicalRoots(root, aliases) :
        LET keys == aliases \cup {canonical} IN
        /\ connections' =
             [connections EXCEPT ![token] =
                [live |-> TRUE, root |-> canonical, aliases |-> keys,
                 gen |-> generation, signal |-> SignalAtStart(canonical, generation)]]
        /\ connectionsByKey' =
             [k \in Keys |-> IF k \in keys THEN connectionsByKey[k] \cup {token}
                                           ELSE connectionsByKey[k]]
        /\ rootByKey' =
             [k \in Keys |-> IF k \in keys /\ rootByKey[k] = NoKey
                             THEN canonical ELSE rootByKey[k]]
  BY DEF Register
<1> DEFINE keys == aliases \cup {canonical}
           entry == [live |-> TRUE, root |-> canonical, aliases |-> keys,
                     gen |-> generation, signal |-> SignalAtStart(canonical, generation)]
<1>2. canonical \in Keys
  BY CanonicalRootIsKey DEF RegistryInv
<1>3. UNCHANGED generationByRoot
  BY DEF Register
<1>4. SignalAtStart(canonical, generation) \in 0..MaxGeneration
  BY <1>2, RegistryBoundsAssumption DEF RegistryInv, RegistryTypeOK, SignalAtStart
<1>5. entry \in Entry
  BY <1>2, <1>4
<1>6. RegistryTypeOK'
  BY <1>1, <1>2, <1>3, <1>5 DEF RegistryInv, RegistryTypeOK
<1>7. /\ connections'[token] = entry
      /\ \A t \in Tokens \ {token} : connections'[t] = connections[t]
      /\ \A k \in Keys : connectionsByKey[k] \subseteq connectionsByKey'[k]
      /\ \A k \in keys : token \in connectionsByKey'[k]
  BY <1>1, <1>2 DEF RegistryInv, RegistryTypeOK
<1>8. EntriesInv'
  <2> SUFFICES ASSUME NEW t \in Tokens
               PROVE  /\ connections'[t].live => connections'[t].root \in Keys
                      /\ ~connections'[t].live => connections'[t] = NoEntry
    BY Zenon DEF EntriesInv
  <2>1. CASE t = token
    BY <2>1, <1>2, <1>7
  <2>2. CASE t # token
    BY <2>2, <1>7 DEF RegistryInv, EntriesInv
  <2>3. QED BY <2>1, <2>2
<1>9. IndexComplete'
  <2> SUFFICES ASSUME NEW t \in Tokens, connections'[t].live,
                      NEW k \in connections'[t].aliases \cup {connections'[t].root}
               PROVE  t \in connectionsByKey'[k]
    BY DEF IndexComplete
  <2>1. CASE t = token
    BY <2>1, <1>7
  <2>2. CASE t # token
    <3>1. t \in connectionsByKey[k] /\ k \in Keys
      BY <2>2, <1>7 DEF RegistryInv, RegistryTypeOK, EntriesInv, IndexComplete
    <3>2. QED BY <3>1, <1>7
  <2>3. QED BY <2>1, <2>2
<1>10. QED BY <1>6, <1>8, <1>9 DEF RegistryInv

\* A signal gives every connection it matches its root, and indexes it there.
LEMMA SignalInv ==
    ASSUME RegistryInv, NEW root \in Keys, NEW aliases \in SUBSET Keys,
           NEW generation \in 0..MaxGeneration,
           SignalReroute(root, aliases, generation)
    PROVE  RegistryInv'
<1> DEFINE tokens == MatchingTokens(root, aliases)
           moved(entry) == [entry EXCEPT !.root = root,
                              !.signal = IF entry.gen < generation THEN generation ELSE @]
<1>1. tokens \subseteq Tokens
  BY MatchingTokensAreTokens DEF RegistryInv
<1>2. /\ generationByRoot' = [generationByRoot EXCEPT ![root] = Raised(@, generation)]
      /\ rootByKey' = [k \in Keys |-> IF k \in aliases \cup {root} THEN root ELSE rootByKey[k]]
      /\ connections' = [t \in Tokens |->
                           IF t \in tokens /\ connections[t].live
                           THEN moved(connections[t]) ELSE connections[t]]
      /\ connectionsByKey' = [connectionsByKey EXCEPT ![root] = @ \cup tokens]
  BY DEF SignalReroute, IndexedUnder
<1>3. \A t \in Tokens : moved(connections[t]) \in Entry
  <2>1. ASSUME NEW e \in Entry PROVE moved(e) \in Entry
    OBVIOUS
  <2>2. QED BY <2>1 DEF RegistryInv, RegistryTypeOK
<1>4. generationByRoot' \in [Keys -> 0..MaxGeneration]
  <2>1. generationByRoot[root] \in 0..MaxGeneration
    BY DEF RegistryInv, RegistryTypeOK
  <2>2. Raised(generationByRoot[root], generation) \in 0..MaxGeneration
    BY <2>1, RaisedGeneration
  <2>3. QED BY <1>2, <2>2 DEF RegistryInv, RegistryTypeOK
<1>5. RegistryTypeOK'
  <2>1. connections' \in [Tokens -> Entry]
    BY <1>2, <1>3 DEF RegistryInv, RegistryTypeOK
  <2>2. connectionsByKey' \in [Keys -> SUBSET Tokens]
    BY <1>1, <1>2 DEF RegistryInv, RegistryTypeOK
  <2>3. rootByKey' \in [Keys -> Keys \cup {NoKey}]
    BY <1>2 DEF RegistryInv, RegistryTypeOK
  <2>4. QED BY <1>4, <2>1, <2>2, <2>3 DEF RegistryTypeOK
<1>6. ASSUME NEW t \in Tokens
      PROVE  /\ connections'[t].live = connections[t].live
             /\ connections'[t].aliases = connections[t].aliases
             /\ \/ connections'[t] = connections[t]
                \/ connections'[t].live /\ t \in tokens /\ connections'[t].root = root
  BY <1>2 DEF RegistryInv, RegistryTypeOK
<1>7. EntriesInv'
  BY <1>6 DEF RegistryInv, EntriesInv
<1>8. IndexComplete'
  <2> SUFFICES ASSUME NEW t \in Tokens, connections'[t].live,
                      NEW k \in connections'[t].aliases \cup {connections'[t].root}
               PROVE  t \in connectionsByKey'[k]
    BY DEF IndexComplete
  <2>1. \A key \in Keys : connectionsByKey[key] \subseteq connectionsByKey'[key]
    BY <1>2 DEF RegistryInv, RegistryTypeOK
  <2>2. tokens \subseteq connectionsByKey'[root]
    BY <1>2 DEF RegistryInv, RegistryTypeOK
  <2>3. CASE k \in connections[t].aliases \cup {connections[t].root}
    <3>1. t \in connectionsByKey[k] /\ k \in Keys
      BY <2>3, <1>6 DEF RegistryInv, RegistryTypeOK, EntriesInv, IndexComplete
    <3>2. QED BY <3>1, <2>1
  <2>4. CASE k \notin connections[t].aliases \cup {connections[t].root}
    BY <2>4, <2>2, <1>6
  <2>5. QED BY <2>3, <2>4
<1>9. QED BY <1>5, <1>7, <1>8 DEF RegistryInv

\* Dropping a registration takes only its own token out of the index.
LEMMA UnregisterInv ==
    ASSUME RegistryInv, NEW token \in Tokens, Unregister(token)
    PROVE  RegistryInv'
<1>1. /\ connections' = [connections EXCEPT ![token] = NoEntry]
      /\ connectionsByKey' =
           [k \in Keys |-> IF k \in connections[token].aliases \cup {connections[token].root}
                           THEN connectionsByKey[k] \ {token} ELSE connectionsByKey[k]]
      /\ UNCHANGED <<rootByKey, generationByRoot>>
  BY DEF Unregister
<1>2. NoEntry \in Entry
  BY RegistryBoundsAssumption
<1>3. RegistryTypeOK'
  BY <1>1, <1>2 DEF RegistryInv, RegistryTypeOK
<1>4. /\ connections'[token] = NoEntry
      /\ \A t \in Tokens \ {token} : connections'[t] = connections[t]
      /\ \A k \in Keys : connectionsByKey[k] \ {token} \subseteq connectionsByKey'[k]
  BY <1>1 DEF RegistryInv, RegistryTypeOK
<1>5. EntriesInv'
  <2> SUFFICES ASSUME NEW t \in Tokens
               PROVE  /\ connections'[t].live => connections'[t].root \in Keys
                      /\ ~connections'[t].live => connections'[t] = NoEntry
    BY Zenon DEF EntriesInv
  <2>1. CASE t = token
    BY <2>1, <1>4
  <2>2. CASE t # token
    BY <2>2, <1>4 DEF RegistryInv, EntriesInv
  <2>3. QED BY <2>1, <2>2
<1>6. IndexComplete'
  <2> SUFFICES ASSUME NEW t \in Tokens, connections'[t].live,
                      NEW k \in connections'[t].aliases \cup {connections'[t].root}
               PROVE  t \in connectionsByKey'[k]
    BY DEF IndexComplete
  <2>1. t # token
    BY <1>4
  <2>2. t \in connectionsByKey[k] /\ k \in Keys
    BY <2>1, <1>4 DEF RegistryInv, RegistryTypeOK, EntriesInv, IndexComplete
  <2>3. QED BY <2>1, <2>2, <1>4
<1>7. QED BY <1>3, <1>5, <1>6 DEF RegistryInv

\* Every step of the registry keeps the invariant.
LEMMA NextInv == RegistryInv /\ [RegistryNext]_registryVars => RegistryInv'
<1> SUFFICES ASSUME RegistryInv, [RegistryNext]_registryVars PROVE RegistryInv'
  OBVIOUS
<1>1. CASE UNCHANGED registryVars
  BY <1>1 DEF registryVars, RegistryInv, RegistryTypeOK, EntriesInv, IndexComplete
<1>2. CASE \E token \in Tokens, root \in Keys, aliases \in SUBSET Keys,
              generation \in 0..MaxGeneration :
             aliases # {} /\ Register(token, root, aliases, generation)
  BY <1>2, RegisterInv
<1>3. CASE \E root \in Keys, aliases \in SUBSET Keys, generation \in 1..MaxGeneration :
             SignalReroute(root, aliases, generation)
  <2>1. 1..MaxGeneration \subseteq 0..MaxGeneration
    BY RegistryBoundsAssumption
  <2>2. QED BY <1>3, <2>1, SignalInv
<1>4. CASE \E t \in Tokens : Unregister(t)
  BY <1>4, UnregisterInv
<1>5. QED BY <1>1, <1>2, <1>3, <1>4 DEF RegistryNext

\* The invariant of the registry, for any tokens, keys and roots.
THEOREM RegistryInvariant == RegistrySpec => []RegistryInv
<1>1. RegistryInit => RegistryInv
  BY InitInv
<1>2. RegistryInv /\ [RegistryNext]_registryVars => RegistryInv'
  BY NextInv
<1>3. QED BY <1>1, <1>2, PTL DEF RegistrySpec

\* register, signal_reroute and unregister keep the four maps typed.
THEOREM RegistryTypeCorrect == RegistrySpec => []RegistryTypeOK
<1>1. RegistryInv => RegistryTypeOK
  BY DEF RegistryInv
<1>2. QED BY <1>1, RegistryInvariant, PTL

\* connections_by_key finds every open connection under each of its aliases and
\* under its current root, after any sequence of registrations and signals.
THEOREM RegistryIndexComplete == RegistrySpec => []IndexComplete
<1>1. RegistryInv => IndexComplete
  BY DEF RegistryInv
<1>2. QED BY <1>1, RegistryInvariant, PTL

-----------------------------------------------------------------------------
\* What SignalsPersist says of a step: known generations do not go down, and a
\* connection that has been signalled and stays open stays signalled.
Persist ==
    /\ \A r \in Keys : generationByRoot'[r] >= generationByRoot[r]
    /\ \A t \in Tokens :
         connections[t].signal > connections[t].gen /\ connections'[t].live
           => connections'[t].signal > connections'[t].gen

\* A registration takes a token whose entry has been cleared.
LEMMA RegisterPersists ==
    ASSUME RegistryInv, NEW token \in Tokens, NEW root \in Keys,
           NEW aliases \in SUBSET Keys, NEW generation \in 0..MaxGeneration,
           Register(token, root, aliases, generation)
    PROVE  Persist
<1>1. UNCHANGED generationByRoot
  BY DEF Register
<1>2. ~connections[token].live
  BY DEF Register, NextToken, IsFresh
<1>3. connections[token].signal = 0 /\ connections[token].gen = 0
  BY <1>2 DEF RegistryInv, EntriesInv
<1>4. \A t \in Tokens \ {token} : connections'[t] = connections[t]
  BY DEF Register, RegistryInv, RegistryTypeOK
<1>5. \A r \in Keys : generationByRoot'[r] >= generationByRoot[r]
  BY <1>1, RegistryBoundsAssumption DEF RegistryInv, RegistryTypeOK
<1>6. QED BY <1>3, <1>4, <1>5 DEF Persist

\* A signal raises the generation of its root and of the connections it finds.
LEMMA SignalPersists ==
    ASSUME RegistryInv, NEW root \in Keys, NEW aliases \in SUBSET Keys,
           NEW generation \in 0..MaxGeneration,
           SignalReroute(root, aliases, generation)
    PROVE  Persist
<1>1. /\ generationByRoot' = [generationByRoot EXCEPT ![root] = Raised(@, generation)]
      /\ \A t \in Tokens :
           \/ connections'[t] = connections[t]
           \/ connections'[t] =
                [connections[t] EXCEPT !.root = root,
                   !.signal = IF connections[t].gen < generation THEN generation ELSE @]
  BY DEF SignalReroute
<1>2. ASSUME NEW r \in Keys PROVE generationByRoot'[r] >= generationByRoot[r]
  <2>1. generationByRoot[r] \in 0..MaxGeneration /\ generationByRoot[r] \in Int
    BY RegistryBoundsAssumption DEF RegistryInv, RegistryTypeOK
  <2>2. \/ generationByRoot'[r] = generationByRoot[r]
        \/ generationByRoot'[r] = Raised(generationByRoot[r], generation)
    BY <1>1 DEF RegistryInv, RegistryTypeOK
  <2>3. QED BY <2>1, <2>2, RaisedGeneration
<1>3. ASSUME NEW t \in Tokens, connections[t].signal > connections[t].gen
      PROVE  connections'[t].signal > connections'[t].gen
  <2>1. connections[t] \in Entry
    BY DEF RegistryInv, RegistryTypeOK
  <2>2. QED BY <1>1, <1>3, <2>1, RegistryBoundsAssumption
<1>4. QED BY <1>2, <1>3 DEF Persist

\* A dropped registration clears its own entry only.
LEMMA UnregisterPersists ==
    ASSUME RegistryInv, NEW token \in Tokens, Unregister(token)
    PROVE  Persist
<1>1. UNCHANGED generationByRoot /\ connections'[token] = NoEntry
  BY DEF Unregister, RegistryInv, RegistryTypeOK
<1>2. \A t \in Tokens \ {token} : connections'[t] = connections[t]
  BY DEF Unregister, RegistryInv, RegistryTypeOK
<1>3. \A r \in Keys : generationByRoot'[r] >= generationByRoot[r]
  BY <1>1, RegistryBoundsAssumption DEF RegistryInv, RegistryTypeOK
<1>4. QED BY <1>1, <1>2, <1>3 DEF Persist

\* signal_reroute never takes a signal back, whatever the order of the commands.
THEOREM RegistrySignalsPersist == RegistrySpec => SignalsPersist
<1>1. ASSUME RegistryInv, RegistryNext PROVE Persist
  <2>1. 1..MaxGeneration \subseteq 0..MaxGeneration
    BY RegistryBoundsAssumption
  <2>2. QED
    BY <1>1, <2>1, RegisterPersists, SignalPersists, UnregisterPersists DEF RegistryNext
<1>2. RegistryInv /\ [RegistryNext]_registryVars => [Persist]_registryVars
  BY <1>1
<1>3. QED BY <1>2, RegistryInvariant, PTL DEF RegistrySpec, SignalsPersist, Persist

-----------------------------------------------------------------------------
(***************************************************************************)
(* The composition with commands and bridges.                              *)
(***************************************************************************)
HIDE DEF Tokens, Entry, NoEntry

OpenPhases == {"open", "turn"}

\* A bridge that carries turns has an open registration of its own generation, under
\* all the client's keys, which no other bridge has.
Registered(b) ==
    bridges[b].phase \in OpenPhases =>
        /\ bridges[b].token \in Tokens
        /\ connections[bridges[b].token].live
        /\ connections[bridges[b].token].gen = bridges[b].epoch.gen
        /\ KeysOfClient[b] \subseteq connections[bridges[b].token].aliases

DistinctTokens ==
    \A b, c \in Bridges :
        /\ bridges[b].phase \in OpenPhases
        /\ bridges[c].phase \in OpenPhases
        /\ bridges[b].token = bridges[c].token
        => b = c

RerouteInv ==
    /\ RerouteTypeOK
    /\ EntriesInv
    /\ IndexComplete
    /\ \A b \in Bridges : Registered(b)
    /\ DistinctTokens

-----------------------------------------------------------------------------
\* The root of a tree is its own root.
Rooted == \A k \in Keys : keyRoot[k] # NoKey => keyRoot[keyRoot[k]] = keyRoot[k]

\* The tree a bridge resolved has not gone back.
EpochBehind(b) ==
    bridges[b].phase # "idle" /\ bridges[b].epoch # NoEpoch =>
        /\ keyRoot[bridges[b].epoch.root] # NoKey
        /\ gen[keyRoot[bridges[b].epoch.root]] >= bridges[b].epoch.gen

\* The trees of a named bridge's keys are above its epoch.
NamedKeysMoved(b) ==
    bridges[b].phase # "idle" /\ bridges[b].named =>
        \A k \in RegisteredKeys(b) :
            keyRoot[k] # NoKey /\ gen[keyRoot[k]] > bridges[b].epoch.gen

\* A signal under way that names all the keys of the bridge.
OnItsWay(b) ==
    \E s \in unsent : RegisteredKeys(b) \subseteq s.keys /\ s.gen > bridges[b].epoch.gen

\* The registry knows each key of the bridge by a root signalled above its epoch.
RegistryKnows(b) ==
    \A k \in RegisteredKeys(b) :
        rootByKey[k] # NoKey /\ generationByRoot[rootByKey[k]] > bridges[b].epoch.gen

NamedKnown(b) ==
    bridges[b].phase # "idle" /\ bridges[b].named => RegistryKnows(b) \/ OnItsWay(b)

NamedTold(b) ==
    bridges[b].phase \in OpenPhases /\ bridges[b].named => Signalled(b) \/ OnItsWay(b)

BridgeInv(b) ==
    /\ EpochBehind(b)
    /\ NamedKeysMoved(b)
    /\ NamedKnown(b)
    /\ NamedTold(b)

\* The one signal under way still describes the tables.
UnsentCurrent ==
    \A s \in unsent :
        /\ s.root \in s.keys
        /\ gen[s.root] = s.gen
        /\ \A k \in s.keys : keyRoot[k] = s.root

AtMostOneUnsent == unsent = {} \/ \E s \in Signal : unsent = {s}

SignalInvariant ==
    /\ Rooted
    /\ UnsentCurrent
    /\ AtMostOneUnsent
    /\ \A b \in Bridges : BridgeInv(b)

-----------------------------------------------------------------------------
USE RegistryKeysAssumption, RegistryBoundsAssumption

\* The registry's own invariant is a part of the composed one.
LEMMA RegistryPart == RerouteInv => RegistryInv
BY DEF RerouteInv, RerouteTypeOK, RegistryInv

TablesTypeOK ==
    /\ keyRoot \in [Keys -> Keys \cup {NoKey}]
    /\ gen \in [Keys -> 0..MaxGeneration]
    /\ commanded \in SUBSET Keys

\* No tree of the tables goes back, and no key loses its tree.
TreesAdvance ==
    \A k \in Keys : keyRoot[k] # NoKey =>
        keyRoot'[k] # NoKey /\ gen'[keyRoot'[k]] >= gen[keyRoot[k]]

\* The trees of a set of keys are keys.
LEMMA TreesAreKeys ==
    ASSUME TablesTypeOK, NEW keys \in SUBSET Keys
    PROVE  Tables!TreesOf(keys) \subseteq Keys
BY DEF TablesTypeOK, Tables!TreesOf

\* Keys that join a tree leave all other keys and every generation alone.
LEMMA JoinTypeOK ==
    ASSUME TablesTypeOK, NEW root \in Keys, NEW keys \in SUBSET Keys,
           Tables!Join(root, keys)
    PROVE  TablesTypeOK'
BY DEF TablesTypeOK, Tables!Join

\* A first bind gives trees to keys that have none and raises no generation.
LEMMA JoinKeepsTrees ==
    ASSUME TablesTypeOK, NEW root \in Keys, NEW keys \in SUBSET Keys,
           Tables!Join(root, keys)
    PROVE  /\ \A k \in Keys : keyRoot[k] # NoKey => keyRoot'[k] = keyRoot[k]
           /\ gen' = gen
           /\ TreesAdvance
<1>1. gen' = gen
  BY DEF Tables!Join
<1>2. ASSUME NEW k \in Keys, keyRoot[k] # NoKey PROVE keyRoot'[k] = keyRoot[k]
  BY <1>2 DEF Tables!Join, Tables!TreesOf
<1>3. \A k \in Keys : keyRoot[k] # NoKey => gen[keyRoot[k]] \in Int
  BY DEF TablesTypeOK
<1>4. QED BY <1>1, <1>2, <1>3 DEF TreesAdvance

\* A first bind leaves every root the root of its own tree.
LEMMA JoinRooted ==
    ASSUME TablesTypeOK, Rooted, NEW root \in Keys, NEW keys \in SUBSET Keys,
           Tables!Join(root, keys)
    PROVE  Rooted'
<1> SUFFICES ASSUME NEW k \in Keys, keyRoot'[k] # NoKey
             PROVE  keyRoot'[keyRoot'[k]] = keyRoot'[k]
  BY DEF Rooted
<1>1. CASE keyRoot[k] # NoKey
  <2>1. keyRoot[k] \in Keys /\ keyRoot[keyRoot[k]] = keyRoot[k]
    BY <1>1 DEF Rooted, TablesTypeOK
  <2>2. QED BY <1>1, <2>1, JoinKeepsTrees
<1>2. CASE keyRoot[k] = NoKey
  <2>1. keyRoot'[k] = root
    BY <1>2 DEF Tables!Join
  <2>2. keyRoot'[root] = root
    BY DEF Tables!Join, Tables!IsRoot
  <2>3. QED BY <2>1, <2>2
<1>3. QED BY <1>1, <1>2

\* Trees that a command regroups, at a generation none of them is above.
LEMMA RegroupTypeOK ==
    ASSUME TablesTypeOK, NEW root \in Keys, NEW keys \in SUBSET Keys,
           NEW generation \in 0..MaxGeneration, Tables!Regroup(root, keys, generation)
    PROVE  /\ TablesTypeOK'
           /\ gen'[root] = generation
           /\ \A k \in keys : keyRoot'[k] = root
<1> DEFINE merged == Tables!TreesOf(keys) \cup {root}
<1>1. /\ keyRoot' = [k \in Keys |->
                       IF k \in keys \cup Tables!MembersOf(merged) THEN root ELSE keyRoot[k]]
      /\ gen' = [r \in Keys |-> IF r = root THEN generation
                                ELSE IF r \in merged THEN 0 ELSE gen[r]]
      /\ commanded' = (commanded \ merged) \cup {root}
  BY DEF Tables!Regroup
<1> HIDE DEF merged
<1>2. keyRoot' \in [Keys -> Keys \cup {NoKey}]
  BY <1>1 DEF TablesTypeOK
<1>3. gen' \in [Keys -> 0..MaxGeneration]
  <2>1. 0 \in 0..MaxGeneration
    OBVIOUS
  <2>2. QED BY <1>1, <2>1 DEF TablesTypeOK
<1>4. commanded' \in SUBSET Keys
  BY <1>1 DEF TablesTypeOK
<1>5. QED BY <1>1, <1>2, <1>3, <1>4 DEF TablesTypeOK

\* Regrouping under a generation that is not older advances the tree of every key.
LEMMA RegroupAdvances ==
    ASSUME TablesTypeOK, Rooted, NEW root \in Keys, NEW keys \in SUBSET Keys,
           NEW generation \in 0..MaxGeneration, Tables!Regroup(root, keys, generation),
           \A r \in Tables!TreesOf(keys) \cup {root} : gen[r] <= generation
    PROVE  TreesAdvance /\ Rooted'
<1> DEFINE merged == Tables!TreesOf(keys) \cup {root}
           moved == keys \cup Tables!MembersOf(merged)
<1>1. /\ root \in keys
      /\ keyRoot' = [k \in Keys |-> IF k \in moved THEN root ELSE keyRoot[k]]
      /\ gen' = [r \in Keys |-> IF r = root THEN generation
                                ELSE IF r \in merged THEN 0 ELSE gen[r]]
  BY DEF Tables!Regroup
<1>2. \A k \in keys : keyRoot[k] # NoKey => keyRoot[k] \in merged
  BY DEF Tables!TreesOf
<1>3. \A k \in Keys : k \in moved <=> k \in keys \/ keyRoot[k] \in merged
  BY DEF Tables!MembersOf
<1>4. \A r \in merged : gen[r] <= generation
  OBVIOUS
<1>r. root \in merged
  OBVIOUS
<1> HIDE DEF merged, moved
<1>5. ASSUME NEW k \in Keys, keyRoot[k] # NoKey
      PROVE  /\ k \in moved => keyRoot'[k] = root /\ gen[keyRoot[k]] <= generation
             /\ k \notin moved => /\ keyRoot'[k] = keyRoot[k]
                                  /\ keyRoot[k] \notin merged
                                  /\ keyRoot[k] \notin moved
  <2>1. keyRoot[k] \in Keys /\ keyRoot[keyRoot[k]] = keyRoot[k]
    BY <1>5 DEF Rooted, TablesTypeOK
  <2>2. QED BY <1>1, <1>2, <1>3, <1>4, <1>5, <2>1
<1>6. TreesAdvance
  <2> SUFFICES ASSUME NEW k \in Keys, keyRoot[k] # NoKey
               PROVE  keyRoot'[k] # NoKey /\ gen'[keyRoot'[k]] >= gen[keyRoot[k]]
    BY DEF TreesAdvance
  <2>1. keyRoot[k] \in Keys /\ gen[keyRoot[k]] \in Int
    BY DEF TablesTypeOK
  <2>2. CASE k \in moved
    <3>1. keyRoot'[k] = root /\ gen[keyRoot[k]] <= generation /\ gen'[root] = generation
      BY <1>1, <1>5, <2>2
    <3>2. QED BY <3>1, <2>1
  <2>3. CASE k \notin moved
    <3>1. keyRoot'[k] = keyRoot[k] /\ gen'[keyRoot[k]] = gen[keyRoot[k]]
      BY <1>1, <1>r, <1>5, <2>1, <2>3
    <3>2. QED BY <3>1, <2>1
  <2>4. QED BY <2>2, <2>3
<1>7. Rooted'
  <2> SUFFICES ASSUME NEW k \in Keys, keyRoot'[k] # NoKey
               PROVE  keyRoot'[keyRoot'[k]] = keyRoot'[k]
    BY DEF Rooted
  <2>1. CASE k \in moved
    <3>1. keyRoot'[k] = root /\ root \in moved
      BY <1>1, <1>3, <2>1
    <3>2. QED BY <1>1, <3>1
  <2>2. CASE k \notin moved
    <3>1. keyRoot[k] # NoKey
      BY <1>1, <2>2
    <3>2. keyRoot[k] \in Keys /\ keyRoot[keyRoot[k]] = keyRoot[k]
      BY <3>1 DEF Rooted, TablesTypeOK
    <3>3. QED BY <1>1, <1>5, <2>2, <3>1, <3>2
  <2>3. QED BY <2>1, <2>2
<1>8. QED BY <1>6, <1>7

-----------------------------------------------------------------------------
(* What the actions do to a bridge, to the registry and to the tables. *)

\* An open bridge keeps its registration.
KeepsRegistration(b) ==
    bridges'[b].phase \in OpenPhases =>
        /\ bridges[b].phase \in OpenPhases
        /\ bridges'[b].token = bridges[b].token
        /\ bridges'[b].epoch = bridges[b].epoch
        /\ connections'[bridges[b].token].live = connections[bridges[b].token].live
        /\ connections'[bridges[b].token].gen = connections[bridges[b].token].gen
        /\ connections'[bridges[b].token].aliases = connections[bridges[b].token].aliases

\* Bridges whose entries stay in place stay registered, each under its own token.
LEMMA RegistrationsKept ==
    ASSUME RerouteInv, \A b \in Bridges : KeepsRegistration(b)
    PROVE  (\A b \in Bridges : Registered(b)') /\ DistinctTokens'
<1>1. ASSUME NEW b \in Bridges PROVE Registered(b)'
  BY ZenonT(60) DEF RerouteInv, KeepsRegistration, Registered
<1>2. DistinctTokens'
  BY Zenon DEF RerouteInv, KeepsRegistration, DistinctTokens
<1>3. QED BY <1>1, <1>2

\* A bridge's keys and epoch, typed.
LEMMA BridgeTypes ==
    ASSUME RerouteInv, NEW b \in Bridges
    PROVE  /\ bridges[b] \in Bridge
           /\ bridges[b].epoch \in Epoch
           /\ bridges[b].epoch.gen \in 0..MaxGeneration
           /\ bridges[b].epoch.gen \in Int
           /\ bridges[b].epoch # NoEpoch => bridges[b].epoch.root \in Keys
           /\ bridges[b].epoch = NoEpoch => bridges[b].epoch.gen = 0
           /\ bridges[b].epoch = NoEpoch => bridges[b].epoch.root = NoKey
           /\ KeysOfClient[b] \in SUBSET Keys
           /\ KeysOfClient[b] # {}
           /\ RegisteredKeys(b) \subseteq Keys
           /\ KeysOfClient[b] \subseteq RegisteredKeys(b)
           /\ bridges[b].epoch # NoEpoch => bridges[b].epoch.root \in RegisteredKeys(b)
<1>1. bridges[b] \in Bridge
  BY DEF RerouteInv, RerouteTypeOK
<1>2. bridges[b].epoch \in Epoch
  BY <1>1 DEF Bridge
<1>3. KeysOfClient[b] \in SUBSET Keys /\ KeysOfClient[b] # {}
  <2>1. KeysOfClient \in [Bridges -> (SUBSET Keys) \ {{}}]
    BY ClientsAssumption
  <2>2. KeysOfClient[b] \in (SUBSET Keys) \ {{}}
    BY <2>1
  <2>3. QED BY <2>2
<1>4. CASE bridges[b].epoch = NoEpoch
  <2>1. bridges[b].epoch.root = NoKey /\ bridges[b].epoch.gen = 0
    BY <1>4 DEF NoEpoch
  <2>2. RegisteredKeys(b) = KeysOfClient[b]
    BY <1>3, <2>1 DEF RegisteredKeys
  <2>3. QED BY <1>1, <1>2, <1>3, <1>4, <2>1, <2>2
<1>5. CASE bridges[b].epoch # NoEpoch
  <2>1. bridges[b].epoch.root \in Keys /\ bridges[b].epoch.gen \in 0..MaxGeneration
    BY <1>2, <1>5 DEF Epoch
  <2>2. RegisteredKeys(b) = KeysOfClient[b] \cup {bridges[b].epoch.root}
    BY <2>1 DEF RegisteredKeys
  <2>3. QED BY <1>1, <1>2, <1>3, <1>5, <2>1, <2>2
<1>6. QED BY <1>4, <1>5

\* A bind that is allowed joins the keys to one tree.
LEMMA BindJoins ==
    ASSUME RerouteInv, NEW b \in Bridges, NEW keys \in SUBSET Keys, BindKeys(b, keys)
    PROVE  \E root \in Keys : Tables!Join(root, keys)
<1>1. TablesTypeOK
  BY DEF RerouteInv, RerouteTypeOK, TablesTypeOK
<1>2. BindRoots(bridges[b].epoch, keys) \subseteq Keys
  BY <1>1, BridgeTypes, TreesAreKeys DEF BindRoots
<1>3. QED BY <1>2 DEF BindKeys

\* A step that keeps the tables or binds keys.
BindsOrKeeps == UNCHANGED tableVars \/ \E root \in Keys, keys \in SUBSET Keys : Tables!Join(root, keys)

\* A bind of a response keeps the types of the tables.
LEMMA BindsOrKeepsTypeOK ==
    ASSUME RerouteInv, BindsOrKeeps
    PROVE  TablesTypeOK'
<1>1. TablesTypeOK
  BY DEF RerouteInv, RerouteTypeOK, TablesTypeOK
<1>2. CASE UNCHANGED tableVars
  BY <1>1, <1>2 DEF tableVars, TablesTypeOK
<1>3. QED BY <1>1, <1>2, JoinTypeOK DEF BindsOrKeeps

\* A command's transaction regroups the trees of its keys: at their largest
\* generation, or one above it.
LEMMA MergeRegroups ==
    ASSUME NEW root \in Keys, NEW keys \in SUBSET Keys, Tables!Merge(root, keys)
    PROVE  \E g \in 0..MaxGeneration :
             /\ Tables!Regroup(root, keys, g)
             /\ \A r \in Tables!TreesOf(keys) \cup {root} : gen[r] <= g
BY DEF Tables!Merge, Tables!IsLatest

\* A reroute regroups the tree under a generation newer than all it merges.
LEMMA MoveRegroups ==
    ASSUME TablesTypeOK, NEW root \in Keys, NEW keys \in SUBSET Keys, Tables!Move(root, keys)
    PROVE  \E g \in 0..MaxGeneration :
             /\ Tables!Regroup(root, keys, g)
             /\ \A r \in Tables!TreesOf(keys) \cup {root} : gen[r] < g
             /\ 0 < g
<1>1. PICK g \in 0..(MaxGeneration - 1) :
        Tables!IsLatest(root, keys, g) /\ Tables!Regroup(root, keys, g + 1)
  BY DEF Tables!Move
<1>2. g + 1 \in 0..MaxGeneration /\ 0 < g + 1
  BY <1>1
<1>3. \A r \in Tables!TreesOf(keys) \cup {root} : gen[r] \in Int /\ gen[r] <= g
  BY <1>1, TreesAreKeys DEF Tables!IsLatest, TablesTypeOK
<1>4. \A r \in Tables!TreesOf(keys) \cup {root} : gen[r] < g + 1
  BY <1>3
<1>5. QED BY <1>1, <1>2, <1>4

\* The parts of RerouteInv that are not about registrations.
LEMMA TypesFromParts ==
    ASSUME RegistryInv', TablesTypeOK', bridges' \in [Bridges -> Bridge],
           unsent' \in SUBSET Signal, \A b \in Bridges : Registered(b)', DistinctTokens'
    PROVE  RerouteInv'
BY DEF RegistryInv, TablesTypeOK, RerouteInv, RerouteTypeOK

\* An unchanged registry.
LEMMA RegistryKept == RegistryInv /\ UNCHANGED registryVars => RegistryInv' /\ Persist
<1> SUFFICES ASSUME RegistryInv, UNCHANGED registryVars PROVE RegistryInv' /\ Persist
  OBVIOUS
<1>1. RegistryInv'
  BY DEF registryVars, RegistryInv, RegistryTypeOK, EntriesInv, IndexComplete
<1>2. Persist
  BY DEF registryVars, RegistryInv, RegistryTypeOK, Persist
<1>3. QED BY <1>1, <1>2

-----------------------------------------------------------------------------
(* RerouteInv is inductive, whatever MaxUnsent is. *)

\* The invariant holds at start-up.
LEMMA RerouteInitInv == RerouteInit => RerouteInv
<1> SUFFICES ASSUME RerouteInit PROVE RerouteInv
  OBVIOUS
<1>1. RegistryInv
  BY InitInv DEF RerouteInit
<1>2. /\ keyRoot \in [Keys -> Keys \cup {NoKey}]
      /\ gen \in [Keys -> 0..MaxGeneration]
      /\ commanded \in SUBSET Keys
  BY DEF RerouteInit, Tables!EpochInit
<1>3. IdleBridge \in Bridge
  BY DEF IdleBridge, Bridge, Phases, Epoch
<1>4. bridges \in [Bridges -> Bridge] /\ unsent \in SUBSET Signal
  BY <1>3 DEF RerouteInit
<1>5. \A b \in Bridges : bridges[b].phase \notin OpenPhases
  BY DEF RerouteInit, IdleBridge, OpenPhases
<1>6. (\A b \in Bridges : Registered(b)) /\ DistinctTokens
  BY <1>5 DEF Registered, DistinctTokens
<1>7. QED BY <1>1, <1>2, <1>4, <1>6 DEF RegistryInv, RerouteInv, RerouteTypeOK

\* One bridge changes, and an unchanged registry: it does not open.
LEMMA QuietBridgeInv ==
    ASSUME RerouteInv, NEW b \in Bridges, NEW r \in Bridge,
           bridges' = [bridges EXCEPT ![b] = r],
           r.phase \in OpenPhases => /\ bridges[b].phase \in OpenPhases
                                     /\ r.token = bridges[b].token
                                     /\ r.epoch = bridges[b].epoch,
           UNCHANGED registryVars, BindsOrKeeps, UNCHANGED unsent
    PROVE  RerouteInv' /\ Persist
<1>1. RegistryInv' /\ Persist
  BY RegistryPart, RegistryKept
<1>2. TablesTypeOK'
  BY BindsOrKeepsTypeOK
<1>3. bridges' \in [Bridges -> Bridge] /\ unsent' \in SUBSET Signal
  BY DEF RerouteInv, RerouteTypeOK
<1>4. bridges'[b] = r /\ \A c \in Bridges \ {b} : bridges'[c] = bridges[c]
  BY DEF RerouteInv, RerouteTypeOK
<1>5. ASSUME NEW c \in Bridges PROVE KeepsRegistration(c)
  <2>1. connections' = connections
    BY DEF registryVars
  <2>2. CASE c = b
    BY <2>1, <2>2, <1>4 DEF KeepsRegistration
  <2>3. CASE c # b
    BY <2>1, <2>3, <1>4 DEF KeepsRegistration
  <2>4. QED BY <2>2, <2>3
<1>6. (\A c \in Bridges : Registered(c)') /\ DistinctTokens'
  BY <1>5, RegistrationsKept
<1>7. QED BY <1>1, <1>2, <1>3, <1>6, TypesFromParts

\* A bridge's record with another phase.
LEMMA PhaseChange ==
    ASSUME RerouteInv, NEW b \in Bridges, NEW p \in Phases
    PROVE  /\ [bridges[b] EXCEPT !.phase = p] \in Bridge
           /\ [bridges[b] EXCEPT !.phase = p].phase = p
           /\ [bridges[b] EXCEPT !.phase = p].token = bridges[b].token
           /\ [bridges[b] EXCEPT !.phase = p].epoch = bridges[b].epoch
           /\ [bridges[b] EXCEPT !.phase = p].named = bridges[b].named
BY BridgeTypes DEF Bridge

\* resolve_session_route_epoch
LEMMA ResolveInv ==
    ASSUME RerouteInv, NEW b \in Bridges, Resolve(b)
    PROVE  RerouteInv' /\ Persist
<1>1. PICK epoch \in Epoch :
        bridges' = [bridges EXCEPT ![b] = [IdleBridge EXCEPT !.phase = "resolved",
                                                             !.epoch = epoch]]
  <2>1. TablesTypeOK
    BY DEF RerouteInv, RerouteTypeOK, TablesTypeOK
  <2>2. Tables!TreesOf(KeysOfClient[b]) \subseteq Keys
    BY <2>1, BridgeTypes, TreesAreKeys
  <2>3. {[root |-> r, gen |-> gen[r]] : r \in Tables!TreesOf(KeysOfClient[b])} \subseteq Epoch
    BY <2>1, <2>2 DEF TablesTypeOK, Epoch
  <2>4. NoEpoch \in Epoch
    BY DEF Epoch
  <2>5. QED BY <2>3, <2>4 DEF Resolve
<1> DEFINE r == [IdleBridge EXCEPT !.phase = "resolved", !.epoch = epoch]
<1>2. r \in Bridge /\ r.phase \notin OpenPhases
  BY DEF IdleBridge, Bridge, Phases, OpenPhases
<1>3. UNCHANGED registryVars /\ BindsOrKeeps /\ UNCHANGED unsent
  BY DEF Resolve, BindsOrKeeps
<1>4. QED BY <1>1, <1>2, <1>3, QuietBridgeInv

\* The bind of select_and_connect.
LEMMA ConnectInv ==
    ASSUME RerouteInv, NEW b \in Bridges, Connect(b)
    PROVE  RerouteInv' /\ Persist /\ BindsOrKeeps
<1>1. bridges' = [bridges EXCEPT ![b] = [bridges[b] EXCEPT !.phase = "connected"]]
  BY DEF Connect
<1>2. BindsOrKeeps
  BY BridgeTypes, BindJoins DEF Connect, BindsOrKeeps
<1>3. UNCHANGED registryVars /\ UNCHANGED unsent
  BY DEF Connect
<1>4. "connected" \in Phases /\ "connected" \notin OpenPhases
  BY DEF Phases, OpenPhases
<1>5. QED BY <1>1, <1>2, <1>3, <1>4, PhaseChange, QuietBridgeInv

\* A bridge that closes drops its registration, and no other.
LEMMA CloseInv ==
    ASSUME RerouteInv, NEW b \in Bridges, bridges[b].phase \in OpenPhases,
           Close(b), UNCHANGED <<tableVars, unsent>>
    PROVE  /\ RerouteInv' /\ Persist
           /\ bridges'[b] = IdleBridge
           /\ \A c \in Bridges \ {b} :
                /\ bridges'[c] = bridges[c]
                /\ bridges[c].phase \in OpenPhases =>
                     connections'[bridges[c].token] = connections[bridges[c].token]
           /\ UNCHANGED <<rootByKey, generationByRoot>>
<1>1. bridges[b].token \in Tokens
  BY DEF RerouteInv, Registered
<1>2. Unregister(bridges[b].token) /\ bridges' = [bridges EXCEPT ![b] = IdleBridge]
  BY DEF Close
<1>3. RegistryInv' /\ Persist
  BY <1>1, <1>2, RegistryPart, UnregisterInv, UnregisterPersists
<1>4. IdleBridge \in Bridge /\ IdleBridge.phase \notin OpenPhases
  BY DEF IdleBridge, Bridge, Phases, Epoch, OpenPhases
<1>5. bridges' \in [Bridges -> Bridge] /\ unsent' \in SUBSET Signal
  BY <1>2, <1>4 DEF RerouteInv, RerouteTypeOK
<1>6. bridges'[b] = IdleBridge /\ \A c \in Bridges \ {b} : bridges'[c] = bridges[c]
  BY <1>2 DEF RerouteInv, RerouteTypeOK
<1>7. \A t \in Tokens \ {bridges[b].token} : connections'[t] = connections[t]
  BY <1>1, <1>2 DEF Unregister, RerouteInv, RerouteTypeOK, RegistryTypeOK
<1>8. ASSUME NEW c \in Bridges \ {b}, bridges[c].phase \in OpenPhases
      PROVE  connections'[bridges[c].token] = connections[bridges[c].token]
  <2>1. bridges[c].token \in Tokens /\ bridges[c].token # bridges[b].token
    BY <1>8 DEF RerouteInv, Registered, DistinctTokens
  <2>2. QED BY <1>7, <2>1
<1>9. ASSUME NEW c \in Bridges PROVE KeepsRegistration(c)
  <2>1. CASE c = b
    BY <1>4, <1>6, <2>1 DEF KeepsRegistration
  <2>2. CASE c # b
    BY <1>6, <1>8, <2>2 DEF KeepsRegistration
  <2>3. QED BY <2>1, <2>2
<1>10. (\A c \in Bridges : Registered(c)') /\ DistinctTokens'
  BY <1>9, RegistrationsKept
<1>11. TablesTypeOK'
  BY BindsOrKeepsTypeOK DEF BindsOrKeeps
<1>12. UNCHANGED <<rootByKey, generationByRoot>>
  BY <1>2 DEF Unregister
<1>13. QED BY <1>3, <1>5, <1>6, <1>8, <1>10, <1>11, <1>12, TypesFromParts

\* The registration: a fresh token, at the epoch's generation, signalled at once when
\* the registry knows its root above that.
RegisteredAs(b, token, root, canonical) ==
    /\ root \in RegisteredKeys(b)
    /\ canonical \in CanonicalRoots(root, KeysOfClient[b])
    /\ ~connections[token].live
    /\ connections'[token] =
         [live |-> TRUE, root |-> canonical, aliases |-> KeysOfClient[b] \cup {canonical},
          gen |-> bridges[b].epoch.gen,
          signal |-> SignalAtStart(canonical, bridges[b].epoch.gen)]
    /\ \A t \in Tokens \ {token} : connections'[t] = connections[t]
    /\ \A k \in Keys : rootByKey[k] # NoKey => rootByKey'[k] = rootByKey[k]
    /\ generationByRoot' = generationByRoot
    /\ bridges'[b].phase = "open"
    /\ bridges'[b].token = token
    /\ bridges'[b].epoch = bridges[b].epoch
    /\ bridges'[b].named = bridges[b].named
    /\ \A c \in Bridges \ {b} : bridges'[c] = bridges[c]

\* A bridge that opens is registered under a free token, with the root its epoch names.
LEMMA OpenInv ==
    ASSUME RerouteInv, NEW b \in Bridges, Open(b)
    PROVE  /\ RerouteInv' /\ Persist
           /\ \E token \in Tokens, root, canonical \in Keys :
                RegisteredAs(b, token, root, canonical)
<1> DEFINE epoch == bridges[b].epoch
<1>1. PICK token \in Tokens,
           root \in IF epoch = NoEpoch THEN KeysOfClient[b] ELSE {epoch.root} :
        /\ Register(token, root, KeysOfClient[b], epoch.gen)
        /\ bridges' = [bridges EXCEPT ![b].phase = "open", ![b].token = token]
  BY DEF Open
<1>2. root \in Keys /\ root \in RegisteredKeys(b)
  BY <1>1, BridgeTypes
<1>3. RegistryInv' /\ Persist
  BY <1>1, <1>2, BridgeTypes, RegistryPart, RegisterInv, RegisterPersists
<1>4. PICK canonical \in CanonicalRoots(root, KeysOfClient[b]) :
        /\ connections' =
             [connections EXCEPT ![token] =
                [live |-> TRUE, root |-> canonical, aliases |-> KeysOfClient[b] \cup {canonical},
                 gen |-> epoch.gen, signal |-> SignalAtStart(canonical, epoch.gen)]]
        /\ rootByKey' =
             [k \in Keys |-> IF k \in KeysOfClient[b] \cup {canonical} /\ rootByKey[k] = NoKey
                             THEN canonical ELSE rootByKey[k]]
  BY <1>1 DEF Register
<1>5. canonical \in Keys
  BY <1>2, BridgeTypes, CanonicalRootIsKey, RegistryPart DEF RegistryInv
<1>6. ~connections[token].live /\ generationByRoot' = generationByRoot
  BY <1>1 DEF Register, NextToken, IsFresh
<1>7. /\ bridges' \in [Bridges -> Bridge]
      /\ bridges'[b].phase = "open"
      /\ bridges'[b].token = token
      /\ bridges'[b].epoch = bridges[b].epoch
      /\ bridges'[b].named = bridges[b].named
      /\ \A c \in Bridges \ {b} : bridges'[c] = bridges[c]
  BY <1>1, ZenonT(60) DEF RerouteInv, RerouteTypeOK, Bridge, Phases
<1>8. /\ connections'[token] =
           [live |-> TRUE, root |-> canonical, aliases |-> KeysOfClient[b] \cup {canonical},
            gen |-> epoch.gen, signal |-> SignalAtStart(canonical, epoch.gen)]
      /\ \A t \in Tokens \ {token} : connections'[t] = connections[t]
      /\ \A k \in Keys : rootByKey[k] # NoKey => rootByKey'[k] = rootByKey[k]
  BY <1>4 DEF RerouteInv, RerouteTypeOK, RegistryTypeOK
<1>9. RegisteredAs(b, token, root, canonical)
  BY <1>2, <1>4, <1>6, <1>7, <1>8 DEF RegisteredAs
<1>10. ASSUME NEW c \in Bridges \ {b}, bridges[c].phase \in OpenPhases
       PROVE  bridges[c].token \in Tokens \ {token}
  BY <1>6, <1>10 DEF RerouteInv, Registered
<1>11. ASSUME NEW c \in Bridges PROVE Registered(c)'
  <2>1. CASE c = b
    BY <1>7, <1>8, <2>1 DEF Registered
  <2>2. CASE c # b
    <3> SUFFICES ASSUME bridges[c].phase \in OpenPhases PROVE Registered(c)'
      BY <1>7, <2>2 DEF Registered
    <3>1. bridges'[c] = bridges[c]
          /\ connections'[bridges[c].token] = connections[bridges[c].token]
      BY <1>7, <1>8, <1>10, <2>2
    <3>2. QED BY <3>1 DEF RerouteInv, Registered
  <2>3. QED BY <2>1, <2>2
<1>12. DistinctTokens'
  <2> SUFFICES ASSUME NEW c \in Bridges, NEW d \in Bridges,
                      bridges'[c].phase \in OpenPhases, bridges'[d].phase \in OpenPhases,
                      bridges'[c].token = bridges'[d].token
               PROVE  c = d
    BY DEF DistinctTokens
  <2>1. CASE c # b /\ d # b
    BY <2>1, <1>7 DEF RerouteInv, DistinctTokens
  <2>2. CASE c = b \/ d = b
    BY <2>2, <1>7, <1>10
  <2>3. QED BY <2>1, <2>2
<1>13. TablesTypeOK' /\ unsent' \in SUBSET Signal
  BY BindsOrKeepsTypeOK DEF Open, BindsOrKeeps, RerouteInv, RerouteTypeOK
<1>14. RerouteInv'
  BY <1>3, <1>7, <1>11, <1>12, <1>13, TypesFromParts
<1>15. QED BY <1>2, <1>3, <1>5, <1>9, <1>14

\* A turn's bind, or the close when it is refused.
LEMMA StartTurnCases ==
    ASSUME RerouteInv, NEW b \in Bridges, StartTurn(b)
    PROVE  /\ bridges[b].phase \in OpenPhases
           /\ UNCHANGED unsent
           /\ \/ /\ bridges' = [bridges EXCEPT ![b] = [bridges[b] EXCEPT !.phase = "turn"]]
                 /\ UNCHANGED registryVars
                 /\ BindsOrKeeps
              \/ Close(b) /\ UNCHANGED tableVars
<1>1. bridges[b].phase \in OpenPhases /\ UNCHANGED unsent
  BY DEF StartTurn, OpenPhases
<1>2. CASE BindAllowed(bridges[b].epoch, KeysOfClient[b])
  BY <1>1, <1>2, BridgeTypes, BindJoins DEF StartTurn, BindsOrKeeps
<1>3. CASE ~BindAllowed(bridges[b].epoch, KeysOfClient[b])
  BY <1>1, <1>3 DEF StartTurn
<1>4. QED BY <1>1, <1>2, <1>3

\* The end of a turn binds what it learnt, or nothing, and changes only the phase of its bridge.
LEMMA FinishTurnCases ==
    ASSUME RerouteInv, NEW b \in Bridges, NEW ids \in SUBSET Keys, FinishTurn(b, ids)
    PROVE  /\ bridges[b].phase \in OpenPhases
           /\ bridges' = [bridges EXCEPT ![b] = [bridges[b] EXCEPT !.phase = "open"]]
           /\ UNCHANGED registryVars
           /\ UNCHANGED unsent
           /\ BindsOrKeeps
<1>1. KeysOfClient[b] \cup ids \in SUBSET Keys
  BY BridgeTypes
<1>2. BindsOrKeeps
  BY <1>1, BindJoins DEF FinishTurn, BindsOrKeeps
<1>3. QED BY <1>2 DEF FinishTurn, OpenPhases

\* The start and the end of a turn keep the invariant.
LEMMA TurnInv ==
    ASSUME RerouteInv, NEW b \in Bridges,
           StartTurn(b) \/ \E ids \in SUBSET Keys : FinishTurn(b, ids)
    PROVE  RerouteInv' /\ Persist
<1>1. "turn" \in Phases /\ "open" \in Phases
  BY DEF Phases
<1>2. CASE StartTurn(b)
  <2>1. CASE Close(b) /\ UNCHANGED tableVars
    BY <1>2, <2>1, StartTurnCases, CloseInv
  <2>2. CASE /\ bridges' = [bridges EXCEPT ![b] = [bridges[b] EXCEPT !.phase = "turn"]]
             /\ UNCHANGED registryVars
             /\ BindsOrKeeps
    BY <1>1, <1>2, <2>2, StartTurnCases, PhaseChange, QuietBridgeInv
  <2>3. QED BY <1>2, <2>1, <2>2, StartTurnCases
<1>3. CASE \E ids \in SUBSET Keys : FinishTurn(b, ids)
  BY <1>1, <1>3, FinishTurnCases, PhaseChange, QuietBridgeInv, ZenonT(60)
<1>4. QED BY <1>2, <1>3

\* A bridge that sees its signal closes.
LEMMA SeeRerouteInv ==
    ASSUME RerouteInv, NEW b \in Bridges, SeeReroute(b)
    PROVE  RerouteInv' /\ Persist
BY CloseInv DEF SeeReroute, OpenPhases

\* A bridge whose client leaves closes, or forgets its epoch when it was not open.
LEMMA DisconnectInv ==
    ASSUME RerouteInv, NEW b \in Bridges, Disconnect(b)
    PROVE  RerouteInv' /\ Persist
<1>1. CASE bridges[b].phase \in OpenPhases
  BY <1>1, CloseInv DEF Disconnect, OpenPhases
<1>2. CASE bridges[b].phase \notin OpenPhases
  <2>1. IdleBridge \in Bridge /\ IdleBridge.phase \notin OpenPhases
    BY DEF IdleBridge, Bridge, Phases, Epoch, OpenPhases
  <2>2. /\ bridges' = [bridges EXCEPT ![b] = IdleBridge]
        /\ UNCHANGED registryVars /\ UNCHANGED unsent /\ BindsOrKeeps
    BY <1>2 DEF Disconnect, BindsOrKeeps, OpenPhases
  <2>3. QED BY <2>1, <2>2, QuietBridgeInv
<1>3. QED BY <1>1, <1>2

\* A command leaves every bridge as it is, but for what it has been named by.
CommandKeepsBridges ==
    \A c \in Bridges :
        /\ bridges'[c].phase = bridges[c].phase
        /\ bridges'[c].epoch = bridges[c].epoch
        /\ bridges'[c].token = bridges[c].token

\* A command that commits changes the tables and what is unsent, and no bridge.
LEMMA CommandStepInv ==
    ASSUME RerouteInv, NEW root \in Keys, NEW keys \in SUBSET Keys,
           \/ CommitMove(root, keys)
           \/ CommitPending(root, keys)
           \/ CommitUnmoved(root, keys)
    PROVE  RerouteInv' /\ Persist /\ CommandKeepsBridges
<1>t. TablesTypeOK
  BY DEF RerouteInv, RerouteTypeOK, TablesTypeOK
<1>1. UNCHANGED registryVars
  BY DEF CommitMove, CommitPending, CommitUnmoved
<1>2. RegistryInv' /\ Persist
  BY <1>1, RegistryPart, RegistryKept
<1>3. PICK g \in 0..MaxGeneration : Tables!Regroup(root, keys, g)
  BY <1>t, MergeRegroups, MoveRegroups DEF CommitMove, CommitPending, CommitUnmoved
<1>4. TablesTypeOK' /\ gen'[root] = g
  BY <1>t, <1>3, RegroupTypeOK
<1>5. bridges' \in [Bridges -> Bridge] /\ CommandKeepsBridges
  <2>1. CASE UNCHANGED bridges
    BY <2>1 DEF CommandKeepsBridges, RerouteInv, RerouteTypeOK
  <2>2. CASE CommitMove(root, keys)
    <3>1. ASSUME NEW c \in Bridges
          PROVE  /\ bridges'[c] \in Bridge
                 /\ bridges'[c].phase = bridges[c].phase
                 /\ bridges'[c].epoch = bridges[c].epoch
                 /\ bridges'[c].token = bridges[c].token
      <4>1. bridges[c] \in Bridge
        BY BridgeTypes
      <4>2. CASE bridges[c].phase = "idle"
        BY <2>2, <4>1, <4>2 DEF CommitMove
      <4>3. CASE bridges[c].phase # "idle"
        <5>1. bridges'[c] = [bridges[c] EXCEPT
                               !.named = bridges[c].named \/ RegisteredKeys(c) \subseteq keys]
          BY <2>2, <4>3 DEF CommitMove
        <5>2. QED BY <4>1, <5>1 DEF Bridge
      <4>4. QED BY <4>2, <4>3
    <3>2. bridges' = [c \in Bridges |-> bridges'[c]]
      BY <2>2 DEF CommitMove
    <3>3. QED BY <3>1, <3>2 DEF CommandKeepsBridges
  <2>3. QED BY <2>1, <2>2 DEF CommitPending, CommitUnmoved
<1>6. unsent' \in SUBSET Signal
  <2>1. gen'[root] \in 0..MaxGeneration /\ gen[root] \in 0..MaxGeneration
    BY <1>t, <1>4 DEF TablesTypeOK
  <2>2. QED BY <2>1 DEF CommitMove, CommitPending, CommitUnmoved, Signal, RerouteInv, RerouteTypeOK
<1>7. ASSUME NEW c \in Bridges PROVE KeepsRegistration(c)
  BY <1>1, <1>5 DEF registryVars, CommandKeepsBridges, KeepsRegistration
<1>8. (\A c \in Bridges : Registered(c)') /\ DistinctTokens'
  BY <1>7, RegistrationsKept
<1>9. QED BY <1>2, <1>4, <1>5, <1>6, <1>8, TypesFromParts

\* The keys a command names are keys.
LEMMA CommandKeys ==
    ASSUME NEW root \in Keys, NEW keys \in Payloads \cup {Tables!MembersOf({root})}
    PROVE  keys \in SUBSET Keys
BY ClientsAssumption DEF Tables!MembersOf

\* signal_reroute raises the signal of the connections it finds.
LEMMA SendSignalInv ==
    ASSUME RerouteInv, NEW s \in unsent, SendSignal(s)
    PROVE  RerouteInv' /\ Persist
<1>1. s.root \in Keys /\ s.keys \in SUBSET Keys /\ s.gen \in 0..MaxGeneration
  BY DEF RerouteInv, RerouteTypeOK, Signal
<1>2. SignalReroute(s.root, s.keys, s.gen)
  BY DEF SendSignal
<1>3. RegistryInv' /\ Persist
  BY <1>1, <1>2, RegistryPart, SignalInv, SignalPersists
<1>4. ASSUME NEW t \in Tokens
      PROVE  /\ connections'[t].live = connections[t].live
             /\ connections'[t].gen = connections[t].gen
             /\ connections'[t].aliases = connections[t].aliases
  <2>1. connections[t] \in Entry
    BY DEF RerouteInv, RerouteTypeOK, RegistryTypeOK
  <2>2. \/ connections'[t] = connections[t]
        \/ connections'[t] =
             [connections[t] EXCEPT !.root = s.root,
                !.signal = IF connections[t].gen < s.gen THEN s.gen ELSE @]
    BY <1>2 DEF SignalReroute
  <2>3. QED BY <2>1, <2>2 DEF Entry
<1>5. UNCHANGED bridges /\ unsent' = unsent \ {s}
  BY DEF SendSignal
<1>6. ASSUME NEW c \in Bridges PROVE KeepsRegistration(c)
  BY <1>4, <1>5 DEF KeepsRegistration, RerouteInv, Registered
<1>7. (\A c \in Bridges : Registered(c)') /\ DistinctTokens'
  BY <1>6, RegistrationsKept
<1>8. TablesTypeOK'
  BY BindsOrKeepsTypeOK DEF SendSignal, BindsOrKeeps
<1>9. bridges' \in [Bridges -> Bridge] /\ unsent' \in SUBSET Signal
  BY <1>5 DEF RerouteInv, RerouteTypeOK
<1>10. QED BY <1>3, <1>7, <1>8, <1>9, TypesFromParts

\* A restart empties the registry and forgets the bridges.
LEMMA RestartInv == RerouteInv /\ Restart => RerouteInv' /\ RegistryInit'
<1> SUFFICES ASSUME RerouteInv, Restart PROVE RerouteInv' /\ RegistryInit'
  OBVIOUS
<1>1. RegistryInit'
  BY DEF Restart, RegistryInit
<1>2. RegistryTypeOK'
  BY <1>1 DEF RegistryInit, RegistryTypeOK, Entry, NoEntry
<1>3. EntriesInv' /\ IndexComplete'
  BY <1>1 DEF RegistryInit, EntriesInv, IndexComplete, NoEntry
<1>4. IdleBridge \in Bridge /\ IdleBridge.phase \notin OpenPhases
  BY DEF IdleBridge, Bridge, Phases, Epoch, OpenPhases
<1>5. bridges' \in [Bridges -> Bridge] /\ \A b \in Bridges : bridges'[b].phase \notin OpenPhases
  BY <1>4 DEF Restart
<1>6. (\A b \in Bridges : Registered(b)') /\ DistinctTokens'
  BY <1>5 DEF Registered, DistinctTokens
<1>7. TablesTypeOK' /\ unsent' \in SUBSET Signal
  BY BindsOrKeepsTypeOK DEF Restart, BindsOrKeeps
<1>8. QED BY <1>1, <1>2, <1>3, <1>5, <1>6, <1>7, TypesFromParts DEF RegistryInv

\* Every step keeps the composed invariant, and signals persist short of a restart.
LEMMA RerouteStepInv ==
    ASSUME RerouteInv, RerouteNext
    PROVE  RerouteInv' /\ (Persist \/ RegistryInit')
<1>1. ASSUME NEW b \in Bridges, BridgeProgress(b) \/ Disconnect(b)
      PROVE  RerouteInv' /\ Persist
  <2>1. {} \in SUBSET Keys /\ \A k \in ResponseIds : {k} \in SUBSET Keys
    BY ClientsAssumption
  <2>2. QED
    BY <1>1, <2>1, ResolveInv, ConnectInv, OpenInv, TurnInv, SeeRerouteInv, DisconnectInv
       DEF BridgeProgress
<1>2. CASE CommandStep
  BY <1>2, CommandKeys, CommandStepInv DEF CommandStep
<1>3. CASE \E s \in unsent : SendSignal(s)
  BY <1>3, SendSignalInv
<1>4. CASE Restart
  BY <1>4, RestartInv
<1>5. QED BY <1>1, <1>2, <1>3, <1>4 DEF RerouteNext

\* Every step keeps the invariant.
LEMMA RerouteInvKept == RerouteInv /\ [RerouteNext]_vars => RerouteInv'
<1> SUFFICES ASSUME RerouteInv, [RerouteNext]_vars PROVE RerouteInv'
  OBVIOUS
<1>1. CASE RerouteNext
  BY <1>1, RerouteStepInv
<1>2. CASE UNCHANGED vars
  <2>1. /\ UNCHANGED <<keyRoot, gen, commanded, bridges, unsent>>
        /\ UNCHANGED registryVars
    BY <1>2 DEF vars, tableVars
  <2>2. RegistryInv'
    BY <2>1, RegistryPart, RegistryKept
  <2>3. (\A b \in Bridges : Registered(b)') /\ DistinctTokens'
    BY <2>1 DEF registryVars, RerouteInv, Registered, DistinctTokens
  <2>4. QED BY <2>1, <2>2, <2>3 DEF RerouteInv, RerouteTypeOK, RegistryInv
<1>3. QED BY <1>1, <1>2

\* The invariant of bridges, tables and registry together.
THEOREM RerouteInvariant == RerouteSpec => []RerouteInv
BY RerouteInitInv, RerouteInvKept, PTL DEF RerouteSpec

\* Bridges, tables, registry and commands under way keep their types, for any number
\* of clients, keys and concurrent commands.
THEOREM RerouteTypeCorrect == RerouteSpec => []RerouteTypeOK
<1>1. RerouteInv => RerouteTypeOK
  BY DEF RerouteInv
<1>2. QED BY <1>1, RerouteInvariant, PTL

\* The registry finds every open bridge under each of its keys and its root, with
\* the registrations, signals and drops that the bridges and commands perform.
THEOREM RerouteIndexComplete == RerouteSpec => []IndexComplete
<1>1. RerouteInv => IndexComplete
  BY DEF RerouteInv
<1>2. QED BY <1>1, RerouteInvariant, PTL

\* Short of a restart no signal is taken back, however many commands are between
\* their commit and their signal and in whatever order these arrive.
THEOREM RerouteSignalsPersist == RerouteSpec => SignalsPersist
<1>1. RerouteInv /\ [RerouteNext]_vars => [RegistryInit' \/ Persist]_registryVars
  <2> SUFFICES ASSUME RerouteInv, [RerouteNext]_vars
               PROVE  [RegistryInit' \/ Persist]_registryVars
    OBVIOUS
  <2>1. CASE RerouteNext
    BY <2>1, RerouteStepInv
  <2>2. CASE UNCHANGED vars
    BY <2>2 DEF vars
  <2>3. QED BY <2>1, <2>2
<1>2. QED BY <1>1, RerouteInvariant, PTL DEF RerouteSpec, SignalsPersist, Persist

-----------------------------------------------------------------------------
(* SignalInvariant is inductive when a command signals before the next commits. *)

\* What the registry knows of a key, and at which generation, stays.
RegistryRemembers ==
    /\ \A k \in Keys : rootByKey[k] # NoKey => rootByKey'[k] = rootByKey[k]
    /\ generationByRoot' = generationByRoot

\* A registry left alone remembers its signals.
LEMMA RegistryKeptRemembers == UNCHANGED registryVars => RegistryRemembers
BY DEF registryVars, RegistryRemembers

\* A bridge that a step leaves as it is, but for its phase.
LEMMA BridgeKept ==
    ASSUME RerouteInv, RerouteInv', NEW b \in Bridges, BridgeInv(b),
           TreesAdvance, RegistryRemembers, unsent \subseteq unsent',
           bridges'[b].epoch = bridges[b].epoch,
           bridges'[b].named = bridges[b].named,
           bridges'[b].phase # "idle" => bridges[b].phase # "idle",
           bridges'[b].phase \in OpenPhases =>
             /\ bridges[b].phase \in OpenPhases
             /\ bridges'[b].token = bridges[b].token
             /\ connections'[bridges[b].token] = connections[bridges[b].token]
    PROVE  BridgeInv(b)'
<1> DEFINE e == bridges[b].epoch
<1>1. RegisteredKeys(b)' = RegisteredKeys(b)
  BY DEF RegisteredKeys
<1>2. /\ e.gen \in Int /\ RegisteredKeys(b) \subseteq Keys
      /\ e # NoEpoch => e.root \in Keys
  BY BridgeTypes
<1>3. ASSUME NEW k \in Keys, keyRoot[k] # NoKey
      PROVE  /\ keyRoot'[k] # NoKey
             /\ gen[keyRoot[k]] \in Int /\ gen'[keyRoot'[k]] \in Int
             /\ gen'[keyRoot'[k]] >= gen[keyRoot[k]]
  <2>1. keyRoot'[k] # NoKey /\ gen'[keyRoot'[k]] >= gen[keyRoot[k]]
    BY <1>3 DEF TreesAdvance
  <2>2. keyRoot[k] \in Keys /\ keyRoot'[k] \in Keys
    BY <1>3, <2>1 DEF RerouteInv, RerouteTypeOK
  <2>3. gen[keyRoot[k]] \in 0..MaxGeneration /\ gen'[keyRoot'[k]] \in 0..MaxGeneration
    BY <2>2 DEF RerouteInv, RerouteTypeOK
  <2>4. QED BY <2>1, <2>3
<1>4. EpochBehind(b)'
  BY <1>2, <1>3 DEF BridgeInv, EpochBehind
<1>5. NamedKeysMoved(b)'
  <2> SUFFICES ASSUME bridges[b].phase # "idle", bridges[b].named, NEW k \in RegisteredKeys(b)
               PROVE  keyRoot'[k] # NoKey /\ gen'[keyRoot'[k]] > e.gen
    BY <1>1 DEF NamedKeysMoved
  <2>1. keyRoot[k] # NoKey /\ gen[keyRoot[k]] > e.gen
    BY DEF BridgeInv, NamedKeysMoved
  <2>2. QED BY <1>2, <1>3, <2>1
<1>6. OnItsWay(b) => OnItsWay(b)'
  BY <1>1 DEF OnItsWay
<1>7. RegistryKnows(b) => RegistryKnows(b)'
  BY <1>1, <1>2 DEF RegistryKnows, RegistryRemembers
<1>8. NamedKnown(b)'
  BY <1>6, <1>7 DEF BridgeInv, NamedKnown
<1>9. NamedTold(b)'
  BY <1>6 DEF BridgeInv, NamedTold, Signalled
<1>10. QED BY <1>4, <1>5, <1>8, <1>9 DEF BridgeInv

\* An idle bridge promises nothing.
LEMMA IdleBridgeInv ==
    ASSUME NEW b \in Bridges, bridges'[b].phase = "idle"
    PROVE  BridgeInv(b)'
BY DEF BridgeInv, EpochBehind, NamedKeysMoved, NamedKnown, NamedTold, OpenPhases

\* The tables after a step that keeps them or binds keys.
LEMMA BindsOrKeepsTrees ==
    ASSUME RerouteInv, Rooted, UnsentCurrent, BindsOrKeeps
    PROVE  /\ TreesAdvance /\ Rooted'
           /\ unsent' \subseteq unsent => UnsentCurrent'
<1>1. TablesTypeOK
  BY DEF RerouteInv, RerouteTypeOK, TablesTypeOK
<1>2. /\ \A k \in Keys : keyRoot[k] # NoKey => keyRoot'[k] = keyRoot[k]
      /\ gen' = gen
      /\ TreesAdvance /\ Rooted'
  <2>1. CASE UNCHANGED tableVars
    <3>1. keyRoot' = keyRoot /\ gen' = gen
      BY <2>1 DEF tableVars
    <3>2. \A k \in Keys : keyRoot[k] # NoKey => gen[keyRoot[k]] \in Int
      BY <1>1 DEF TablesTypeOK
    <3>3. QED BY <3>1, <3>2 DEF TreesAdvance, Rooted
  <2>2. CASE \E root \in Keys, keys \in SUBSET Keys : Tables!Join(root, keys)
    BY <1>1, <2>2, JoinKeepsTrees, JoinRooted
  <2>3. QED BY <2>1, <2>2 DEF BindsOrKeeps
<1>3. ASSUME unsent' \subseteq unsent PROVE UnsentCurrent'
  <2> SUFFICES ASSUME NEW s \in unsent
               PROVE  /\ s.root \in s.keys
                      /\ gen'[s.root] = s.gen
                      /\ \A k \in s.keys : keyRoot'[k] = s.root
    BY <1>3 DEF UnsentCurrent
  <2>1. s.root \in Keys /\ s.keys \subseteq Keys
    BY DEF RerouteInv, RerouteTypeOK, Signal
  <2>2. QED BY <1>2, <2>1 DEF UnsentCurrent
<1>4. QED BY <1>2, <1>3

\* Steps of one bridge that leave the registry and the commands alone.
LEMMA QuietBridgeSignals ==
    ASSUME RerouteInv, RerouteInv', SignalInvariant, NEW b \in Bridges, NEW p \in Phases,
           bridges[b].phase # "idle",
           p \in OpenPhases => bridges[b].phase \in OpenPhases,
           bridges' = [bridges EXCEPT ![b] = [bridges[b] EXCEPT !.phase = p]],
           UNCHANGED registryVars, BindsOrKeeps, UNCHANGED unsent
    PROVE  SignalInvariant'
<1>1. TreesAdvance /\ Rooted' /\ UnsentCurrent' /\ AtMostOneUnsent'
  BY BindsOrKeepsTrees DEF SignalInvariant, AtMostOneUnsent
<1>2. /\ bridges'[b] = [bridges[b] EXCEPT !.phase = p]
      /\ \A c \in Bridges \ {b} : bridges'[c] = bridges[c]
  BY DEF RerouteInv, RerouteTypeOK
<1>3. connections' = connections /\ RegistryRemembers
  BY RegistryKeptRemembers DEF registryVars
<1>4. ASSUME NEW c \in Bridges PROVE BridgeInv(c)'
  <2>1. BridgeInv(c)
    BY DEF SignalInvariant
  <2>2. CASE c = b
    <3>1. /\ bridges'[b].phase = p
          /\ bridges'[b].token = bridges[b].token
          /\ bridges'[b].epoch = bridges[b].epoch
          /\ bridges'[b].named = bridges[b].named
      <4>1. bridges[b] \in Bridge
        BY BridgeTypes
      <4>2. QED BY <1>2, <4>1 DEF Bridge
    <3>2. QED BY <1>1, <1>3, <2>1, <2>2, <3>1, BridgeKept
  <2>3. CASE c # b
    <3>1. bridges'[c] = bridges[c]
      BY <1>2, <2>3
    <3>2. QED BY <1>1, <1>3, <2>1, <3>1, BridgeKept
  <2>4. QED BY <2>2, <2>3
<1>5. QED BY <1>1, <1>4 DEF SignalInvariant

\* The bridge goes, with its registration if it had one.
LEMMA ClosedBridgeSignals ==
    ASSUME RerouteInv, RerouteInv', SignalInvariant, NEW b \in Bridges,
           bridges'[b] = IdleBridge, RegistryRemembers,
           \A c \in Bridges \ {b} :
             /\ bridges'[c] = bridges[c]
             /\ bridges[c].phase \in OpenPhases =>
                  connections'[bridges[c].token] = connections[bridges[c].token],
           UNCHANGED <<tableVars, unsent>>
    PROVE  SignalInvariant'
<1>1. TreesAdvance /\ Rooted' /\ UnsentCurrent' /\ AtMostOneUnsent'
  BY BindsOrKeepsTrees DEF SignalInvariant, AtMostOneUnsent, BindsOrKeeps
<1>2. ASSUME NEW c \in Bridges PROVE BridgeInv(c)'
  <2>1. CASE c = b
    BY <2>1, IdleBridgeInv DEF IdleBridge
  <2>2. CASE c # b
    <3>1. BridgeInv(c) /\ unsent \subseteq unsent'
      BY DEF SignalInvariant
    <3>2. QED BY <1>1, <2>2, <3>1, BridgeKept
  <2>3. QED BY <2>1, <2>2
<1>3. QED BY <1>1, <1>2 DEF SignalInvariant

\* A bridge resolves a root at the generation its tree has.
LEMMA ResolveSignals ==
    ASSUME RerouteInv, RerouteInv', SignalInvariant, NEW b \in Bridges, Resolve(b)
    PROVE  SignalInvariant'
<1>1. UNCHANGED <<keyRoot, gen, commanded>> /\ UNCHANGED registryVars /\ UNCHANGED unsent
  BY DEF Resolve, tableVars
<1>2. BindsOrKeeps
  BY <1>1 DEF BindsOrKeeps, tableVars
<1>3. TreesAdvance /\ Rooted' /\ UnsentCurrent' /\ AtMostOneUnsent'
  BY <1>1, <1>2, BindsOrKeepsTrees DEF SignalInvariant, AtMostOneUnsent
<1>4. PICK epoch :
        /\ \/ epoch = NoEpoch
           \/ \E r \in Tables!TreesOf(KeysOfClient[b]) : epoch = [root |-> r, gen |-> gen[r]]
        /\ bridges' = [bridges EXCEPT ![b] = [IdleBridge EXCEPT !.phase = "resolved",
                                                                !.epoch = epoch]]
  BY DEF Resolve
<1>5. /\ bridges'[b].phase = "resolved"
      /\ bridges'[b].epoch = epoch
      /\ bridges'[b].named = FALSE
      /\ \A c \in Bridges \ {b} : bridges'[c] = bridges[c]
  BY <1>4 DEF RerouteInv, RerouteTypeOK, IdleBridge
<1>6. EpochBehind(b)'
  <2> SUFFICES ASSUME epoch # NoEpoch
               PROVE  keyRoot'[epoch.root] # NoKey /\ gen'[keyRoot'[epoch.root]] >= epoch.gen
    BY <1>5 DEF EpochBehind
  <2>1. PICK r \in Tables!TreesOf(KeysOfClient[b]) : epoch = [root |-> r, gen |-> gen[r]]
    BY <1>4
  <2>2. TablesTypeOK
    BY DEF RerouteInv, RerouteTypeOK, TablesTypeOK
  <2>3. r \in Keys /\ r # NoKey /\ keyRoot[r] = r
    BY <2>2, BridgeTypes DEF Tables!TreesOf, TablesTypeOK, SignalInvariant, Rooted
  <2>4. gen[r] \in Int
    BY <2>2, <2>3 DEF TablesTypeOK
  <2>5. QED BY <1>1, <2>1, <2>3, <2>4
<1>7. BridgeInv(b)'
  BY <1>5, <1>6 DEF BridgeInv, NamedKeysMoved, NamedKnown, NamedTold, OpenPhases
<1>8. ASSUME NEW c \in Bridges PROVE BridgeInv(c)'
  <2>1. CASE c # b
    <3>1. BridgeInv(c) /\ bridges'[c] = bridges[c] /\ connections' = connections
      BY <1>1, <1>5, <2>1 DEF SignalInvariant, registryVars
    <3>2. QED BY <1>1, <1>3, <3>1, RegistryKeptRemembers, BridgeKept
  <2>2. QED BY <1>7, <2>1
<1>9. QED BY <1>3, <1>8 DEF SignalInvariant

\* A bridge that registers after a signal that named it is signalled at once, since
\* its root is one of the keys the registry knows.
LEMMA OpenSignals ==
    ASSUME RerouteInv, RerouteInv', SignalInvariant, NEW b \in Bridges, Open(b)
    PROVE  SignalInvariant'
<1>1. UNCHANGED <<tableVars, unsent>> /\ bridges[b].phase = "connected"
  BY DEF Open
<1>2. TreesAdvance /\ Rooted' /\ UnsentCurrent' /\ AtMostOneUnsent'
  BY <1>1, BindsOrKeepsTrees DEF SignalInvariant, AtMostOneUnsent, BindsOrKeeps
<1>3. PICK token \in Tokens, root \in Keys, canonical \in Keys :
        RegisteredAs(b, token, root, canonical)
  BY OpenInv
<1>4. RegistryRemembers
  BY <1>3 DEF RegisteredAs, RegistryRemembers
<1>5. BridgeInv(b)'
  <2> DEFINE e == bridges[b].epoch
  <2>1. /\ bridges'[b].phase = "open" /\ bridges'[b].token = token
        /\ bridges'[b].epoch = e /\ bridges'[b].named = bridges[b].named
    BY <1>3 DEF RegisteredAs
  <2>2. EpochBehind(b)' /\ NamedKeysMoved(b)'
    BY <1>1, <2>1 DEF SignalInvariant, BridgeInv, EpochBehind, NamedKeysMoved,
                      RegisteredKeys, tableVars
  <2>3. OnItsWay(b) => OnItsWay(b)'
    BY <1>1, <2>1 DEF OnItsWay, RegisteredKeys
  <2>4. RegistryKnows(b) => RegistryKnows(b)'
    BY <1>4, <2>1, BridgeTypes DEF RegistryKnows, RegisteredKeys, RegistryRemembers
  <2>5. NamedKnown(b)'
    BY <1>1, <2>1, <2>3, <2>4 DEF SignalInvariant, BridgeInv, NamedKnown
  <2>6. ASSUME RegistryKnows(b) PROVE Signalled(b)'
    <3>1. rootByKey[root] # NoKey /\ generationByRoot[rootByKey[root]] > e.gen
      BY <1>3, <2>6 DEF RegisteredAs, RegistryKnows
    <3>2. canonical = rootByKey[root]
      BY <1>3, <3>1 DEF RegisteredAs, CanonicalRoots
    <3>3. generationByRoot[canonical] \in Int /\ e.gen \in Int
      BY BridgeTypes DEF RerouteInv, RerouteTypeOK, RegistryTypeOK
    <3>4. SignalAtStart(canonical, e.gen) > e.gen
      BY <3>1, <3>2, <3>3 DEF SignalAtStart
    <3>5. connections'[token].signal = SignalAtStart(canonical, e.gen)
      BY <1>3 DEF RegisteredAs
    <3>6. QED BY <2>1, <3>4, <3>5 DEF Signalled
  <2>7. NamedTold(b)'
    BY <1>1, <2>1, <2>3, <2>6 DEF SignalInvariant, BridgeInv, NamedKnown, NamedTold
  <2>8. QED BY <2>2, <2>5, <2>7 DEF BridgeInv
<1>6. ASSUME NEW c \in Bridges PROVE BridgeInv(c)'
  <2>1. CASE c # b
    <3>1. BridgeInv(c) /\ bridges'[c] = bridges[c]
      BY <1>3, <2>1 DEF SignalInvariant, RegisteredAs
    <3>2. bridges[c].phase \in OpenPhases =>
            connections'[bridges[c].token] = connections[bridges[c].token]
      BY <1>3 DEF RegisteredAs, RerouteInv, Registered
    <3>3. QED BY <1>1, <1>2, <1>4, <3>1, <3>2, BridgeKept
  <2>2. QED BY <1>5, <2>1
<1>7. QED BY <1>2, <1>6 DEF SignalInvariant

\* With room for one command under way, a command commits when there is none.
LEMMA NoneUnsent ==
    ASSUME MaxUnsent = 1, AtMostOneUnsent, Cardinality(unsent) < MaxUnsent
    PROVE  unsent = {}
<1> SUFFICES ASSUME NEW s, unsent = {s} PROVE FALSE
  BY DEF AtMostOneUnsent
<1>1. Cardinality({s}) = 1
  BY FS_Singleton
<1>2. QED BY <1>1

\* The transaction of a command, when no signal is under way.
LEMMA CommitSignals ==
    ASSUME RerouteInv, RerouteInv', SignalInvariant, NEW root \in Keys,
           NEW keys \in SUBSET Keys, root \in keys, unsent = {},
           \/ CommitMove(root, keys)
           \/ CommitPending(root, keys)
           \/ CommitUnmoved(root, keys)
    PROVE  SignalInvariant'
<1>t. TablesTypeOK /\ Rooted
  BY DEF RerouteInv, RerouteTypeOK, TablesTypeOK, SignalInvariant
<1>1. PICK g \in 0..MaxGeneration :
        /\ Tables!Regroup(root, keys, g)
        /\ \A r \in Tables!TreesOf(keys) \cup {root} : gen[r] <= g
        /\ CommitMove(root, keys) =>
             0 < g /\ \A r \in Tables!TreesOf(keys) \cup {root} : gen[r] < g
        /\ CommitUnmoved(root, keys) => g = gen[root]
  <2>1. CASE CommitMove(root, keys)
    <3>1. PICK g \in 0..MaxGeneration :
            /\ Tables!Regroup(root, keys, g)
            /\ \A r \in Tables!TreesOf(keys) \cup {root} : gen[r] < g
            /\ 0 < g
      BY <1>t, <2>1, MoveRegroups DEF CommitMove
    <3>2. \A r \in Tables!TreesOf(keys) \cup {root} : gen[r] \in Int
      BY <1>t, TreesAreKeys DEF TablesTypeOK
    <3>3. \A r \in Tables!TreesOf(keys) \cup {root} : gen[r] <= g
      BY <3>1, <3>2
    <3>4. gen'[root] = g
      BY <1>t, <3>1, RegroupTypeOK
    <3>5. ASSUME CommitUnmoved(root, keys) PROVE g = gen[root]
      <4>1. PICK h \in 0..MaxGeneration :
              Tables!IsLatest(root, keys, h) /\ Tables!Regroup(root, keys, h)
        BY <3>5 DEF CommitUnmoved, Tables!Merge
      <4>2. Tables!TreesOf(keys) \cup {root} = {root}
        BY <3>5 DEF CommitUnmoved, Tables!TreesOf
      <4>3. h = gen[root]
        BY <4>1, <4>2 DEF Tables!IsLatest
      <4>4. gen'[root] = h
        BY <1>t, <4>1, RegroupTypeOK
      <4>5. QED BY <3>4, <4>3, <4>4
    <3>6. QED BY <3>1, <3>3, <3>5
  <2>2. CASE ~CommitMove(root, keys)
    <3>1. PICK h \in 0..MaxGeneration :
            Tables!IsLatest(root, keys, h) /\ Tables!Regroup(root, keys, h)
      BY <2>2 DEF CommitPending, CommitUnmoved, Tables!Merge
    <3>2. \A r \in Tables!TreesOf(keys) \cup {root} : gen[r] <= h
      BY <3>1 DEF Tables!IsLatest
    <3>3. ASSUME CommitUnmoved(root, keys) PROVE h = gen[root]
      <4>1. Tables!TreesOf(keys) \cup {root} = {root}
        BY <3>3 DEF CommitUnmoved, Tables!TreesOf
      <4>2. QED BY <3>1, <4>1 DEF Tables!IsLatest
    <3>4. QED BY <2>2, <3>1, <3>2, <3>3
  <2>3. QED BY <2>1, <2>2
<1>2. TreesAdvance /\ Rooted'
  BY <1>t, <1>1, RegroupAdvances
<1>3. gen'[root] = g /\ \A k \in keys : keyRoot'[k] = root
  BY <1>t, <1>1, RegroupTypeOK
<1>4. \/ unsent' = {}
      \/ unsent' = {[root |-> root, keys |-> keys, gen |-> g]}
  BY <1>1, <1>3 DEF CommitMove, CommitPending, CommitUnmoved
<1>5. UnsentCurrent' /\ AtMostOneUnsent'
  <2>1. [root |-> root, keys |-> keys, gen |-> g] \in Signal
    BY DEF Signal
  <2>2. AtMostOneUnsent'
    BY <1>4, <2>1 DEF AtMostOneUnsent
  <2>3. UnsentCurrent'
    BY <1>3, <1>4 DEF UnsentCurrent
  <2>4. QED BY <2>2, <2>3
<1>6. CommandKeepsBridges
  BY CommandStepInv
<1>7. UNCHANGED registryVars
  BY DEF CommitMove, CommitPending, CommitUnmoved
<1>8. RegistryRemembers /\ connections' = connections
  BY <1>7, RegistryKeptRemembers DEF registryVars
<1>9. ASSUME NEW c \in Bridges, bridges'[c].named = bridges[c].named
      PROVE  BridgeInv(c)'
  BY <1>2, <1>6, <1>8, <1>9, BridgeKept DEF SignalInvariant, CommandKeepsBridges
<1>10. ASSUME NEW c \in Bridges, bridges'[c].named # bridges[c].named
       PROVE  BridgeInv(c)'
  <2> DEFINE e == bridges[c].epoch
  <2>1. CommitMove(root, keys)
    BY <1>10 DEF CommitPending, CommitUnmoved
  <2>2. bridges[c].phase # "idle"
    BY <1>10, <2>1 DEF CommitMove
  <2>3. RegisteredKeys(c) \subseteq keys
    <3>1. bridges'[c] = [bridges[c] EXCEPT
                           !.named = bridges[c].named \/ RegisteredKeys(c) \subseteq keys]
      BY <2>1, <2>2 DEF CommitMove
    <3>2. bridges[c] \in Bridge /\ bridges[c].named \in BOOLEAN
      BY BridgeTypes DEF Bridge
    <3>3. bridges'[c].named = (bridges[c].named \/ RegisteredKeys(c) \subseteq keys)
      BY <3>1, <3>2 DEF Bridge
    <3>4. QED BY <1>10, <3>2, <3>3
  <2>4. /\ bridges'[c].phase = bridges[c].phase /\ bridges'[c].epoch = e
        /\ RegisteredKeys(c)' = RegisteredKeys(c)
    BY <1>6 DEF CommandKeepsBridges, RegisteredKeys
  <2>5. EpochBehind(c)
    BY DEF SignalInvariant, BridgeInv
  <2>6. e.gen < g
    <3>1. CASE e = NoEpoch
      BY <1>1, <2>1, <3>1, BridgeTypes
    <3>2. CASE e # NoEpoch
      <4>1. e.root \in keys /\ keyRoot[e.root] # NoKey /\ gen[keyRoot[e.root]] >= e.gen
        BY <2>2, <2>3, <2>5, <3>2, BridgeTypes DEF EpochBehind
      <4>2. keyRoot[e.root] \in Tables!TreesOf(keys)
        BY <4>1 DEF Tables!TreesOf
      <4>3. gen[keyRoot[e.root]] < g /\ gen[keyRoot[e.root]] \in Int /\ e.gen \in Int
        BY <1>t, <1>1, <2>1, <4>2, TreesAreKeys, BridgeTypes DEF TablesTypeOK
      <4>4. QED BY <4>1, <4>3
    <3>3. QED BY <3>1, <3>2
  <2>7. g > e.gen
    BY <2>6, BridgeTypes
  <2>8. EpochBehind(c)'
    <3> SUFFICES ASSUME e # NoEpoch
                 PROVE  keyRoot'[e.root] # NoKey /\ gen'[keyRoot'[e.root]] >= e.gen
      BY <2>4 DEF EpochBehind
    <3>1. e.root \in keys
      BY <2>3, BridgeTypes
    <3>2. QED BY <1>3, <2>6, <3>1, BridgeTypes
  <2>9. NamedKeysMoved(c)'
    BY <1>3, <2>3, <2>4, <2>7 DEF NamedKeysMoved
  <2>10. OnItsWay(c)'
    <3>1. [root |-> root, keys |-> keys, gen |-> g] \in unsent'
      BY <1>3, <2>1 DEF CommitMove
    <3>2. QED BY <2>3, <2>4, <2>7, <3>1 DEF OnItsWay
  <2>11. QED BY <2>8, <2>9, <2>10 DEF BridgeInv, NamedKnown, NamedTold
<1>11. QED BY <1>2, <1>5, <1>9, <1>10 DEF SignalInvariant

\* The signal of a command reaches every bridge it names, and what the registry then
\* knows of a key is at least what it knew.
LEMMA SendSignalSignals ==
    ASSUME RerouteInv, RerouteInv', SignalInvariant, NEW s \in unsent, SendSignal(s)
    PROVE  SignalInvariant'
<1>1. s.root \in Keys /\ s.keys \in SUBSET Keys /\ s.gen \in 0..MaxGeneration /\ s.gen \in Int
  BY DEF RerouteInv, RerouteTypeOK, Signal
<1>2. /\ s.root \in s.keys /\ gen[s.root] = s.gen
      /\ \A k \in s.keys : keyRoot[k] = s.root
      /\ unsent = {s}
  BY DEF SignalInvariant, UnsentCurrent, AtMostOneUnsent
<1>3. SignalReroute(s.root, s.keys, s.gen) /\ unsent' = unsent \ {s}
      /\ UNCHANGED <<tableVars, bridges>>
  BY DEF SendSignal
<1>4. TreesAdvance /\ Rooted' /\ UnsentCurrent' /\ AtMostOneUnsent'
  BY <1>2, <1>3, BindsOrKeepsTrees DEF SignalInvariant, AtMostOneUnsent, BindsOrKeeps
<1>5. Persist
  BY SendSignalInv
<1>6. ASSUME NEW r \in Keys
      PROVE  /\ generationByRoot'[r] \in Int /\ generationByRoot[r] \in Int
             /\ generationByRoot'[r] >= generationByRoot[r]
             /\ r = s.root => generationByRoot'[r] >= s.gen
  <2>1. generationByRoot[r] \in 0..MaxGeneration /\ generationByRoot'[r] \in 0..MaxGeneration
    BY DEF RerouteInv, RerouteTypeOK, RegistryTypeOK
  <2>2. r = s.root => generationByRoot'[r] = Raised(generationByRoot[r], s.gen)
    BY <1>3 DEF SignalReroute, RerouteInv, RerouteTypeOK, RegistryTypeOK
  <2>3. generationByRoot'[r] >= generationByRoot[r]
    BY <1>5 DEF Persist
  <2>4. Raised(generationByRoot[r], s.gen) >= s.gen
    BY <1>1, <2>1, RaisedGeneration
  <2>5. generationByRoot'[r] \in Int /\ generationByRoot[r] \in Int
    BY <2>1
  <2>6. QED BY <2>2, <2>3, <2>4, <2>5
<1>7. \A k \in Keys : rootByKey'[k] = IF k \in s.keys THEN s.root ELSE rootByKey[k]
  BY <1>2, <1>3 DEF SignalReroute
<1>8. ASSUME NEW b \in Bridges PROVE BridgeInv(b)'
  <2> DEFINE e == bridges[b].epoch
  <2>1. /\ bridges' = bridges /\ RegisteredKeys(b)' = RegisteredKeys(b)
        /\ RegisteredKeys(b) \subseteq Keys /\ e.gen \in Int
        /\ keyRoot' = keyRoot /\ gen' = gen
    BY <1>3, BridgeTypes DEF RegisteredKeys, tableVars
  <2>2. BridgeInv(b)
    BY DEF SignalInvariant
  <2>3. EpochBehind(b)' /\ NamedKeysMoved(b)'
    BY <2>1, <2>2 DEF BridgeInv, EpochBehind, NamedKeysMoved
  <2>4. ASSUME bridges[b].phase # "idle", bridges[b].named PROVE RegistryKnows(b)'
    <3> SUFFICES ASSUME NEW k \in RegisteredKeys(b)
                 PROVE  rootByKey'[k] # NoKey /\ generationByRoot'[rootByKey'[k]] > e.gen
      BY <2>1 DEF RegistryKnows
    <3>1. CASE k \in s.keys
      <4>1. s.gen > e.gen
        BY <1>2, <2>2, <2>4, <3>1 DEF BridgeInv, NamedKeysMoved
      <4>2. rootByKey'[k] = s.root /\ generationByRoot'[s.root] >= s.gen
        BY <1>1, <1>6, <1>7, <3>1
      <4>3. QED BY <1>1, <1>6, <2>1, <4>1, <4>2
    <3>2. CASE k \notin s.keys
      <4>1. RegistryKnows(b)
        BY <1>2, <2>2, <2>4, <3>2 DEF BridgeInv, NamedKnown, OnItsWay
      <4>2. rootByKey[k] # NoKey /\ generationByRoot[rootByKey[k]] > e.gen
        BY <4>1 DEF RegistryKnows
      <4>3. rootByKey'[k] = rootByKey[k] /\ rootByKey[k] \in Keys
        BY <1>7, <2>1, <3>2, <4>2 DEF RerouteInv, RerouteTypeOK, RegistryTypeOK
      <4>4. QED BY <1>6, <2>1, <4>2, <4>3
    <3>3. QED BY <3>1, <3>2
  <2>5. ASSUME bridges[b].phase \in OpenPhases, bridges[b].named PROVE Signalled(b)'
    <3> DEFINE t == bridges[b].token
    <3>1. /\ t \in Tokens /\ connections[t].live
          /\ connections[t].gen = e.gen /\ KeysOfClient[b] \subseteq connections[t].aliases
      BY <2>5 DEF RerouteInv, Registered
    <3>2. connections'[t].live /\ connections'[t].gen = e.gen
      BY <2>1, <2>5 DEF RerouteInv, Registered
    <3>3. CASE Signalled(b)
      <4>1. connections[t].signal > connections[t].gen
        BY <3>1, <3>3 DEF Signalled
      <4>2. connections'[t].signal > connections'[t].gen
        BY <1>5, <3>1, <3>2, <4>1 DEF Persist
      <4>3. QED BY <2>1, <3>2, <4>2 DEF Signalled
    <3>4. CASE ~Signalled(b)
      <4>1. RegisteredKeys(b) \subseteq s.keys /\ s.gen > e.gen
        BY <1>2, <2>2, <2>5, <3>4 DEF BridgeInv, NamedTold, OnItsWay
      <4>2. PICK k \in KeysOfClient[b] : k \in s.keys
        BY <4>1, BridgeTypes
      <4>3. t \in connectionsByKey[k]
        BY <3>1, <4>2 DEF RerouteInv, IndexComplete
      <4>4. t \in MatchingTokens(s.root, s.keys)
        BY <4>2, <4>3 DEF MatchingTokens
      <4>5. connections'[t] =
              [connections[t] EXCEPT !.root = s.root,
                 !.signal = IF connections[t].gen < s.gen THEN s.gen ELSE @]
        BY <1>3, <3>1, <4>4 DEF SignalReroute
      <4>6. connections[t] \in Entry
        BY <3>1 DEF RerouteInv, RerouteTypeOK, RegistryTypeOK
      <4>7. connections'[t].signal = s.gen
        BY <1>1, <2>1, <3>1, <4>1, <4>5, <4>6 DEF Entry
      <4>8. QED BY <2>1, <4>1, <4>7 DEF Signalled
    <3>5. QED BY <3>3, <3>4
  <2>6. NamedKnown(b)' /\ NamedTold(b)'
    BY <2>1, <2>4, <2>5 DEF NamedKnown, NamedTold
  <2>7. QED BY <2>3, <2>6 DEF BridgeInv
<1>9. QED BY <1>4, <1>8 DEF SignalInvariant

\* A restart leaves no open bridge that could miss a signal.
LEMMA RestartSignals ==
    ASSUME RerouteInv, RerouteInv', SignalInvariant, Restart
    PROVE  SignalInvariant'
<1>1. Rooted' /\ UnsentCurrent' /\ AtMostOneUnsent'
  BY BindsOrKeepsTrees DEF SignalInvariant, Restart, BindsOrKeeps, AtMostOneUnsent, UnsentCurrent
<1>2. \A b \in Bridges : bridges'[b].phase = "idle"
  BY DEF Restart, IdleBridge
<1>3. QED BY <1>1, <1>2, IdleBridgeInv DEF SignalInvariant

\* No bridge is open at start-up.
LEMMA InitSignals == RerouteInit => SignalInvariant
<1> SUFFICES ASSUME RerouteInit PROVE SignalInvariant
  OBVIOUS
<1>1. Rooted /\ UnsentCurrent /\ AtMostOneUnsent
  BY DEF RerouteInit, Tables!EpochInit, Rooted, UnsentCurrent, AtMostOneUnsent
<1>2. \A b \in Bridges : bridges[b].phase = "idle"
  BY DEF RerouteInit, IdleBridge
<1>3. \A b \in Bridges : BridgeInv(b)
  BY <1>2 DEF BridgeInv, EpochBehind, NamedKeysMoved, NamedKnown, NamedTold, OpenPhases
<1>4. QED BY <1>1, <1>3 DEF SignalInvariant

\* One bridge's steps.
LEMMA BridgeStepSignals ==
    ASSUME RerouteInv, RerouteInv', SignalInvariant, NEW b \in Bridges,
           BridgeProgress(b) \/ Disconnect(b)
    PROVE  SignalInvariant'
<1>p. "connected" \in Phases /\ "turn" \in Phases /\ "open" \in Phases
      /\ "connected" \notin OpenPhases /\ "idle" \notin OpenPhases
  BY DEF Phases, OpenPhases
<1>1. CASE Connect(b)
  <2>1. bridges' = [bridges EXCEPT ![b] = [bridges[b] EXCEPT !.phase = "connected"]]
    BY <1>1 DEF Connect
  <2>2. bridges[b].phase # "idle" /\ UNCHANGED registryVars /\ UNCHANGED unsent
    BY <1>1 DEF Connect
  <2>3. BindsOrKeeps
    BY <1>1, ConnectInv
  <2>4. QED BY <1>p, <2>1, <2>2, <2>3, QuietBridgeSignals
<1>2. ASSUME bridges[b].phase \in OpenPhases, Close(b), UNCHANGED <<tableVars, unsent>>
      PROVE  SignalInvariant'
  BY <1>2, CloseInv, ClosedBridgeSignals DEF RegistryRemembers
<1>3. CASE StartTurn(b)
  <2>1. CASE Close(b) /\ UNCHANGED tableVars
    BY <1>2, <1>3, <2>1, StartTurnCases
  <2>2. CASE /\ bridges' = [bridges EXCEPT ![b] = [bridges[b] EXCEPT !.phase = "turn"]]
             /\ UNCHANGED registryVars
             /\ BindsOrKeeps
    BY <1>p, <1>3, <2>2, StartTurnCases, QuietBridgeSignals
  <2>3. QED BY <1>3, <2>1, <2>2, StartTurnCases
<1>4. ASSUME NEW ids \in SUBSET Keys, FinishTurn(b, ids) PROVE SignalInvariant'
  BY <1>p, <1>4, FinishTurnCases, QuietBridgeSignals
<1>5. CASE SeeReroute(b)
  BY <1>2, <1>5 DEF SeeReroute, OpenPhases
<1>6. CASE Disconnect(b)
  <2>1. CASE bridges[b].phase \in OpenPhases
    BY <1>2, <1>6, <2>1 DEF Disconnect, OpenPhases
  <2>2. CASE bridges[b].phase \notin OpenPhases
    <3>1. bridges' = [bridges EXCEPT ![b] = IdleBridge] /\ UNCHANGED registryVars
          /\ UNCHANGED <<tableVars, unsent>>
      BY <1>6, <2>2 DEF Disconnect, OpenPhases
    <3>2. bridges'[b] = IdleBridge /\ \A c \in Bridges \ {b} : bridges'[c] = bridges[c]
      BY <3>1 DEF RerouteInv, RerouteTypeOK
    <3>3. connections' = connections /\ RegistryRemembers
      BY <3>1, RegistryKeptRemembers DEF registryVars
    <3>4. QED BY <3>1, <3>2, <3>3, ClosedBridgeSignals
  <2>3. QED BY <2>1, <2>2
<1>7. {} \in SUBSET Keys /\ \A k \in ResponseIds : {k} \in SUBSET Keys
  BY ClientsAssumption
<1>8. QED
  BY <1>1, <1>3, <1>4, <1>5, <1>6, <1>7, ResolveSignals, OpenSignals DEF BridgeProgress

\* With one command at a time, every step keeps the signals complete.
LEMMA SignalInvariantKept ==
    ASSUME MaxUnsent = 1
    PROVE  RerouteInv /\ RerouteInv' /\ SignalInvariant /\ [RerouteNext]_vars
             => SignalInvariant'
<1> SUFFICES ASSUME RerouteInv, RerouteInv', SignalInvariant, [RerouteNext]_vars
             PROVE  SignalInvariant'
  OBVIOUS
<1>1. CASE \E b \in Bridges : BridgeProgress(b) \/ Disconnect(b)
  BY <1>1, BridgeStepSignals
<1>2. CASE CommandStep
  <2>1. PICK root \in Keys : \E keys \in Payloads \cup {Tables!MembersOf({root})} :
          /\ root \in keys
          /\ Cardinality(unsent) < MaxUnsent
          /\ CommitMove(root, keys) \/ CommitPending(root, keys) \/ CommitUnmoved(root, keys)
    BY <1>2 DEF CommandStep
  <2>2. PICK keys \in Payloads \cup {Tables!MembersOf({root})} :
          /\ root \in keys
          /\ Cardinality(unsent) < MaxUnsent
          /\ CommitMove(root, keys) \/ CommitPending(root, keys) \/ CommitUnmoved(root, keys)
    BY <2>1
  <2>3. unsent = {} /\ keys \in SUBSET Keys
    BY <2>2, NoneUnsent, CommandKeys DEF SignalInvariant
  <2>4. QED BY <2>2, <2>3, CommitSignals
<1>3. CASE \E s \in unsent : SendSignal(s)
  BY <1>3, SendSignalSignals
<1>4. CASE Restart
  BY <1>4, RestartSignals
<1>5. CASE UNCHANGED vars
  <2>1. UNCHANGED tableVars /\ UNCHANGED registryVars /\ bridges' = bridges /\ unsent' = unsent
    BY <1>5 DEF vars
  <2>2. TreesAdvance /\ Rooted' /\ UnsentCurrent' /\ AtMostOneUnsent'
    BY <2>1, BindsOrKeepsTrees DEF SignalInvariant, AtMostOneUnsent, BindsOrKeeps
  <2>3. connections' = connections /\ RegistryRemembers
    BY <2>1, RegistryKeptRemembers DEF registryVars
  <2>4. ASSUME NEW b \in Bridges PROVE BridgeInv(b)'
    BY <2>1, <2>2, <2>3, BridgeKept DEF SignalInvariant
  <2>5. QED BY <2>2, <2>4 DEF SignalInvariant
<1>6. QED BY <1>1, <1>2, <1>3, <1>4, <1>5 DEF RerouteNext

\* When commands signal one after the other, an open bridge all of whose keys a
\* command has moved since it resolved is told, for every interleaving of its
\* resolve, connect, register and turns with any number of commands and restarts.
THEOREM RerouteTellsNamedBridges ==
    ASSUME MaxUnsent = 1
    PROVE  RerouteSpec => []NamedBridgesSignalled
<1>1. SignalInvariant => NamedBridgesSignalled
  BY DEF SignalInvariant, BridgeInv, NamedTold, OnItsWay, NamedBridgesSignalled, OpenPhases
<1>2. RerouteInv /\ RerouteInv' /\ SignalInvariant /\ [RerouteNext]_vars => SignalInvariant'
  BY SignalInvariantKept
<1>3. RerouteInit => SignalInvariant
  BY InitSignals
<1>4. QED BY <1>1, <1>2, <1>3, RerouteInvariant, PTL DEF RerouteSpec
=============================================================================
