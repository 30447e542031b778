------------------------ MODULE SessionRoutes_proofs ------------------------
(***************************************************************************)
(* Proofs about the session-routing tables, for any sets of keys, accounts *)
(* and concurrent requests and any generation limit.                       *)
(***************************************************************************)
EXTENDS SessionRoutes, TLAPS

USE KeysAssumption, AccountsAssumption, GenerationAssumption

\* The three table invariants support each other: joining a tree keeps it uniform
\* only because no affinity row is ahead of its tree, and that survives a merge
\* only because the trees are well formed.
TableInv == TreesWellFormed /\ AffinityNotAhead /\ RerouteTreeUniform
IInv == TypeOK /\ TableInv

-----------------------------------------------------------------------------
\* Requests only capture epochs of roots that exist: every mapped key's root is a
\* session key.
LEMMA EpochsType ==
    ASSUME TypeOK, NEW keys \in SUBSET Keys
    PROVE  Epochs(keys) \subseteq Epoch
BY DEF TypeOK, Epochs, Epoch, RootsOf, RootRow

\* What commit of a command leaves in the tables, given what the decision in
\* apply_session_route_action guarantees about its generation and its account.
LEMMA CommitPreserves ==
    ASSUME IInv,
           NEW root \in Keys, NEW keys \in SUBSET Keys, root \in keys,
           NEW action \in Actions, NEW target \in MaybeAccount,
           NEW effective \in MaybeAccount, NEW move \in BOOLEAN,
           NEW generation \in Generations,
           \A g \in TreeGenerations(root, keys) : g <= generation,
           move => effective # NoAccount,
           (~move /\ effective # NoAccount) =>
               \A k \in TreeKeys(root, keys) : affinity[k].account = effective,
           CommitAction(root, keys, action, target, effective, move, generation)
    PROVE  /\ roots' \in [Keys -> RootRow]
           /\ keyRoot' \in [Keys -> Keys \cup {NoKey}]
           /\ affinity' \in [Keys -> AffinityRow]
           /\ req' \in [Requests -> Request]
           /\ TableInv'
<1> DEFINE tree == TreeKeys(root, keys)
           merged == MergedRoots(root, keys)
<1>1. roots' \in [Keys -> RootRow]
  BY DEF CommitAction, IInv, TypeOK, RootRow, NoRoot, ActionStatus, Statuses,
         MaybeAccount, Generations, Actions
<1>2. keyRoot' \in [Keys -> Keys \cup {NoKey}]
  BY DEF CommitAction, IInv, TypeOK
<1>3. affinity' \in [Keys -> AffinityRow]
  BY DEF CommitAction, IInv, TypeOK, AffinityRow
<1>4. req' \in [Requests -> Request]
  <2>1. tree \subseteq Keys
    BY DEF TreeKeys, KeysOf
  <2>2. QED
    BY <2>1 DEF CommitAction, IInv, TypeOK, Request
<1>5. /\ root \in merged /\ root \in tree
      /\ \A k \in Keys : (k \in tree /\ keyRoot[k] # NoKey) => keyRoot[k] \in merged
      /\ \A k \in Keys : keyRoot[k] \in merged => k \in tree
  BY DEF TreeKeys, KeysOf, MergedRoots, RootsOf
<1>6. \A k \in Keys : keyRoot'[k] = IF k \in tree THEN root ELSE keyRoot[k]
  BY DEF CommitAction, IInv, TypeOK
<1>7. \A r \in Keys : /\ r = root => /\ roots'[r].exists
                                    /\ roots'[r].gen = generation
                                    /\ roots'[r].action = action
                                    /\ roots'[r].effective = effective
                      /\ r # root /\ r \in merged => ~roots'[r].exists
                      /\ r \notin merged => roots'[r] = roots[r]
  BY <1>5 DEF CommitAction, IInv, TypeOK, NoRoot
<1>8. \A k \in Keys : affinity'[k] = IF move /\ k \in tree
                                     THEN [account |-> effective, gen |-> generation]
                                     ELSE affinity[k]
  BY DEF CommitAction, IInv, TypeOK
<1>9. TreesWellFormed'
  <2>1. ASSUME NEW k \in Keys, keyRoot'[k] # NoKey PROVE roots'[keyRoot'[k]].exists
    <3>1. CASE k \in tree
      BY <1>6, <1>7, <3>1
    <3>2. CASE k \notin tree
      BY <2>1, <1>5, <1>6, <1>7, <3>2 DEF IInv, TypeOK, TableInv, TreesWellFormed
    <3>3. QED
      BY <3>1, <3>2
  <2>2. ASSUME NEW r \in Keys PROVE roots'[r].exists <=> keyRoot'[r] = r
    <3>1. CASE r = root
      BY <1>5, <1>6, <1>7, <3>1
    <3>2. CASE r # root /\ r \in merged
      <4>1. keyRoot'[r] # r
        BY <1>5, <1>6, <3>2 DEF IInv, TypeOK, TableInv, TreesWellFormed
      <4>2. QED
        BY <4>1, <1>7, <3>2
    <3>3. CASE r \notin merged
      BY <1>5, <1>6, <1>7, <3>3 DEF IInv, TypeOK, TableInv, TreesWellFormed
    <3>4. QED
      BY <3>1, <3>2, <3>3
  <2>3. QED
    BY <2>1, <2>2 DEF TreesWellFormed
<1>10. AffinityNotAhead'
  <2>1. SUFFICES ASSUME NEW k \in Keys
                 PROVE affinity'[k].gen <= IF keyRoot'[k] = NoKey THEN 0
                                           ELSE roots'[keyRoot'[k]].gen
    BY DEF AffinityNotAhead
  <2>2. CASE k \in tree
    <3>1. affinity[k].gen \in TreeGenerations(root, keys)
      BY <2>2 DEF TreeGenerations
    <3>2. affinity'[k].gen <= generation
      BY <1>8, <3>1 DEF Generations
    <3>3. QED
      BY <3>2, <2>2, <1>6, <1>7
  <2>3. CASE k \notin tree
    BY <2>3, <1>5, <1>6, <1>7, <1>8 DEF IInv, TypeOK, TableInv, AffinityNotAhead
  <2>4. QED
    BY <2>2, <2>3
<1>11. RerouteTreeUniform'
  <2>1. SUFFICES ASSUME NEW k \in Keys,
                        keyRoot'[k] # NoKey,
                        roots'[keyRoot'[k]].action = "reroute",
                        roots'[keyRoot'[k]].effective # NoAccount
                 PROVE affinity'[k].account \in {roots'[keyRoot'[k]].effective, NoAccount}
    BY DEF RerouteTreeUniform
  <2>2. CASE k \in tree
    BY <2>1, <2>2, <1>6, <1>7, <1>8
  <2>3. CASE k \notin tree
    BY <2>1, <2>3, <1>5, <1>6, <1>7, <1>8 DEF IInv, TypeOK, TableInv, RerouteTreeUniform
  <2>4. QED
    BY <2>2, <2>3
<1>12. QED
  BY <1>1, <1>2, <1>3, <1>4, <1>9, <1>10, <1>11 DEF TableInv

-----------------------------------------------------------------------------
\* A command either leaves everything alone or commits with a generation that
\* covers every generation of the merged tree, one more if it moves the tree.
LEMMA ApplyCases ==
    ASSUME IInv,
           NEW root \in Keys, NEW keys \in SUBSET Keys,
           NEW action \in Actions, NEW target \in MaybeAccount, NEW live \in Snapshots,
           ApplySessionRouteAction(root, keys, action, target, live)
    PROVE  \/ UNCHANGED <<roots, keyRoot, affinity, req>>
           \/ \E effective \in MaybeAccount, move \in BOOLEAN, current \in Generations :
                LET generation == IF move THEN current + 1 ELSE current IN
                /\ root \in keys
                /\ generation \in Generations
                /\ current \in TreeGenerations(root, keys)
                /\ \A g \in TreeGenerations(root, keys) : g <= current
                /\ move => effective # NoAccount
                /\ (~move /\ effective # NoAccount) =>
                     \A k \in TreeKeys(root, keys) : affinity[k].account = effective
                /\ CommitAction(root, keys, action, target, effective, move, generation)
<1>1. CASE ~Accepted(root, keys, target, live)
  BY <1>1 DEF ApplySessionRouteAction
<1>2. CASE Accepted(root, keys, target, live)
  <2>1. PICK effective \in EffectiveAccounts(target),
             current \in TreeGenerations(root, keys) :
          /\ \A g \in TreeGenerations(root, keys) : g <= current
          /\ IF ~RequiresMove(root, keys, effective, live, current)
             THEN CommitAction(root, keys, action, target, effective, FALSE, current)
             ELSE IF current < MaxGeneration
             THEN CommitAction(root, keys, action, target, effective, TRUE, current + 1)
             ELSE UNCHANGED <<roots, keyRoot, affinity, req>>
    BY <1>2 DEF ApplySessionRouteAction
  <2>2. effective \in MaybeAccount
    BY DEF EffectiveAccounts, MaybeAccount, IInv, TypeOK
  <2>3. current \in Generations
    BY <1>2 DEF TreeGenerations, MergedRoots, RootsOf, TreeKeys, KeysOf, IInv, TypeOK,
                RootRow, AffinityRow
  <2>4. CASE RequiresMove(root, keys, effective, live, current) /\ ~(current < MaxGeneration)
    BY <2>1, <2>4
  <2>5. CASE RequiresMove(root, keys, effective, live, current) /\ current < MaxGeneration
    <3>1. effective # NoAccount
      BY <2>5 DEF RequiresMove
    <3>2. current + 1 \in Generations
      BY <2>3, <2>5 DEF Generations
    <3>3. CommitAction(root, keys, action, target, effective, TRUE, current + 1)
      BY <2>1, <2>5
    <3>4. root \in keys
      BY <1>2 DEF Accepted
    <3>5. QED
      BY <2>1, <2>2, <2>3, <3>1, <3>2, <3>3, <3>4
  <2>6. CASE ~RequiresMove(root, keys, effective, live, current)
    <3>1. effective # NoAccount =>
            \A k \in TreeKeys(root, keys) : affinity[k].account = effective
      BY <2>6 DEF RequiresMove
    <3>2. CommitAction(root, keys, action, target, effective, FALSE, current)
      BY <2>1, <2>6
    <3>3. root \in keys
      BY <1>2 DEF Accepted
    <3>4. QED
      BY <2>1, <2>2, <2>3, <3>1, <3>2, <3>3
  <2>7. QED
    BY <2>4, <2>5, <2>6
<1>3. QED
  BY <1>1, <1>2

\* A command preserves the tables' invariants, whoever issues it.
LEMMA ApplyPreserves ==
    ASSUME IInv,
           NEW root \in Keys, NEW keys \in SUBSET Keys,
           NEW action \in Actions, NEW target \in MaybeAccount, NEW live \in Snapshots,
           ApplySessionRouteAction(root, keys, action, target, live)
    PROVE  /\ roots' \in [Keys -> RootRow]
           /\ keyRoot' \in [Keys -> Keys \cup {NoKey}]
           /\ affinity' \in [Keys -> AffinityRow]
           /\ req' \in [Requests -> Request]
           /\ TableInv'
<1>1. CASE UNCHANGED <<roots, keyRoot, affinity, req>>
  BY <1>1 DEF IInv, TypeOK, TableInv, TreesWellFormed, AffinityNotAhead, RerouteTreeUniform
<1>2. ASSUME NEW effective \in MaybeAccount, NEW move \in BOOLEAN,
             NEW current \in Generations, NEW generation \in Generations,
             generation = IF move THEN current + 1 ELSE current,
             root \in keys,
             \A g \in TreeGenerations(root, keys) : g <= current,
             move => effective # NoAccount,
             (~move /\ effective # NoAccount) =>
                 \A k \in TreeKeys(root, keys) : affinity[k].account = effective,
             CommitAction(root, keys, action, target, effective, move, generation)
      PROVE  /\ roots' \in [Keys -> RootRow]
             /\ keyRoot' \in [Keys -> Keys \cup {NoKey}]
             /\ affinity' \in [Keys -> AffinityRow]
             /\ req' \in [Requests -> Request]
             /\ TableInv'
  <2>1. TreeGenerations(root, keys) \subseteq Generations
    BY DEF TreeGenerations, MergedRoots, RootsOf, TreeKeys, KeysOf, IInv, TypeOK,
           RootRow, AffinityRow
  <2>2. \A g \in TreeGenerations(root, keys) : g <= generation
    BY <1>2, <2>1 DEF Generations
  <2>3. QED
    BY <1>2, <2>2, CommitPreserves
<1>3. QED
  BY <1>1, <1>2, ApplyCases

-----------------------------------------------------------------------------
\* A bind with a current epoch only adds keys to the epoch's own tree, and moves
\* the whole tree if a reroute had settled elsewhere.
LEMMA BindAtEpochPreserves ==
    ASSUME IInv,
           NEW keys \in SUBSET Keys, NEW epoch \in Epoch, epoch # NoEpoch,
           NEW account \in Accounts,
           EpochBindAllowed(keys, epoch), BindAtEpoch(keys, epoch, account)
    PROVE  /\ roots' \in [Keys -> RootRow]
           /\ keyRoot' \in [Keys -> Keys \cup {NoKey}]
           /\ affinity' \in [Keys -> AffinityRow]
           /\ TableInv'
<1> DEFINE root == epoch.root
<1>1. root \in Keys /\ root # NoKey /\ epoch.gen \in Generations
  BY DEF Epoch
<1>2. /\ roots[root].exists /\ roots[root].gen = epoch.gen
      /\ keyRoot[root] = root
      /\ \A k \in keys : keyRoot[k] \in {root, NoKey}
  <2>1. roots[root].exists /\ roots[root].gen = epoch.gen
    BY DEF EpochBindAllowed, EpochIsCurrent
  <2>2. keyRoot[root] = root
    BY <1>1, <2>1 DEF IInv, TableInv, TreesWellFormed
  <2>3. \A k \in keys : keyRoot[k] \in {root, NoKey}
    BY DEF EpochBindAllowed, RootsOf
  <2>4. QED
    BY <2>1, <2>2, <2>3
<1>3. /\ roots' \in [Keys -> RootRow]
      /\ \A r \in Keys : /\ roots'[r].exists = roots[r].exists
                         /\ roots'[r].gen = roots[r].gen
                         /\ roots'[r].action = roots[r].action
                         /\ r # root => roots'[r] = roots[r]
                         /\ r = root /\ ~FollowsFallback(epoch, account)
                              => roots'[r] = roots[r]
                         /\ r = root /\ FollowsFallback(epoch, account)
                              => roots'[r].effective = account
  BY <1>1 DEF BindAtEpoch, IInv, TypeOK, RootRow, Statuses, MaybeAccount
<1>4. /\ keyRoot' \in [Keys -> Keys \cup {NoKey}]
      /\ \A k \in Keys : keyRoot'[k] = IF k \in keys THEN root ELSE keyRoot[k]
  BY <1>1 DEF BindAtEpoch, IInv, TypeOK
<1>5. \A k \in keys : affinity[k].gen <= epoch.gen
  <2>1. ASSUME NEW k \in keys PROVE affinity[k].gen <= epoch.gen
    <3>1. k \in Keys /\ affinity[k].gen \in Generations
      BY DEF IInv, TypeOK, AffinityRow
    <3>2. affinity[k].gen <= 0 \/ affinity[k].gen <= roots[root].gen
      BY <1>2, <3>1 DEF IInv, TableInv, AffinityNotAhead
    <3>3. QED
      BY <1>1, <1>2, <3>1, <3>2 DEF Generations
  <2>2. QED
    BY <2>1
<1>6. \A k \in Keys : affinity'[k] = BoundRow(keys, epoch, account, k)
  BY DEF BindAtEpoch
<1>7. \A k \in keys : affinity'[k] = [account |-> account, gen |-> epoch.gen]
  BY <1>5, <1>6 DEF BoundRow
<1>8. \A k \in Keys \ keys :
        \/ affinity'[k] = affinity[k]
        \/ /\ affinity'[k] = [account |-> account, gen |-> epoch.gen]
           /\ FollowsFallback(epoch, account) /\ keyRoot[k] = root
  BY <1>6 DEF BoundRow
<1>9. affinity' \in [Keys -> AffinityRow]
  BY <1>1 DEF BindAtEpoch, BoundRow, IInv, TypeOK, AffinityRow, MaybeAccount
<1>10. TreesWellFormed'
  BY <1>1, <1>2, <1>3, <1>4 DEF TreesWellFormed, IInv, TypeOK, TableInv
<1>11. AffinityNotAhead'
  <2>1. ASSUME NEW k \in Keys
        PROVE affinity'[k].gen <= IF keyRoot'[k] = NoKey THEN 0 ELSE roots'[keyRoot'[k]].gen
    <3>1. CASE k \in keys
      BY <3>1, <1>1, <1>2, <1>3, <1>4, <1>7 DEF Generations
    <3>2. CASE k \notin keys /\ affinity'[k] = affinity[k]
      BY <3>2, <1>3, <1>4 DEF IInv, TypeOK, TableInv, AffinityNotAhead
    <3>3. CASE k \notin keys /\ affinity'[k] # affinity[k]
      <4>1. keyRoot[k] = root /\ affinity'[k].gen = epoch.gen
        BY <3>3, <1>8
      <4>2. QED
        BY <3>3, <4>1, <1>1, <1>2, <1>3, <1>4 DEF Generations
    <3>4. QED
      BY <3>1, <3>2, <3>3
  <2>2. QED
    BY <2>1 DEF AffinityNotAhead
<1>12. RerouteTreeUniform'
  <2>1. SUFFICES ASSUME NEW k \in Keys,
                        keyRoot'[k] # NoKey,
                        roots'[keyRoot'[k]].action = "reroute",
                        roots'[keyRoot'[k]].effective # NoAccount
                 PROVE affinity'[k].account \in {roots'[keyRoot'[k]].effective, NoAccount}
    BY DEF RerouteTreeUniform
  <2>2. CASE k \in keys
    <3>1. affinity'[k].account = account
      BY <2>2, <1>7
    <3>2. roots'[root].effective = account
      BY <2>1, <2>2, <1>1, <1>3, <1>4 DEF FollowsFallback
    <3>3. QED
      BY <2>2, <3>1, <3>2, <1>4
  <2>3. CASE k \notin keys /\ keyRoot[k] = root
    <3>1. CASE FollowsFallback(epoch, account)
      <4>1. affinity'[k].account \in {account, NoAccount}
        BY <2>3, <3>1, <1>6 DEF BoundRow
      <4>2. QED
        BY <2>3, <3>1, <4>1, <1>1, <1>3, <1>4
    <3>2. CASE ~FollowsFallback(epoch, account)
      <4>1. affinity'[k] = affinity[k] /\ roots'[root] = roots[root] /\ keyRoot'[k] = root
        BY <2>3, <3>2, <1>1, <1>3, <1>4, <1>8
      <4>2. QED
        BY <2>1, <2>3, <4>1, <1>1 DEF IInv, TableInv, RerouteTreeUniform
    <3>3. QED
      BY <3>1, <3>2
  <2>4. CASE k \notin keys /\ keyRoot[k] # root
    <3>1. affinity'[k] = affinity[k] /\ keyRoot'[k] = keyRoot[k]
      BY <2>4, <1>4, <1>8
    <3>2. keyRoot[k] \in Keys /\ roots'[keyRoot[k]] = roots[keyRoot[k]]
      BY <2>1, <2>4, <3>1, <1>3 DEF IInv, TypeOK
    <3>3. QED
      BY <2>1, <3>1, <3>2 DEF IInv, TableInv, RerouteTreeUniform
  <2>5. QED
    BY <2>2, <2>3, <2>4
<1>13. QED
  BY <1>3, <1>4, <1>9, <1>10, <1>11, <1>12 DEF TableInv

\* A bind without an epoch only creates or extends a tree no command has touched.
LEMMA LegacyBindPreserves ==
    ASSUME IInv,
           NEW keys \in SUBSET Keys, NEW root, NEW account \in Accounts,
           root \in IF RootsOf(keys) = {} THEN keys ELSE RootsOf(keys),
           LegacyBindAllowed(keys), LegacyBind(keys, root, account)
    PROVE  /\ roots' \in [Keys -> RootRow]
           /\ keyRoot' \in [Keys -> Keys \cup {NoKey}]
           /\ affinity' \in [Keys -> AffinityRow]
           /\ TableInv'
<1>1. root \in Keys /\ root # NoKey
  BY DEF RootsOf, IInv, TypeOK
<1>2. /\ \A k \in keys : keyRoot[k] \in {root, NoKey}
      /\ \A k \in Keys : roots[root].exists \/ keyRoot[k] # root
      /\ roots[root].exists \/ root \in keys
      /\ roots[root].exists => roots[root].gen = 0 /\ roots[root].action = "none"
  <2>1. CASE RootsOf(keys) = {}
    <3>1. root \in keys /\ \A k \in keys : keyRoot[k] = NoKey
      BY <2>1 DEF RootsOf
    <3>2. ~roots[root].exists
      BY <3>1, <1>1 DEF IInv, TableInv, TreesWellFormed
    <3>3. \A k \in Keys : keyRoot[k] # root
      BY <3>2, <1>1 DEF IInv, TableInv, TreesWellFormed
    <3>4. QED
      BY <3>1, <3>2, <3>3
  <2>2. CASE RootsOf(keys) # {}
    <3>1. root \in RootsOf(keys)
      BY <2>2
    <3>2. roots[root].gen = 0 /\ roots[root].action = "none"
      BY <3>1 DEF LegacyBindAllowed
    <3>3. \A k \in keys : keyRoot[k] \in {root, NoKey}
      BY <3>1 DEF LegacyBindAllowed, RootsOf
    <3>4. roots[root].exists
      BY <3>1 DEF RootsOf, IInv, TableInv, TreesWellFormed
    <3>5. QED
      BY <3>2, <3>3, <3>4
  <2>3. QED
    BY <2>1, <2>2
<1>3. /\ roots' \in [Keys -> RootRow]
      /\ \A r \in Keys \ {root} : roots'[r] = roots[r]
      /\ roots'[root].exists /\ roots'[root].gen = 0 /\ roots'[root].action = "none"
  <2>1. /\ NewRoot \in RootRow
        /\ NewRoot.exists /\ NewRoot.gen = 0 /\ NewRoot.action = "none"
    BY DEF NewRoot, NoRoot, RootRow, Statuses, Actions, MaybeAccount, Generations
  <2>2. CASE roots[root].exists
    BY <2>2, <1>1, <1>2 DEF LegacyBind, IInv, TypeOK
  <2>3. CASE ~roots[root].exists
    <3>1. roots' = [roots EXCEPT ![root] = NewRoot]
      BY <2>3 DEF LegacyBind
    <3>2. QED
      BY <2>1, <3>1, <1>1 DEF IInv, TypeOK
  <2>4. QED
    BY <2>2, <2>3
<1>4. /\ keyRoot' \in [Keys -> Keys \cup {NoKey}]
      /\ \A k \in Keys : keyRoot'[k] = IF k \in keys THEN root ELSE keyRoot[k]
  BY <1>1, <1>2 DEF LegacyBind, IInv, TypeOK
<1>5. /\ affinity' \in [Keys -> AffinityRow]
      /\ \A k \in Keys : affinity'[k].gen = affinity[k].gen
      /\ \A k \in Keys \ keys : affinity'[k] = affinity[k]
  BY DEF LegacyBind, IInv, TypeOK, AffinityRow, MaybeAccount
<1>6. TreesWellFormed'
  BY <1>1, <1>2, <1>3, <1>4 DEF TreesWellFormed, IInv, TypeOK, TableInv
<1>7. AffinityNotAhead'
  <2>1. ASSUME NEW k \in Keys
        PROVE affinity'[k].gen <= IF keyRoot'[k] = NoKey THEN 0 ELSE roots'[keyRoot'[k]].gen
    <3>1. affinity[k].gen <= IF keyRoot[k] = NoKey THEN 0 ELSE roots[keyRoot[k]].gen
      BY DEF IInv, TableInv, AffinityNotAhead
    <3>2. CASE k \in keys \/ keyRoot[k] = root
      BY <3>1, <3>2, <1>1, <1>2, <1>3, <1>4, <1>5
    <3>3. CASE k \notin keys /\ keyRoot[k] # root
      BY <3>1, <3>3, <1>3, <1>4, <1>5 DEF IInv, TypeOK
    <3>4. QED
      BY <3>2, <3>3
  <2>2. QED
    BY <2>1 DEF AffinityNotAhead
<1>8. RerouteTreeUniform'
  <2>1. SUFFICES ASSUME NEW k \in Keys,
                        keyRoot'[k] # NoKey,
                        roots'[keyRoot'[k]].action = "reroute",
                        roots'[keyRoot'[k]].effective # NoAccount
                 PROVE affinity'[k].account \in {roots'[keyRoot'[k]].effective, NoAccount}
    BY DEF RerouteTreeUniform
  <2>2. k \notin keys /\ keyRoot'[k] = keyRoot[k] /\ keyRoot[k] # root
    BY <2>1, <1>3, <1>4
  <2>3. keyRoot[k] \in Keys /\ roots'[keyRoot[k]] = roots[keyRoot[k]]
    BY <2>1, <2>2, <1>3 DEF IInv, TypeOK
  <2>4. QED
    BY <2>1, <2>2, <2>3, <1>5 DEF IInv, TableInv, RerouteTreeUniform
<1>9. QED
  BY <1>3, <1>4, <1>5, <1>6, <1>7, <1>8 DEF TableInv

-----------------------------------------------------------------------------
\* The initial database satisfies the invariant.
LEMMA InitIInv == Init => IInv
BY DEF Init, IInv, TypeOK, TableInv, TreesWellFormed, AffinityNotAhead, RerouteTreeUniform,
       RootRow, NoRoot, AffinityRow, Generations, MaybeAccount, Actions, Statuses, Request,
       IdleRequest, NoEpoch, Epoch, Retry, NoRetry

\* If the tables are left alone, so are their invariants.
LEMMA TablesUnchanged ==
    ASSUME TableInv, UNCHANGED tables
    PROVE  TableInv'
BY DEF TableInv, tables, TreesWellFormed, AffinityNotAhead, RerouteTreeUniform

\* Every step preserves the invariant.
LEMMA NextIInv == IInv /\ [Next]_vars => IInv'
<1> SUFFICES ASSUME IInv, [Next]_vars PROVE IInv'
  OBVIOUS
<1> USE DEF IInv
<1>1. ASSUME NEW q \in Requests, NEW keys \in SUBSET Keys, Resolve(q, keys) PROVE IInv'
  <2>1. TypeOK'
    <3>1. PICK epoch \in Epochs(keys) :
            req' = [req EXCEPT ![q] = [IdleRequest EXCEPT !.phase = "resolved",
                                                          !.keys = keys,
                                                          !.epoch = epoch]]
      BY <1>1 DEF Resolve
    <3>2. epoch \in Epoch
      BY EpochsType
    <3>3. [IdleRequest EXCEPT !.phase = "resolved", !.keys = keys, !.epoch = epoch] \in Request
      BY <3>2 DEF IdleRequest, Request, MaybeAccount
    <3>4. QED
      BY <1>1, <3>1, <3>3 DEF Resolve, TypeOK
  <2>2. TableInv'
    BY <1>1, TablesUnchanged DEF Resolve, tables
  <2>3. QED
    BY <2>1, <2>2
<1>2. ASSUME NEW q \in Requests, Select(q) PROVE IInv'
  <2>1. TypeOK'
    <3>1. PICK a \in eligible :
            req' = [req EXCEPT ![q] = [@ EXCEPT !.phase = "selected", !.account = a]]
      BY <1>2 DEF Select
    <3>2. a \in MaybeAccount /\ req[q] \in Request
      BY DEF TypeOK, MaybeAccount
    <3>3. [req[q] EXCEPT !.phase = "selected", !.account = a] \in Request
      BY <3>2 DEF Request
    <3>4. QED
      BY <1>2, <3>1, <3>3 DEF Select, TypeOK
  <2>2. TableInv'
    BY <1>2, TablesUnchanged DEF Select, tables
  <2>3. QED
    BY <2>1, <2>2
<1>3. ASSUME NEW q \in Requests, Finish(q) PROVE IInv'
  <2>1. TypeOK'
    BY <1>3 DEF Finish, TypeOK, Request, IdleRequest, MaybeAccount, Epoch
  <2>2. TableInv'
    BY <1>3, TablesUnchanged DEF Finish, tables
  <2>3. QED
    BY <2>1, <2>2
<1>4. ASSUME NEW q \in Requests, NEW rs \in SUBSET Keys, Bind(q, rs) PROVE IInv'
  <2> DEFINE keys == req[q].keys \cup rs
             epoch == req[q].epoch
             account == req[q].account
  <2>1. keys \in SUBSET Keys /\ epoch \in Epoch /\ account \in Accounts
    BY <1>4 DEF Bind, TypeOK, Request
  <2>2. UNCHANGED <<accounts, eligible, req, retry>>
    BY <1>4 DEF Bind
  <2>3. CASE epoch # NoEpoch
    <3>1. EpochBindAllowed(keys, epoch) /\ BindAtEpoch(keys, epoch, account)
      BY <1>4, <2>3 DEF Bind
    <3>2. /\ roots' \in [Keys -> RootRow]
          /\ keyRoot' \in [Keys -> Keys \cup {NoKey}]
          /\ affinity' \in [Keys -> AffinityRow]
          /\ TableInv'
      BY <2>1, <2>3, <3>1, BindAtEpochPreserves
    <3>3. QED
      BY <2>2, <3>2 DEF TypeOK
  <2>4. CASE epoch = NoEpoch
    <3>1. LegacyBindAllowed(keys)
      BY <1>4, <2>4 DEF Bind
    <3>2. PICK root \in IF RootsOf(keys) = {} THEN PreferredRoots(req[q].keys, rs)
                        ELSE RootsOf(keys) : LegacyBind(keys, root, account)
      BY <1>4, <2>4 DEF Bind
    <3>3. root \in IF RootsOf(keys) = {} THEN keys ELSE RootsOf(keys)
      BY <3>2 DEF PreferredRoots
    <3>4. /\ roots' \in [Keys -> RootRow]
          /\ keyRoot' \in [Keys -> Keys \cup {NoKey}]
          /\ affinity' \in [Keys -> AffinityRow]
          /\ TableInv'
      BY <2>1, <3>1, <3>2, <3>3, LegacyBindPreserves
    <3>5. QED
      BY <2>2, <3>4 DEF TypeOK
  <2>5. QED
    BY <2>3, <2>4
<1>5. ASSUME NEW root \in Keys, NEW keys \in SUBSET Keys, NEW action \in Actions,
             NEW target \in MaybeAccount, NEW live \in Snapshots,
             Command(root, keys, action, target, live)
      PROVE  IInv'
  BY <1>5, ApplyPreserves DEF Command, TypeOK
<1>6. ASSUME RetryList PROVE IInv'
  <2>1. TypeOK'
    BY <1>6 DEF RetryList, TypeOK, Retry, NoRetry, RootRow, Actions, MaybeAccount
  <2>2. TableInv'
    BY <1>6, TablesUnchanged DEF RetryList, tables
  <2>3. QED
    BY <2>1, <2>2
<1>7. ASSUME NEW r \in Keys, RetryReadKeys(r) PROVE IInv'
  <2>1. TypeOK'
    <3>1. retry[r] \in Retry /\ KeysOf({r}) \in SUBSET Keys
      BY DEF TypeOK, KeysOf
    <3>2. [retry[r] EXCEPT !.state = "ready", !.keys = KeysOf({r})] \in Retry
      BY <3>1 DEF Retry
    <3>3. QED
      BY <1>7, <3>2 DEF RetryReadKeys, TypeOK
  <2>2. TableInv'
    BY <1>7, TablesUnchanged DEF RetryReadKeys, tables
  <2>3. QED
    BY <2>1, <2>2
<1>8. ASSUME NEW r \in Keys, NEW live \in Snapshots, RetryApply(r, live) PROVE IInv'
  <2>1. retry[r] \in Retry
    BY DEF TypeOK
  <2>2. ApplySessionRouteAction(r, retry[r].keys, retry[r].action, retry[r].target, live)
    BY <1>8 DEF RetryApply
  <2>3. /\ roots' \in [Keys -> RootRow]
        /\ keyRoot' \in [Keys -> Keys \cup {NoKey}]
        /\ affinity' \in [Keys -> AffinityRow]
        /\ req' \in [Requests -> Request]
        /\ TableInv'
    BY <2>1, <2>2, ApplyPreserves DEF Retry
  <2>4. retry' \in [Keys -> Retry] /\ UNCHANGED <<accounts, eligible>>
    BY <1>8 DEF RetryApply, TypeOK, NoRetry, Retry, Actions, MaybeAccount
  <2>5. QED
    BY <2>3, <2>4 DEF TypeOK
<1>9. ASSUME NEW a \in Accounts, DeleteAccount(a) PROVE IInv'
  <2>1. /\ roots' \in [Keys -> RootRow]
        /\ \A r \in Keys : /\ roots'[r].exists = roots[r].exists
                           /\ roots'[r].gen = roots[r].gen
                           /\ roots'[r].action = roots[r].action
                           /\ roots'[r].effective \in {roots[r].effective, NoAccount}
    <3>1. \A r \in Keys :
            roots'[r] = [roots[r] EXCEPT !.requested = SetNull(roots[r].requested, a),
                                         !.effective = SetNull(roots[r].effective, a)]
      BY <1>9 DEF DeleteAccount
    <3>2. ASSUME NEW r \in Keys
          PROVE  /\ roots'[r] \in RootRow
                 /\ roots'[r].exists = roots[r].exists
                 /\ roots'[r].gen = roots[r].gen
                 /\ roots'[r].action = roots[r].action
                 /\ roots'[r].effective \in {roots[r].effective, NoAccount}
      <4>1. roots[r] \in RootRow
        BY DEF TypeOK
      <4>2. \A x \in MaybeAccount : SetNull(x, a) \in {x, NoAccount}
        BY DEF SetNull
      <4>3. roots'[r].gen = roots[r].gen
        BY <3>1, <4>1 DEF RootRow
      <4>4. roots'[r].action = roots[r].action
        BY <3>1, <4>1 DEF RootRow
      <4>5. roots'[r].effective \in {roots[r].effective, NoAccount}
        BY <3>1, <4>1, <4>2 DEF RootRow
      <4>6. roots'[r].exists = roots[r].exists
        BY <3>1, <4>1 DEF RootRow
      <4>7. roots'[r] \in RootRow
        <5>1. \A x \in MaybeAccount : SetNull(x, a) \in MaybeAccount
          BY <4>2 DEF MaybeAccount
        <5>2. roots[r].requested \in MaybeAccount /\ roots[r].effective \in MaybeAccount
          BY <4>1 DEF RootRow
        <5>3. ASSUME NEW x \in MaybeAccount, NEW y \in MaybeAccount
              PROVE  [roots[r] EXCEPT !.requested = x, !.effective = y] \in RootRow
          BY <4>1 DEF RootRow
        <5>4. /\ SetNull(roots[r].requested, a) \in MaybeAccount
              /\ SetNull(roots[r].effective, a) \in MaybeAccount
          BY <5>1, <5>2
        <5>5. [roots[r] EXCEPT !.requested = SetNull(roots[r].requested, a),
                               !.effective = SetNull(roots[r].effective, a)] \in RootRow
          BY <5>3, <5>4
        <5>6. QED
          BY <3>1, <5>5
      <4>8. QED
        BY <4>3, <4>4, <4>5, <4>6, <4>7
    <3>3. roots' \in [Keys -> RootRow]
      BY <1>9, <3>2 DEF DeleteAccount
    <3>4. QED
      BY <3>2, <3>3
  <2>2. /\ affinity' \in [Keys -> AffinityRow]
        /\ \A k \in Keys : affinity'[k] \in {affinity[k], NoAffinity}
    <3>1. NoAffinity \in AffinityRow
      BY DEF NoAffinity, AffinityRow, MaybeAccount, Generations
    <3>2. QED
      BY <1>9, <3>1 DEF DeleteAccount, TypeOK
  <2>3. keyRoot' = keyRoot
    BY <1>9 DEF DeleteAccount
  <2>4. TypeOK'
    BY <1>9, <2>1, <2>2, <2>3 DEF DeleteAccount, TypeOK
  <2>5. TreesWellFormed'
    BY <2>1, <2>3 DEF TableInv, TreesWellFormed, TypeOK
  <2>6. AffinityNotAhead'
    <3>1. ASSUME NEW k \in Keys
          PROVE affinity'[k].gen <= IF keyRoot'[k] = NoKey THEN 0 ELSE roots'[keyRoot'[k]].gen
      <4>1. keyRoot[k] # NoKey => roots'[keyRoot[k]].gen = roots[keyRoot[k]].gen
                                   /\ roots[keyRoot[k]].gen \in Generations
        BY <2>1 DEF TypeOK, RootRow
      <4>2. QED
        BY <2>2, <2>3, <4>1 DEF TableInv, AffinityNotAhead, NoAffinity, Generations
    <3>2. QED
      BY <3>1 DEF AffinityNotAhead
  <2>7. RerouteTreeUniform'
    BY <2>1, <2>2, <2>3 DEF TableInv, RerouteTreeUniform, NoAffinity, TypeOK
  <2>8. QED
    BY <2>4, <2>5, <2>6, <2>7 DEF TableInv
<1>10. ASSUME NEW old \in SUBSET Keys, PruneHistory(old) PROVE IInv'
  <2>1. /\ affinity' \in [Keys -> AffinityRow]
        /\ \A k \in Keys : affinity'[k] \in {affinity[k], NoAffinity}
        /\ UNCHANGED <<roots, keyRoot, accounts, eligible, req, retry>>
    BY <1>10 DEF PruneHistory, TypeOK, AffinityRow, NoAffinity, MaybeAccount, Generations
  <2>2. AffinityNotAhead'
    <3>1. ASSUME NEW k \in Keys
          PROVE affinity'[k].gen <= IF keyRoot'[k] = NoKey THEN 0 ELSE roots'[keyRoot'[k]].gen
      <4>1. keyRoot[k] # NoKey => roots[keyRoot[k]].gen \in Generations
        BY DEF TypeOK, RootRow
      <4>2. QED
        BY <2>1, <4>1 DEF TableInv, AffinityNotAhead, NoAffinity, Generations
    <3>2. QED
      BY <3>1 DEF AffinityNotAhead
  <2>3. TreesWellFormed' /\ RerouteTreeUniform'
    BY <2>1 DEF TableInv, TreesWellFormed, RerouteTreeUniform, NoAffinity
  <2>4. QED
    BY <2>1, <2>2, <2>3 DEF TypeOK, TableInv
<1>11. ASSUME EligibilityChanges PROVE IInv'
  <2>1. TypeOK'
    BY <1>11 DEF EligibilityChanges, TypeOK
  <2>2. TableInv'
    BY <1>11, TablesUnchanged DEF EligibilityChanges, tables
  <2>3. QED
    BY <2>1, <2>2
<1>12. ASSUME Restart PROVE IInv'
  <2>1. TypeOK'
    BY <1>12 DEF Restart, TypeOK, Request, IdleRequest, MaybeAccount, Epoch, Retry, NoRetry, Actions
  <2>2. TableInv'
    BY <1>12, TablesUnchanged DEF Restart, tables
  <2>3. QED
    BY <2>1, <2>2
<1>13. ASSUME UNCHANGED vars PROVE IInv'
  BY <1>13, TablesUnchanged DEF vars, tables, TypeOK
<1>14. ASSUME CommandStep PROVE IInv'
  <2>1. PICK root \in Keys, live \in Snapshots, aliases \in SUBSET Keys :
          \/ Command(root, aliases \cup {root}, "rebalance", NoAccount, live)
          \/ \E target \in Accounts : Command(root, aliases \cup {root}, "reroute", target, live)
    BY <1>14 DEF CommandStep
  <2>2. aliases \cup {root} \in SUBSET Keys
    OBVIOUS
  <2>3. NoAccount \in MaybeAccount /\ Accounts \subseteq MaybeAccount
        /\ "rebalance" \in Actions /\ "reroute" \in Actions
    BY DEF MaybeAccount, Actions
  <2>4. QED
    BY <2>1, <2>2, <2>3, <1>5
<1>15. QED
  <2>1. CASE RequestStep
    <3>1. PICK q \in Requests :
            \/ \E keys \in SUBSET Keys : Resolve(q, keys)
            \/ Select(q)
            \/ \E rs \in SUBSET Keys : Bind(q, rs)
            \/ Finish(q)
      BY <2>1 DEF RequestStep
    <3>2. QED
      BY <3>1, <1>1, <1>2, <1>3, <1>4
  <2>2. CASE RetryStep
    BY <2>2, <1>6, <1>7, <1>8 DEF RetryStep
  <2>3. CASE EnvironmentStep
    BY <2>3, <1>9, <1>10, <1>11 DEF EnvironmentStep
  <2>4. QED
    BY <2>1, <2>2, <2>3, <1>12, <1>13, <1>14 DEF Next

\* The session-routing tables are well typed and well formed, no affinity row is
\* ahead of its tree and a rerouted tree leads to one account, always.
THEOREM RoutesInvariant == Spec => []IInv
<1>1. Init => IInv
  BY InitIInv
<1>2. IInv /\ [Next]_vars => IInv'
  BY NextIInv
<1>3. QED
  BY <1>1, <1>2, PTL DEF Spec

\* Type correctness of the session-routing tables and of what the processes that
\* use them hold in memory.
THEOREM RoutesTypeCorrect == Spec => []TypeOK
BY RoutesInvariant, PTL DEF IInv

\* Every mapped key has an existing root and every root owns itself.
THEOREM RoutesWellFormed == Spec => []TreesWellFormed
BY RoutesInvariant, PTL DEF IInv, TableInv

\* The guard of the affinity upsert never keeps an account back.
THEOREM RoutesNotAhead == Spec => []AffinityNotAhead
BY RoutesInvariant, PTL DEF IInv, TableInv

\* A rerouted tree is never split between accounts.
THEOREM ReroutedTreesUniform == Spec => []RerouteTreeUniform
BY RoutesInvariant, PTL DEF IInv, TableInv

-----------------------------------------------------------------------------
(***************************************************************************)
(* Generations only grow, so an epoch that became obsolete stays so.       *)
(***************************************************************************)
Mapped(k) == keyRoot[k] # NoKey
TreeGen(k) == roots[keyRoot[k]].gen

\* Mapped keys stay mapped and their trees' generations do not go back.
Monotone == \A k \in Keys : Mapped(k) => Mapped(k)' /\ TreeGen(k)' >= TreeGen(k)

\* A request's epoch is never ahead of its root's tree, and is behind it once the
\* tree has been moved; without an epoch, a moved key is in a moved tree.
EpochBehind(q) ==
    LET root == req[q].epoch.root IN
    req[q].phase # "idle" =>
      IF req[q].epoch # NoEpoch
      THEN /\ Mapped(root)
           /\ TreeGen(root) >= req[q].epoch.gen
           /\ root \in req[q].moved => TreeGen(root) > req[q].epoch.gen
      ELSE \A k \in req[q].keys \cap req[q].moved : Mapped(k) /\ TreeGen(k) > 0

OInv == IInv /\ \A q \in Requests : EpochBehind(q)

\* The generation of a mapped key's tree is a number.
LEMMA TreeGenType ==
    ASSUME IInv, NEW k \in Keys, Mapped(k)
    PROVE  TreeGen(k) \in Nat /\ keyRoot[k] \in Keys
BY DEF IInv, TypeOK, Mapped, TreeGen, RootRow, Generations

\* A commit raises the generation of every key it moves and lowers none.
LEMMA CommitMonotone ==
    ASSUME IInv,
           NEW root \in Keys, NEW keys \in SUBSET Keys,
           NEW action \in Actions, NEW target \in MaybeAccount,
           NEW effective \in MaybeAccount, NEW move \in BOOLEAN,
           NEW current \in Generations, NEW generation \in Generations,
           generation = IF move THEN current + 1 ELSE current,
           \A g \in TreeGenerations(root, keys) : g <= current,
           CommitAction(root, keys, action, target, effective, move, generation)
    PROVE  /\ Monotone
           /\ \A k \in TreeKeys(root, keys) :
                /\ k \in Keys /\ Mapped(k)' /\ TreeGen(k)' = generation
                /\ move => generation > 0
                /\ move /\ Mapped(k) => TreeGen(k)' > TreeGen(k)
<1> DEFINE tree == TreeKeys(root, keys)
           merged == MergedRoots(root, keys)
<1>1. /\ tree \subseteq Keys /\ root \in merged
      /\ \A k \in Keys : (k \in tree /\ keyRoot[k] # NoKey) => keyRoot[k] \in merged
      /\ \A k \in Keys : keyRoot[k] \in merged => k \in tree
  BY DEF TreeKeys, KeysOf, MergedRoots, RootsOf
<1>2. \A k \in Keys : keyRoot'[k] = IF k \in tree THEN root ELSE keyRoot[k]
  BY DEF CommitAction
<1>3. roots'[root].gen = generation /\ \A r \in Keys \ merged : roots'[r] = roots[r]
  BY <1>1 DEF CommitAction
<1>4. \A k \in tree : Mapped(k)' /\ TreeGen(k)' = generation
  BY <1>1, <1>2, <1>3 DEF Mapped, TreeGen
<1>5. move => generation > 0
  BY DEF Generations
<1>6. ASSUME NEW k \in tree, Mapped(k)
      PROVE  TreeGen(k)' >= TreeGen(k) /\ (move => TreeGen(k)' > TreeGen(k))
  <2>1. TreeGen(k) \in TreeGenerations(root, keys)
    BY <1>1, <1>6 DEF TreeGenerations, TreeGen, Mapped
  <2>2. TreeGen(k) <= current /\ TreeGen(k) \in Nat
    BY <1>1, <1>6, <2>1, TreeGenType
  <2>3. QED
    BY <2>2, <1>4 DEF Generations
<1>7. ASSUME NEW k \in Keys \ tree, Mapped(k)
      PROVE  Mapped(k)' /\ TreeGen(k)' >= TreeGen(k)
  <2>1. keyRoot'[k] = keyRoot[k] /\ keyRoot[k] \in Keys \ merged
    BY <1>1, <1>2, <1>7, TreeGenType
  <2>2. TreeGen(k)' = TreeGen(k)
    BY <2>1, <1>3 DEF TreeGen
  <2>3. QED
    BY <2>1, <2>2, <1>7, TreeGenType DEF Mapped
<1>8. QED
  BY <1>1, <1>4, <1>5, <1>6, <1>7 DEF Monotone

\* If the tables are left alone, so are the generations.
LEMMA UnchangedMonotone ==
    ASSUME IInv, UNCHANGED <<roots, keyRoot>>
    PROVE  Monotone
BY TreeGenType DEF Monotone, Mapped, TreeGen

\* A command preserves what is known of the requests running meanwhile.
LEMMA ApplyOInv ==
    ASSUME OInv,
           NEW root \in Keys, NEW keys \in SUBSET Keys,
           NEW action \in Actions, NEW target \in MaybeAccount, NEW live \in Snapshots,
           ApplySessionRouteAction(root, keys, action, target, live)
    PROVE  Monotone /\ \A q \in Requests : EpochBehind(q)'
<1>1. CASE UNCHANGED <<roots, keyRoot, affinity, req>>
  <2>1. Monotone
    BY <1>1, UnchangedMonotone DEF OInv
  <2>2. \A q \in Requests : EpochBehind(q)'
    BY <1>1 DEF OInv, EpochBehind, Mapped, TreeGen
  <2>3. QED
    BY <2>1, <2>2
<1>2. ASSUME NEW effective \in MaybeAccount, NEW move \in BOOLEAN,
             NEW current \in Generations, NEW generation \in Generations,
             generation = IF move THEN current + 1 ELSE current,
             \A g \in TreeGenerations(root, keys) : g <= current,
             CommitAction(root, keys, action, target, effective, move, generation)
      PROVE  Monotone /\ \A q \in Requests : EpochBehind(q)'
  <2> DEFINE tree == TreeKeys(root, keys)
  <2>1. /\ Monotone
        /\ \A k \in tree :
             /\ k \in Keys /\ Mapped(k)' /\ TreeGen(k)' = generation
             /\ move => generation > 0
             /\ move /\ Mapped(k) => TreeGen(k)' > TreeGen(k)
    <3>1. IInv
      BY DEF OInv
    <3>2. QED
      BY <1>2, <3>1, CommitMonotone
  <2>2. ASSUME NEW q \in Requests PROVE EpochBehind(q)'
    <3>1. req[q] \in Request
      BY DEF OInv, IInv, TypeOK
    <3>2. /\ req'[q].phase = req[q].phase
          /\ req'[q].epoch = req[q].epoch
          /\ req'[q].keys = req[q].keys
          /\ req'[q].moved = IF move /\ req[q].phase # "idle"
                             THEN req[q].moved \cup tree ELSE req[q].moved
      BY <1>2, <3>1 DEF CommitAction, Request
    <3>3. PICK x : x = req[q].epoch.root
      OBVIOUS
    <3>4. SUFFICES ASSUME req[q].phase # "idle"
                   PROVE  IF req[q].epoch # NoEpoch
                          THEN /\ Mapped(x)' /\ TreeGen(x)' >= req[q].epoch.gen
                               /\ x \in req'[q].moved => TreeGen(x)' > req[q].epoch.gen
                          ELSE \A k \in req[q].keys \cap req'[q].moved :
                                 Mapped(k)' /\ TreeGen(k)' > 0
      BY <3>2, <3>3 DEF EpochBehind, Mapped, TreeGen
    <3>5. \A k \in Keys : Mapped(k) => TreeGen(k)' \in Int
      <4>1. ASSUME NEW k \in Keys, Mapped(k) PROVE TreeGen(k)' \in Int
        <5>1. keyRoot'[k] \in Keys
          BY <1>2, <4>1, TreeGenType DEF CommitAction, OInv
        <5>2. roots'[keyRoot'[k]].gen \in Int
          BY <1>2, <5>1 DEF CommitAction, OInv, IInv, TypeOK, RootRow, Generations, NoRoot
        <5>3. QED
          BY <5>2 DEF TreeGen
      <4>2. QED
        BY <4>1
    <3>6. CASE req[q].epoch # NoEpoch
      <4>1. x \in Keys /\ req[q].epoch.gen \in Nat
        BY <3>1, <3>3, <3>6 DEF Request, Epoch, Generations
      <4>2. /\ Mapped(x) /\ TreeGen(x) >= req[q].epoch.gen
            /\ x \in req[q].moved => TreeGen(x) > req[q].epoch.gen
        BY <3>3, <3>4, <3>6 DEF OInv, EpochBehind
      <4>3. TreeGen(x) \in Nat /\ TreeGen(x)' \in Int
        BY <3>5, <4>1, <4>2, TreeGenType DEF OInv
      <4>4. Mapped(x)' /\ TreeGen(x)' >= TreeGen(x)
        BY <2>1, <4>1, <4>2 DEF Monotone
      <4>5. x \in req'[q].moved => x \in req[q].moved \/ TreeGen(x)' > TreeGen(x)
        BY <2>1, <3>2, <4>2
      <4>6. QED
        BY <3>6, <4>1, <4>2, <4>3, <4>4, <4>5
    <3>7. CASE req[q].epoch = NoEpoch
      <4>1. ASSUME NEW k \in req[q].keys \cap req'[q].moved
            PROVE  Mapped(k)' /\ TreeGen(k)' > 0
        <5>1. CASE k \in req[q].moved
          <6>1. k \in Keys /\ Mapped(k) /\ TreeGen(k) > 0
            BY <3>1, <3>4, <3>7, <4>1, <5>1 DEF OInv, EpochBehind, Request
          <6>2. Mapped(k)' /\ TreeGen(k)' >= TreeGen(k) /\ TreeGen(k) \in Nat
            BY <2>1, <6>1, TreeGenType DEF Monotone, OInv
          <6>3. TreeGen(k)' \in Int
            BY <3>5, <6>1
          <6>4. QED
            BY <6>1, <6>2, <6>3
        <5>2. CASE k \notin req[q].moved
          <6>1. move /\ k \in tree
            BY <3>2, <4>1, <5>2
          <6>2. QED
            BY <2>1, <6>1
        <5>3. QED
          BY <5>1, <5>2
      <4>2. QED
        BY <3>7, <4>1
    <3>8. QED
      BY <3>6, <3>7
  <2>3. QED
    BY <2>1, <2>2
<1>3. QED
  BY <1>1, <1>2, ApplyCases DEF OInv

\* A request that a step leaves alone, or only lets select an account or end,
\* stays behind its tree.
LEMMA RequestKept ==
    ASSUME OInv, IInv', Monotone, NEW q \in Requests,
           req'[q].phase # "idle" =>
               /\ req[q].phase # "idle"
               /\ req'[q].epoch = req[q].epoch
               /\ req'[q].keys = req[q].keys
               /\ req'[q].moved = req[q].moved
    PROVE  EpochBehind(q)'
<1>1. PICK x : x = req[q].epoch.root
  OBVIOUS
<1>2. SUFFICES ASSUME req'[q].phase # "idle"
               PROVE  IF req[q].epoch # NoEpoch
                      THEN /\ Mapped(x)' /\ TreeGen(x)' >= req[q].epoch.gen
                           /\ x \in req[q].moved => TreeGen(x)' > req[q].epoch.gen
                      ELSE \A k \in req[q].keys \cap req[q].moved : Mapped(k)' /\ TreeGen(k)' > 0
  BY <1>1 DEF EpochBehind, Mapped, TreeGen
<1>3. req[q] \in Request
  BY DEF OInv, IInv, TypeOK
<1>4. \A k \in Keys : Mapped(k) =>
        /\ Mapped(k)' /\ TreeGen(k)' >= TreeGen(k)
        /\ TreeGen(k) \in Nat /\ TreeGen(k)' \in Nat
  <2>1. ASSUME NEW k \in Keys, Mapped(k)
        PROVE  /\ Mapped(k)' /\ TreeGen(k)' >= TreeGen(k)
               /\ TreeGen(k) \in Nat /\ TreeGen(k)' \in Nat
    <3>1. Mapped(k)' /\ TreeGen(k)' >= TreeGen(k)
      BY <2>1 DEF Monotone
    <3>2. TreeGen(k) \in Nat
      BY <2>1, TreeGenType DEF OInv
    <3>3. TreeGen(k)' \in Nat
      BY <3>1 DEF IInv, TypeOK, Mapped, TreeGen, RootRow, Generations
    <3>4. QED
      BY <3>1, <3>2, <3>3
  <2>2. QED
    BY <2>1
<1>5. CASE req[q].epoch # NoEpoch
  <2>1. x \in Keys /\ req[q].epoch.gen \in Nat
    BY <1>1, <1>3, <1>5 DEF Request, Epoch, Generations
  <2>2. /\ Mapped(x) /\ TreeGen(x) >= req[q].epoch.gen
        /\ x \in req[q].moved => TreeGen(x) > req[q].epoch.gen
    BY <1>1, <1>2, <1>5 DEF OInv, EpochBehind
  <2>3. QED
    BY <1>4, <1>5, <2>1, <2>2
<1>6. CASE req[q].epoch = NoEpoch
  <2>1. \A k \in req[q].keys \cap req[q].moved : k \in Keys /\ Mapped(k) /\ TreeGen(k) > 0
    BY <1>2, <1>3, <1>6 DEF OInv, EpochBehind, Request
  <2>2. QED
    BY <1>4, <1>6, <2>1
<1>7. QED
  BY <1>5, <1>6

\* A resolved epoch is the current one.
LEMMA ResolveBehind ==
    ASSUME IInv, NEW q \in Requests, NEW keys \in SUBSET Keys, Resolve(q, keys)
    PROVE  EpochBehind(q)'
<1>1. PICK epoch \in Epochs(keys) :
        req' = [req EXCEPT ![q] = [IdleRequest EXCEPT !.phase = "resolved",
                                                      !.keys = keys,
                                                      !.epoch = epoch]]
  BY DEF Resolve
<1>2. req'[q].epoch = epoch /\ req'[q].moved = {} /\ UNCHANGED <<roots, keyRoot>>
  BY <1>1 DEF Resolve, IInv, TypeOK, IdleRequest
<1>3. CASE epoch = NoEpoch
  BY <1>2, <1>3 DEF EpochBehind
<1>4. CASE epoch # NoEpoch
  <2>1. PICK r \in RootsOf(keys) : epoch = [root |-> r, gen |-> roots[r].gen]
    BY <1>1, <1>4 DEF Epochs
  <2>2. r \in Keys /\ roots[r].exists
    BY <2>1 DEF RootsOf, IInv, TypeOK, TableInv, TreesWellFormed
  <2>3. keyRoot[r] = r /\ roots[r].gen \in Nat
    BY <2>2 DEF IInv, TypeOK, TableInv, TreesWellFormed, RootRow, Generations
  <2>4. QED
    BY <1>2, <2>1, <2>2, <2>3 DEF EpochBehind, Mapped, TreeGen
<1>5. QED
  BY <1>3, <1>4

\* A bind extends trees and leaves every generation as it is.
LEMMA BindMonotone ==
    ASSUME IInv, NEW q \in Requests, NEW rs \in SUBSET Keys, Bind(q, rs)
    PROVE  Monotone
<1> DEFINE keys == req[q].keys \cup rs
           epoch == req[q].epoch
           account == req[q].account
<1>1. keys \in SUBSET Keys /\ epoch \in Epoch
  BY DEF Bind, IInv, TypeOK, Request
<1>2. CASE epoch # NoEpoch
  <2>1. EpochBindAllowed(keys, epoch) /\ BindAtEpoch(keys, epoch, account)
    BY <1>2 DEF Bind
  <2>2. epoch.root \in Keys
    BY <1>1, <1>2 DEF Epoch
  <2>3. \A r \in Keys : roots'[r].gen = roots[r].gen
    BY <2>1, <2>2 DEF BindAtEpoch, IInv, TypeOK, RootRow
  <2>4. \A k \in Keys : keyRoot[k] # NoKey => keyRoot'[k] = keyRoot[k]
    BY <2>1 DEF BindAtEpoch, EpochBindAllowed, RootsOf
  <2>5. QED
    BY <2>3, <2>4, TreeGenType DEF Monotone, Mapped, TreeGen
<1>3. CASE epoch = NoEpoch
  <2>1. PICK root \in IF RootsOf(keys) = {} THEN PreferredRoots(req[q].keys, rs)
                      ELSE RootsOf(keys) : LegacyBind(keys, root, account)
    BY <1>3 DEF Bind
  <2>2. root \in Keys
    BY <1>1, <2>1 DEF PreferredRoots, RootsOf, IInv, TypeOK
  <2>3. \A r \in Keys : roots[r].exists => roots'[r] = roots[r]
    <3>1. CASE roots[root].exists
      BY <2>1, <3>1 DEF LegacyBind
    <3>2. CASE ~roots[root].exists
      <4>1. roots' = [roots EXCEPT ![root] = NewRoot]
        BY <2>1, <3>2 DEF LegacyBind
      <4>2. QED
        BY <3>2, <4>1, <2>2 DEF IInv, TypeOK
    <3>3. QED
      BY <3>1, <3>2
  <2>4. \A k \in Keys : keyRoot[k] # NoKey => keyRoot'[k] = keyRoot[k]
    BY <2>1 DEF LegacyBind
  <2>5. \A k \in Keys : keyRoot[k] # NoKey => roots[keyRoot[k]].exists
    BY DEF IInv, TableInv, TreesWellFormed
  <2>6. QED
    BY <2>3, <2>4, <2>5, TreeGenType DEF Monotone, Mapped, TreeGen
<1>4. QED
  BY <1>2, <1>3

\* Every step keeps generations monotone and requests behind their trees.
LEMMA NextOInv == OInv /\ [Next]_vars => OInv' /\ Monotone
<1> SUFFICES ASSUME OInv, [Next]_vars PROVE OInv' /\ Monotone
  OBVIOUS
<1>1. IInv /\ IInv'
  BY NextIInv DEF OInv
<1>2. ASSUME Monotone,
             \A q \in Requests : req'[q].phase # "idle" =>
               /\ req[q].phase # "idle"
               /\ req'[q].epoch = req[q].epoch
               /\ req'[q].keys = req[q].keys
               /\ req'[q].moved = req[q].moved
      PROVE  OInv' /\ Monotone
  BY <1>1, <1>2, RequestKept DEF OInv
<1>3. ASSUME UNCHANGED <<roots, keyRoot, req>> PROVE OInv' /\ Monotone
  BY <1>1, <1>2, <1>3, UnchangedMonotone
<1>4. ASSUME NEW q \in Requests, NEW keys \in SUBSET Keys, Resolve(q, keys)
      PROVE  OInv' /\ Monotone
  <2>1. Monotone
    BY <1>1, <1>4, UnchangedMonotone DEF Resolve
  <2>2. EpochBehind(q)'
    BY <1>1, <1>4, ResolveBehind
  <2>3. ASSUME NEW p \in Requests, p # q PROVE EpochBehind(p)'
    <3>1. req'[p] = req[p]
      BY <1>1, <1>4, <2>3 DEF Resolve, IInv, TypeOK
    <3>2. QED
      BY <1>1, <2>1, <3>1, RequestKept
  <2>4. QED
    BY <1>1, <2>1, <2>2, <2>3 DEF OInv
<1>5. ASSUME NEW q \in Requests, Select(q) PROVE OInv' /\ Monotone
  <2>1. Monotone
    BY <1>1, <1>5, UnchangedMonotone DEF Select
  <2>2. PICK a \in eligible :
          req' = [req EXCEPT ![q] = [@ EXCEPT !.phase = "selected", !.account = a]]
    BY <1>5 DEF Select
  <2>3. \A p \in Requests : /\ req'[p].epoch = req[p].epoch
                            /\ req'[p].keys = req[p].keys
                            /\ req'[p].moved = req[p].moved
                            /\ req[p].phase = "idle" => req'[p].phase = "idle"
    BY <1>1, <1>5, <2>2 DEF Select, IInv, TypeOK, Request
  <2>4. QED
    BY <1>2, <2>1, <2>3
<1>6. ASSUME NEW q \in Requests, Finish(q) PROVE OInv' /\ Monotone
  <2>1. Monotone
    BY <1>1, <1>6, UnchangedMonotone DEF Finish
  <2>2. \A p \in Requests : req'[p] = req[p] \/ req'[p].phase = "idle"
    BY <1>1, <1>6 DEF Finish, IInv, TypeOK, IdleRequest
  <2>3. QED
    BY <1>2, <2>1, <2>2
<1>7. ASSUME NEW q \in Requests, NEW rs \in SUBSET Keys, Bind(q, rs) PROVE OInv' /\ Monotone
  <2>1. Monotone
    BY <1>1, <1>7, BindMonotone
  <2>2. QED
    BY <1>2, <1>7, <2>1 DEF Bind
<1>8. ASSUME CommandStep PROVE OInv' /\ Monotone
  <2>1. PICK root \in Keys, live \in Snapshots, aliases \in SUBSET Keys :
          \/ Command(root, aliases \cup {root}, "rebalance", NoAccount, live)
          \/ \E target \in Accounts : Command(root, aliases \cup {root}, "reroute", target, live)
    BY <1>8 DEF CommandStep
  <2>2. PICK keys \in SUBSET Keys, action \in Actions, target \in MaybeAccount :
          ApplySessionRouteAction(root, keys, action, target, live)
    <3>1. aliases \cup {root} \in SUBSET Keys
      OBVIOUS
    <3>2. NoAccount \in MaybeAccount /\ Accounts \subseteq MaybeAccount
          /\ "rebalance" \in Actions /\ "reroute" \in Actions
      BY DEF MaybeAccount, Actions
    <3>3. QED
      BY <2>1, <3>1, <3>2 DEF Command
  <2>3. QED
    BY <1>1, <2>2, ApplyOInv DEF OInv
<1>9. ASSUME NEW r \in Keys, NEW live \in Snapshots, RetryApply(r, live)
      PROVE  OInv' /\ Monotone
  <2>1. retry[r] \in Retry
    BY <1>1 DEF IInv, TypeOK
  <2>2. ApplySessionRouteAction(r, retry[r].keys, retry[r].action, retry[r].target, live)
    BY <1>9 DEF RetryApply
  <2>3. Monotone /\ \A q \in Requests : EpochBehind(q)'
    BY <2>1, <2>2, ApplyOInv DEF Retry
  <2>4. QED
    BY <1>1, <2>3 DEF OInv
<1>10. ASSUME NEW a \in Accounts, DeleteAccount(a) PROVE OInv' /\ Monotone
  <2>1. \A r \in Keys : roots'[r].gen = roots[r].gen
    <3>1. ASSUME NEW r \in Keys PROVE roots'[r].gen = roots[r].gen
      <4>1. roots'[r] = [roots[r] EXCEPT !.requested = SetNull(roots[r].requested, a),
                                         !.effective = SetNull(roots[r].effective, a)]
        BY <1>10 DEF DeleteAccount
      <4>2. roots[r] \in RootRow
        BY <1>1 DEF IInv, TypeOK
      <4>3. QED
        BY <4>1, <4>2 DEF RootRow
    <3>2. QED
      BY <3>1
  <2>2. Monotone
    <3>1. keyRoot' = keyRoot
      BY <1>10 DEF DeleteAccount
    <3>2. QED
      BY <1>1, <2>1, <3>1, TreeGenType DEF Monotone, Mapped, TreeGen
  <2>3. QED
    BY <1>2, <1>10, <2>2 DEF DeleteAccount
<1>11. ASSUME Restart PROVE OInv' /\ Monotone
  <2>1. Monotone
    BY <1>1, <1>11, UnchangedMonotone DEF Restart
  <2>2. \A p \in Requests : req'[p].phase = "idle"
    BY <1>11 DEF Restart, IdleRequest
  <2>3. QED
    BY <1>2, <2>1, <2>2
<1>12. QED
  <2>1. CASE RequestStep
    <3>1. PICK q \in Requests :
            \/ \E keys \in SUBSET Keys : Resolve(q, keys)
            \/ Select(q)
            \/ \E rs \in SUBSET Keys : Bind(q, rs)
            \/ Finish(q)
      BY <2>1 DEF RequestStep
    <3>2. QED
      BY <3>1, <1>4, <1>5, <1>6, <1>7
  <2>2. CASE RetryStep
    <3>1. CASE RetryList \/ \E r \in Keys : RetryReadKeys(r)
      BY <3>1, <1>3 DEF RetryList, RetryReadKeys
    <3>2. CASE \E r \in Keys, live \in Snapshots : RetryApply(r, live)
      BY <3>2, <1>9
    <3>3. QED
      BY <2>2, <3>1, <3>2 DEF RetryStep
  <2>3. CASE EnvironmentStep
    <3>1. CASE EligibilityChanges \/ \E old \in SUBSET Keys : PruneHistory(old)
      BY <3>1, <1>3 DEF EligibilityChanges, PruneHistory
    <3>2. QED
      BY <2>3, <3>1, <1>10 DEF EnvironmentStep
  <2>4. CASE UNCHANGED vars
    BY <2>4, <1>3 DEF vars
  <2>5. QED
    BY <1>8, <1>11, <2>1, <2>2, <2>3, <2>4 DEF Next

\* Initially no request runs.
LEMMA InitOInv == Init => OInv
BY InitIInv DEF OInv, Init, EpochBehind, IdleRequest

\* What is known of requests refuses the binds of the obsolete ones.
LEMMA OInvRefuses == OInv => ObsoleteBindRefused
<1> SUFFICES ASSUME OInv, NEW q \in Requests, req[q].phase # "idle"
             PROVE  IF req[q].epoch # NoEpoch
                    THEN EpochIsCurrent(req[q].epoch) => req[q].epoch.root \notin req[q].moved
                    ELSE LegacyBindAllowed(req[q].keys) => req[q].keys \cap req[q].moved = {}
  BY DEF ObsoleteBindRefused
<1>1. req[q] \in Request
  BY DEF OInv, IInv, TypeOK
<1>2. CASE req[q].epoch # NoEpoch
  <2>1. SUFFICES ASSUME EpochIsCurrent(req[q].epoch), req[q].epoch.root \in req[q].moved
                 PROVE  FALSE
    BY <1>2
  <2>2. req[q].epoch.root \in Keys /\ req[q].epoch.gen \in Nat
    BY <1>1, <1>2 DEF Request, Epoch, Generations
  <2>3. keyRoot[req[q].epoch.root] = req[q].epoch.root
    BY <2>1, <2>2 DEF EpochIsCurrent, OInv, IInv, TableInv, TreesWellFormed
  <2>4. roots[keyRoot[req[q].epoch.root]].gen > req[q].epoch.gen
    BY <1>2, <2>1 DEF OInv, EpochBehind, TreeGen
  <2>5. roots[req[q].epoch.root].gen = req[q].epoch.gen
    BY <2>1 DEF EpochIsCurrent
  <2>6. QED
    BY <2>2, <2>3, <2>4, <2>5
<1>3. CASE req[q].epoch = NoEpoch
  <2>1. SUFFICES ASSUME LegacyBindAllowed(req[q].keys),
                        NEW k \in req[q].keys \cap req[q].moved
                 PROVE  FALSE
    BY <1>3
  <2>2. Mapped(k) /\ TreeGen(k) > 0
    BY <1>3 DEF OInv, EpochBehind
  <2>3. keyRoot[k] \in RootsOf(req[q].keys)
    BY <2>2 DEF RootsOf, Mapped
  <2>4. roots[keyRoot[k]].gen = 0
    BY <2>1, <2>3 DEF LegacyBindAllowed
  <2>5. QED
    BY <2>2, <2>4 DEF TreeGen
<1>4. QED
  BY <1>2, <1>3

\* Traffic that was in flight when a command moved its tree cannot undo the move:
\* its binds are refused, for any number of later merges and commands.
THEOREM ObsoleteBindsRefused == Spec => []ObsoleteBindRefused
<1>1. Init => OInv
  BY InitOInv
<1>2. OInv /\ [Next]_vars => OInv'
  BY NextOInv
<1>3. OInv => ObsoleteBindRefused
  BY OInvRefuses
<1>4. QED
  BY <1>1, <1>2, <1>3, PTL DEF Spec

\* The generation of the tree a key belongs to never decreases.
THEOREM GenerationsGrow == Spec => GenerationMonotone
<1>1. OInv /\ [Next]_vars =>
        [\A k \in Keys : keyRoot[k] # NoKey =>
           /\ keyRoot'[k] # NoKey
           /\ roots'[keyRoot'[k]].gen >= roots[keyRoot[k]].gen]_vars
  BY NextOInv DEF Monotone, Mapped, TreeGen
<1>2. Init => OInv
  BY InitOInv
<1>3. OInv /\ [Next]_vars => OInv'
  BY NextOInv
<1>4. QED
  BY <1>1, <1>2, <1>3, PTL DEF Spec, GenerationMonotone

-----------------------------------------------------------------------------
(***************************************************************************)
(* The tables implement RouteEpochs: each transaction is a join, a merge   *)
(* or a move of its trees, or leaves them alone.                           *)
(***************************************************************************)
\* A root that does not exist has no generation and no action, and what is pending,
\* in the tables or in the scheduler's memory, is a command.
CommandsInv ==
    /\ \A r \in Keys : ~roots[r].exists => roots[r].gen = 0 /\ roots[r].action = "none"
    /\ \A r \in Keys : roots[r].status = "pending" => roots[r].action # "none"
    /\ \A r \in Keys : retry[r].state # "none" => retry[r].action # "none"

EpochStep == RE!EpochNext \/ UNCHANGED RE!epochVars

\* Trees that keep their roots, generations and whether a command has touched them.
LEMMA SameEpochs ==
    ASSUME keyRoot' = keyRoot,
           \A r \in Keys : roots'[r].gen = roots[r].gen /\ roots'[r].action = roots[r].action
    PROVE  EpochStep
BY DEF EpochStep, RE!epochVars

\* The latest generation of a tree is that of one of its roots: no affinity row is
\* ahead of the tree its key belongs to.
LEMMA LatestIsARoots ==
    ASSUME IInv, NEW root \in Keys, NEW keys \in SUBSET Keys,
           NEW current \in TreeGenerations(root, keys),
           \A g \in TreeGenerations(root, keys) : g <= current
    PROVE  /\ RE!IsLatest(root, keys, current)
           /\ current \in Generations
<1> DEFINE merged == MergedRoots(root, keys)
<1>1. merged \subseteq Keys /\ root \in merged
  BY DEF MergedRoots, RootsOf, IInv, TypeOK
<1>2. \A r \in merged : roots[r].gen \in Nat /\ roots[r].gen <= current
  BY <1>1 DEF TreeGenerations, IInv, TypeOK, RootRow, Generations
<1>3. current \in Generations
  BY DEF TreeGenerations, MergedRoots, RootsOf, TreeKeys, KeysOf, IInv, TypeOK,
         RootRow, AffinityRow
<1>4. \E r \in merged : roots[r].gen = current
  <2>1. CASE \E r \in merged : current = roots[r].gen
    BY <2>1
  <2>2. CASE \E k \in TreeKeys(root, keys) : current = affinity[k].gen
    <3>1. PICK k \in TreeKeys(root, keys) : current = affinity[k].gen
      BY <2>2
    <3>2. k \in Keys
      BY DEF TreeKeys, KeysOf
    <3>3. current <= IF keyRoot[k] = NoKey THEN 0 ELSE roots[keyRoot[k]].gen
      BY <3>1, <3>2 DEF IInv, TableInv, AffinityNotAhead
    <3>4. CASE keyRoot[k] = NoKey
      BY <1>1, <1>2, <1>3, <3>3, <3>4 DEF Generations
    <3>5. CASE keyRoot[k] # NoKey
      <4>1. keyRoot[k] \in merged
        BY <3>1, <3>5 DEF TreeKeys, KeysOf, MergedRoots, RootsOf
      <4>2. QED
        BY <1>2, <1>3, <3>3, <3>5, <4>1 DEF Generations
    <3>6. QED
      BY <3>4, <3>5
  <2>3. QED
    BY <2>1, <2>2 DEF TreeGenerations
<1>5. merged = RE!TreesOf(keys) \cup {root}
  BY DEF MergedRoots, RootsOf, RE!TreesOf
<1>6. QED
  BY <1>1, <1>2, <1>3, <1>4, <1>5 DEF RE!IsLatest

\* A commit regroups the trees of its keys.
LEMMA CommitRegroups ==
    ASSUME IInv, NEW root \in Keys, NEW keys \in SUBSET Keys, root \in keys,
           NEW action \in Actions, action # "none", NEW target, NEW effective,
           NEW move \in BOOLEAN, NEW generation \in Generations,
           CommitAction(root, keys, action, target, effective, move, generation)
    PROVE  RE!Regroup(root, keys, generation)
<1> DEFINE merged == MergedRoots(root, keys)
<1>1. merged = RE!TreesOf(keys) \cup {root}
  BY DEF MergedRoots, RootsOf, RE!TreesOf
<1>2. TreeKeys(root, keys) = keys \cup RE!MembersOf(merged)
  BY DEF TreeKeys, KeysOf, RE!MembersOf
<1>3. keyRoot' = [k \in Keys |-> IF k \in keys \cup RE!MembersOf(merged)
                                 THEN root ELSE keyRoot[k]]
  BY <1>2 DEF CommitAction
<1>4. \A r \in Keys :
        /\ roots'[r].gen = IF r = root THEN generation
                           ELSE IF r \in merged THEN 0 ELSE roots[r].gen
        /\ roots'[r].action = IF r = root THEN action
                              ELSE IF r \in merged THEN "none" ELSE roots[r].action
  BY DEF CommitAction, NoRoot
<1>5. [r \in Keys |-> roots'[r].gen] =
        [r \in Keys |-> IF r = root THEN generation
                        ELSE IF r \in merged THEN 0 ELSE [s \in Keys |-> roots[s].gen][r]]
  BY <1>4
<1>6. {r \in Keys : roots'[r].action # "none"} =
        ({r \in Keys : roots[r].action # "none"} \ merged) \cup {root}
  BY <1>4
<1>7. QED
  BY <1>1, <1>3, <1>5, <1>6 DEF RE!Regroup

\* apply_session_route_action merges or moves trees, or changes nothing.
LEMMA ApplyEpochStep ==
    ASSUME IInv, CommandsInv,
           NEW root \in Keys, NEW keys \in SUBSET Keys,
           NEW action \in Actions, action # "none", NEW target \in MaybeAccount,
           NEW live \in Snapshots,
           ApplySessionRouteAction(root, keys, action, target, live)
    PROVE  /\ EpochStep
           /\ \A r \in Keys : ~roots'[r].exists => roots'[r].gen = 0 /\ roots'[r].action = "none"
           /\ \A r \in Keys : roots'[r].status = "pending" => roots'[r].action # "none"
<1>1. CASE UNCHANGED <<roots, keyRoot, affinity, req>>
  BY <1>1, SameEpochs DEF CommandsInv
<1>2. ASSUME NEW effective \in MaybeAccount, NEW move \in BOOLEAN,
             NEW current \in Generations, NEW generation \in Generations,
             generation = IF move THEN current + 1 ELSE current,
             root \in keys,
             current \in TreeGenerations(root, keys),
             \A g \in TreeGenerations(root, keys) : g <= current,
             CommitAction(root, keys, action, target, effective, move, generation)
      PROVE  /\ EpochStep
             /\ \A r \in Keys :
                  ~roots'[r].exists => roots'[r].gen = 0 /\ roots'[r].action = "none"
             /\ \A r \in Keys : roots'[r].status = "pending" => roots'[r].action # "none"
  <2>1. RE!Regroup(root, keys, generation)
    BY <1>2, CommitRegroups
  <2>2. RE!IsLatest(root, keys, current)
    BY <1>2, LatestIsARoots
  <2>3. RE!Merge(root, keys) \/ RE!Move(root, keys)
    <3>1. CASE move
      <4>1. current \in 0..(MaxGeneration - 1) /\ generation = current + 1
        BY <1>2, <3>1 DEF Generations
      <4>2. QED
        BY <2>1, <2>2, <4>1 DEF RE!Move
    <3>2. CASE ~move
      <4>1. generation = current /\ current \in 0..MaxGeneration
        BY <1>2, <3>2 DEF Generations
      <4>2. QED
        BY <2>1, <2>2, <4>1 DEF RE!Merge
    <3>3. QED
      BY <3>1, <3>2
  <2>4. EpochStep
    BY <2>3 DEF EpochStep, RE!EpochNext
  <2>5. ASSUME NEW r \in Keys
        PROVE  /\ ~roots'[r].exists => roots'[r].gen = 0 /\ roots'[r].action = "none"
               /\ roots'[r].status = "pending" => roots'[r].action # "none"
    <3>1. CASE r = root
      BY <1>2, <3>1 DEF CommitAction
    <3>2. CASE r # root /\ r \in MergedRoots(root, keys)
      BY <1>2, <3>2 DEF CommitAction, NoRoot
    <3>3. CASE r # root /\ r \notin MergedRoots(root, keys)
      BY <1>2, <3>3 DEF CommitAction, CommandsInv
    <3>4. QED
      BY <3>1, <3>2, <3>3
  <2>6. QED
    BY <2>4, <2>5
<1>3. QED
  BY <1>1, <1>2, ApplyCases, SMTT(30)

\* A bind joins its keys to one tree.
LEMMA BindEpochStep ==
    ASSUME IInv, CommandsInv, NEW q \in Requests, NEW rs \in SUBSET Keys, Bind(q, rs)
    PROVE  EpochStep /\ CommandsInv'
<1> DEFINE keys == req[q].keys \cup rs
           epoch == req[q].epoch
           account == req[q].account
<1>1. keys \in SUBSET Keys /\ epoch \in Epoch /\ retry' = retry
  BY DEF Bind, IInv, TypeOK, Request
<1> HIDE DEF keys
<1>2. ASSUME NEW root \in Keys,
             RootsOf(keys) \subseteq {root},
             keyRoot[root] = root \/ (root \in keys /\ RootsOf(keys) = {}),
             keyRoot' = [k \in Keys |-> IF k \in keys THEN root ELSE keyRoot[k]],
             \A r \in Keys : roots'[r].gen = roots[r].gen /\ roots'[r].action = roots[r].action
      PROVE  EpochStep
  <2>1. RE!TreesOf(keys) = RootsOf(keys)
    BY DEF RE!TreesOf, RootsOf
  <2>2. RE!Join(root, keys)
    BY <1>2, <2>1 DEF RE!Join, RE!IsRoot
  <2>3. QED
    BY <1>1, <2>2 DEF EpochStep, RE!EpochNext
<1>3. CASE epoch # NoEpoch
  <2>1. EpochBindAllowed(keys, epoch) /\ BindAtEpoch(keys, epoch, account)
    BY <1>3 DEF Bind, keys
  <2>2. epoch.root \in Keys
    BY <1>1, <1>3 DEF Epoch
  <2>3. keyRoot[epoch.root] = epoch.root
    BY <2>1, <2>2 DEF EpochBindAllowed, EpochIsCurrent, IInv, TableInv, TreesWellFormed
  <2>4. ASSUME NEW r \in Keys
        PROVE  /\ roots'[r].gen = roots[r].gen /\ roots'[r].action = roots[r].action
               /\ roots'[r].exists = roots[r].exists
               /\ roots'[r].status = "pending" => roots[r].status = "pending"
    <3>1. roots[r] \in RootRow
      BY DEF IInv, TypeOK
    <3>2. QED
      BY <2>1, <2>2, <3>1 DEF BindAtEpoch, IInv, TypeOK, RootRow
  <2>5. EpochStep
    BY <1>2, <2>1, <2>2, <2>3, <2>4 DEF BindAtEpoch, EpochBindAllowed
  <2>6. CommandsInv'
    BY <1>1, <2>4 DEF CommandsInv
  <2>7. QED
    BY <2>5, <2>6
<1>4. CASE epoch = NoEpoch
  <2>1. PICK root \in IF RootsOf(keys) = {} THEN PreferredRoots(req[q].keys, rs)
                      ELSE RootsOf(keys) : LegacyBind(keys, root, account)
    BY <1>4 DEF Bind, keys
  <2>2. LegacyBindAllowed(keys)
    BY <1>4 DEF Bind, keys
  <2>3. root \in IF RootsOf(keys) = {} THEN keys ELSE RootsOf(keys)
    BY <2>1 DEF PreferredRoots, keys
  <2>4. root \in Keys
    BY <1>1, <2>3 DEF RootsOf, IInv, TypeOK
  <2>5. RootsOf(keys) \subseteq {root}
    BY <2>2, <2>3 DEF LegacyBindAllowed
  <2>6. keyRoot[root] = root \/ (root \in keys /\ RootsOf(keys) = {})
    <3>1. CASE RootsOf(keys) = {}
      BY <2>3, <3>1
    <3>2. CASE RootsOf(keys) # {}
      <4>1. root \in RootsOf(keys)
        BY <2>3, <3>2
      <4>2. roots[root].exists
        BY <1>1, <4>1 DEF RootsOf, IInv, TableInv, TreesWellFormed
      <4>3. QED
        BY <2>4, <4>2 DEF IInv, TableInv, TreesWellFormed
    <3>3. QED
      BY <3>1, <3>2
  <2>7. keyRoot' = [k \in Keys |-> IF k \in keys THEN root ELSE keyRoot[k]]
    BY <1>1, <2>1, <2>5 DEF LegacyBind, RootsOf
  <2>8. ASSUME NEW r \in Keys
        PROVE  /\ roots'[r].gen = roots[r].gen /\ roots'[r].action = roots[r].action
               /\ ~roots'[r].exists => ~roots[r].exists
               /\ roots'[r].status = "pending" => roots[r].status = "pending"
    <3>1. CASE r = root /\ ~roots[root].exists
      <4>1. roots'[r] = NewRoot
        BY <2>1, <2>4, <3>1 DEF LegacyBind, IInv, TypeOK
      <4>2. roots[r].gen = 0 /\ roots[r].action = "none"
        BY <3>1 DEF CommandsInv
      <4>3. QED
        BY <4>1, <4>2 DEF NewRoot
    <3>2. CASE r # root \/ roots[root].exists
      <4>1. roots'[r] = roots[r]
        BY <2>1, <2>4, <3>2 DEF LegacyBind, IInv, TypeOK
      <4>2. QED
        BY <4>1
    <3>3. QED
      BY <3>1, <3>2
  <2>9. EpochStep
    BY <1>2, <2>4, <2>5, <2>6, <2>7, <2>8
  <2>10. CommandsInv'
    BY <1>1, <2>8 DEF CommandsInv
  <2>11. QED
    BY <2>9, <2>10
<1>5. QED
  BY <1>3, <1>4

\* Every step of the tables is a step of RouteEpochs or a stutter.
LEMMA NextEpochStep ==
    IInv /\ CommandsInv /\ [Next]_vars => CommandsInv' /\ EpochStep
<1> SUFFICES ASSUME IInv, CommandsInv, [Next]_vars PROVE CommandsInv' /\ EpochStep
  OBVIOUS
<1>1. ASSUME UNCHANGED <<roots, keyRoot, retry>> PROVE CommandsInv' /\ EpochStep
  BY <1>1, SameEpochs DEF CommandsInv
<1>2. CASE RequestStep
  <2>1. PICK q \in Requests :
          \/ \E keys \in SUBSET Keys : Resolve(q, keys)
          \/ Select(q)
          \/ \E rs \in SUBSET Keys : Bind(q, rs)
          \/ Finish(q)
    BY <1>2 DEF RequestStep
  <2>2. CASE \E rs \in SUBSET Keys : Bind(q, rs)
    BY <2>2, BindEpochStep
  <2>3. QED
    BY <1>1, <2>1, <2>2 DEF Resolve, Select, Finish
<1>3. CASE CommandStep
  <2>1. PICK root \in Keys, live \in Snapshots, aliases \in SUBSET Keys :
          \/ Command(root, aliases \cup {root}, "rebalance", NoAccount, live)
          \/ \E target \in Accounts : Command(root, aliases \cup {root}, "reroute", target, live)
    BY <1>3 DEF CommandStep
  <2>2. PICK keys \in SUBSET Keys, action \in Actions, target \in MaybeAccount :
          action # "none" /\ Command(root, keys, action, target, live)
    <3>1. aliases \cup {root} \in SUBSET Keys
      OBVIOUS
    <3>2. NoAccount \in MaybeAccount /\ Accounts \subseteq MaybeAccount
          /\ "rebalance" \in Actions /\ "reroute" \in Actions
      BY DEF MaybeAccount, Actions
    <3>3. QED
      BY <2>1, <3>1, <3>2
  <2>3. ApplySessionRouteAction(root, keys, action, target, live) /\ retry' = retry
    BY <2>2 DEF Command
  <2>4. QED
    BY <2>2, <2>3, ApplyEpochStep DEF CommandsInv
<1>4. CASE RetryStep
  <2>1. CASE RetryList
    <3>1. UNCHANGED <<roots, keyRoot>>
      BY <2>1 DEF RetryList
    <3>2. ASSUME NEW r \in Keys, retry'[r].state # "none" PROVE retry'[r].action # "none"
      BY <2>1, <3>2 DEF RetryList, NoRetry, Pending, CommandsInv
    <3>3. QED
      BY <3>1, <3>2, SameEpochs DEF CommandsInv
  <2>2. ASSUME NEW r \in Keys, RetryReadKeys(r) PROVE CommandsInv' /\ EpochStep
    <3>1. UNCHANGED <<roots, keyRoot>>
      BY <2>2 DEF RetryReadKeys
    <3>2. ASSUME NEW s \in Keys, retry'[s].state # "none" PROVE retry'[s].action # "none"
      <4>1. retry[r] \in Retry /\ retry[r].action # "none"
        BY <2>2 DEF IInv, TypeOK, RetryReadKeys, CommandsInv
      <4>2. retry'[r].action = retry[r].action
        BY <2>2, <4>1 DEF RetryReadKeys, IInv, TypeOK, Retry
      <4>3. s # r => retry'[s] = retry[s]
        BY <2>2 DEF RetryReadKeys, IInv, TypeOK
      <4>4. QED
        BY <3>2, <4>1, <4>2, <4>3 DEF CommandsInv
    <3>3. QED
      BY <3>1, <3>2, SameEpochs DEF CommandsInv
  <2>3. ASSUME NEW r \in Keys, NEW live \in Snapshots, RetryApply(r, live)
        PROVE  CommandsInv' /\ EpochStep
    <3>1. /\ retry[r] \in Retry /\ retry[r].action # "none"
          /\ retry' = [retry EXCEPT ![r] = NoRetry]
      BY <2>3 DEF IInv, TypeOK, RetryApply, CommandsInv
    <3>2. ApplySessionRouteAction(r, retry[r].keys, retry[r].action, retry[r].target, live)
      BY <2>3 DEF RetryApply
    <3>3. /\ EpochStep
          /\ \A s \in Keys : ~roots'[s].exists => roots'[s].gen = 0 /\ roots'[s].action = "none"
          /\ \A s \in Keys : roots'[s].status = "pending" => roots'[s].action # "none"
      BY <3>1, <3>2, ApplyEpochStep DEF Retry
    <3>4. \A s \in Keys : retry'[s].state # "none" => retry'[s].action # "none"
      BY <3>1 DEF IInv, TypeOK, NoRetry, CommandsInv
    <3>5. QED
      BY <3>3, <3>4 DEF CommandsInv
  <2>4. QED
    BY <1>4, <2>1, <2>2, <2>3 DEF RetryStep
<1>5. CASE EnvironmentStep
  <2>1. ASSUME NEW a \in Accounts, DeleteAccount(a) PROVE CommandsInv' /\ EpochStep
    <3>1. ASSUME NEW r \in Keys
          PROVE  /\ roots'[r].gen = roots[r].gen /\ roots'[r].action = roots[r].action
                 /\ roots'[r].exists = roots[r].exists /\ roots'[r].status = roots[r].status
      <4>1. roots'[r] = [roots[r] EXCEPT !.requested = SetNull(roots[r].requested, a),
                                         !.effective = SetNull(roots[r].effective, a)]
        BY <2>1 DEF DeleteAccount
      <4>2. roots[r] \in RootRow
        BY DEF IInv, TypeOK
      <4>3. QED
        BY <4>1, <4>2 DEF RootRow
    <3>2. keyRoot' = keyRoot /\ retry' = retry
      BY <2>1 DEF DeleteAccount
    <3>3. QED
      BY <3>1, <3>2, SameEpochs DEF CommandsInv
  <2>2. CASE EligibilityChanges \/ \E old \in SUBSET Keys : PruneHistory(old)
    BY <1>1, <2>2 DEF EligibilityChanges, PruneHistory
  <2>3. QED
    BY <1>5, <2>1, <2>2 DEF EnvironmentStep
<1>6. CASE Restart
  <2>1. UNCHANGED <<roots, keyRoot>> /\ retry' = [r \in Keys |-> NoRetry]
    BY <1>6 DEF Restart
  <2>2. QED
    BY <2>1, SameEpochs DEF CommandsInv, NoRetry
<1>7. CASE UNCHANGED vars
  BY <1>1, <1>7 DEF vars
<1>8. QED
  BY <1>2, <1>3, <1>4, <1>5, <1>6, <1>7 DEF Next

\* Seen through keys, roots and generations, the transactions of db.rs only ever join
\* keys to a tree, merge trees or move them above all their generations.
THEOREM RoutesImplementEpochs == Spec => ImplementsRouteEpochs
<1>1. Init => RE!EpochInit /\ CommandsInv
  <2> SUFFICES ASSUME Init PROVE RE!EpochInit /\ CommandsInv
    OBVIOUS
  <2>1. \A r \in Keys : roots[r].gen = 0 /\ roots[r].action = "none"
                        /\ roots[r].status = "none" /\ retry[r].state = "none"
    BY DEF Init, NoRoot, NoRetry
  <2>2. CommandsInv
    BY <2>1 DEF CommandsInv
  <2>3. RE!EpochInit
    BY <2>1 DEF Init, RE!EpochInit
  <2>4. QED
    BY <2>2, <2>3
<1>2. IInv /\ CommandsInv /\ [Next]_vars => CommandsInv' /\ [RE!EpochNext]_RE!epochVars
  BY NextEpochStep DEF EpochStep
<1>3. QED
  BY <1>1, <1>2, RoutesInvariant, PTL DEF Spec, ImplementsRouteEpochs, RE!EpochSpec
=============================================================================
