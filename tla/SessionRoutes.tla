---------------------------- MODULE SessionRoutes ----------------------------
(***************************************************************************)
(* The durable session-routing tables of the load balancer (db.rs) and the *)
(* three kinds of process that touch them concurrently:                    *)
(*                                                                         *)
(*   - proxied requests and WebSocket bridges, which resolve a routing     *)
(*     epoch, select an account, and some time later bind their session    *)
(*     keys to that account (possibly many times, always with the epoch    *)
(*     captured at the start);                                             *)
(*   - the operator, whose rebalance/reroute commands move a whole tree of *)
(*     session keys to one account and merge trees that turn out to be one *)
(*     session;                                                            *)
(*   - the scheduler, which lists pending commands and retries them.       *)
(*                                                                         *)
(* Each SQLite transaction is one step: every writing transaction starts   *)
(* with a write, which takes SQLite's single-writer lock.  What is read in *)
(* one statement and used in a later transaction is kept in req and retry. *)
(*                                                                         *)
(* Abstractions.  A session key is the hash of its kind and value, so its  *)
(* kind is fixed; only "is a session_id" matters.  updated_at is a wall    *)
(* clock stamp of millisecond resolution, so "the newest root" may be any  *)
(* of the candidates.  The smart selector's score is abstracted to "some   *)
(* eligible account".  A dry run rolls back and is a stuttering step.      *)
(***************************************************************************)
EXTENDS Integers, FiniteSets

CONSTANTS
    Keys,           \* hashed session keys; a root is named by one of its keys
    SessionIds,     \* the keys of kind session_id
    Accounts,       \* account ids
    NoKey,          \* SQL NULL for a key column
    NoAccount,      \* SQL NULL for an account column
    Requests,       \* concurrently running requests and WebSocket bridges
    Snapshots,      \* sets of accounts the registry may report as live for a tree
    MaxKeys,        \* the most keys one call accepts (500 in the code)
    MaxGeneration   \* the largest route_generation (i64::MAX in the code)

ASSUME KeysAssumption == SessionIds \subseteq Keys /\ NoKey \notin Keys
ASSUME AccountsAssumption == NoAccount \notin Accounts /\ Snapshots \subseteq SUBSET Accounts
ASSUME LimitAssumption == MaxKeys \in Nat \ {0}
ASSUME GenerationAssumption == MaxGeneration \in Nat \ {0}

VARIABLES
    roots,      \* table session_roots
    keyRoot,    \* table session_route_keys: key_hash -> root_key_hash
    affinity,   \* table affinity: key_hash -> account_id, route_generation
    accounts,   \* the rows of table accounts
    eligible,   \* accounts that are active, not cooling down, not exhausted
    req,        \* what each request holds in memory
    retry       \* what the scheduler holds in memory, by root

tables == <<roots, keyRoot, affinity>>
vars == <<roots, keyRoot, affinity, accounts, eligible, req, retry>>

-----------------------------------------------------------------------------
Generations == 0..MaxGeneration
MaybeAccount == Accounts \cup {NoAccount}
Actions == {"none", "rebalance", "reroute"}
Statuses == {"none", "applied", "fallback", "pending", "no_op"}

RootRow == [exists : BOOLEAN, gen : Generations, action : Actions,
            requested : MaybeAccount, effective : MaybeAccount, status : Statuses]
NoRoot == [exists |-> FALSE, gen |-> 0, action |-> "none",
           requested |-> NoAccount, effective |-> NoAccount, status |-> "none"]
NewRoot == [exists |-> TRUE, gen |-> 0, action |-> "none",
            requested |-> NoAccount, effective |-> NoAccount, status |-> "none"]

\* An absent affinity row has account NoAccount.
AffinityRow == [account : MaybeAccount, gen : Generations]
NoAffinity == [account |-> NoAccount, gen |-> 0]

NoEpoch == [root |-> NoKey, gen |-> 0]
Epoch == [root : Keys, gen : Generations] \cup {NoEpoch}

\* moved is a history component: the keys whose route a command has rewritten
\* since the request captured its epoch.
Request == [phase : {"idle", "resolved", "selected"}, keys : SUBSET Keys,
            epoch : Epoch, account : MaybeAccount, moved : SUBSET Keys]
IdleRequest == [phase |-> "idle", keys |-> {}, epoch |-> NoEpoch,
                account |-> NoAccount, moved |-> {}]

Retry == [state : {"none", "listed", "ready"}, action : Actions,
          target : MaybeAccount, keys : SUBSET Keys]
NoRetry == [state |-> "none", action |-> "none", target |-> NoAccount, keys |-> {}]

TypeOK ==
    /\ roots \in [Keys -> RootRow]
    /\ keyRoot \in [Keys -> Keys \cup {NoKey}]
    /\ affinity \in [Keys -> AffinityRow]
    /\ accounts \in SUBSET Accounts
    /\ eligible \in SUBSET accounts
    /\ req \in [Requests -> Request]
    /\ retry \in [Keys -> Retry]

\* A database upgraded by the session_route_actions migration: affinity rows of
\* generation 0 may exist, and no root does.
Init ==
    /\ roots = [r \in Keys |-> NoRoot]
    /\ keyRoot = [k \in Keys |-> NoKey]
    /\ affinity \in [Keys -> [account : MaybeAccount, gen : {0}]]
    /\ accounts = Accounts
    /\ eligible \in SUBSET Accounts
    /\ req = [q \in Requests |-> IdleRequest]
    /\ retry = [r \in Keys |-> NoRetry]

-----------------------------------------------------------------------------
(***************************************************************************)
(* Requests: resolve_session_route_epoch, then account selection, then     *)
(* bind_affinities_at_epoch.                                               *)
(***************************************************************************)
\* validate_session_route_keys
ValidKeys(keys) == IsFiniteSet(keys) /\ Cardinality(keys) <= MaxKeys

RootsOf(keys) == {keyRoot[k] : k \in keys} \ {NoKey}

\* resolve_session_route_epoch: the newest root any of the keys is mapped to.
Epochs(keys) ==
    IF RootsOf(keys) = {}
    THEN {NoEpoch}
    ELSE {[root |-> r, gen |-> roots[r].gen] : r \in RootsOf(keys)}

Resolve(q, keys) ==
    /\ req[q].phase = "idle"
    /\ ValidKeys(keys)
    /\ \E epoch \in Epochs(keys) :
         req' = [req EXCEPT ![q] = [IdleRequest EXCEPT !.phase = "resolved",
                                                       !.keys = keys,
                                                       !.epoch = epoch]]
    /\ UNCHANGED <<roots, keyRoot, affinity, accounts, eligible, retry>>

\* The sticky account if its affinity row is fresh and it can take the request,
\* otherwise the smart pick; after a failed attempt, another one.  Whichever it
\* is, it was eligible at this moment, and need not be when it is bound.
Select(q) ==
    /\ req[q].phase = "resolved"
    /\ \E a \in eligible :
         req' = [req EXCEPT ![q] = [@ EXCEPT !.phase = "selected", !.account = a]]
    /\ UNCHANGED <<roots, keyRoot, affinity, accounts, eligible, retry>>

Finish(q) ==
    /\ req[q].phase # "idle"
    /\ req' = [req EXCEPT ![q] = IdleRequest]
    /\ UNCHANGED <<roots, keyRoot, affinity, accounts, eligible, retry>>

-----------------------------------------------------------------------------
\* Mutant: the captured generation is not compared.
EpochRootExists(epoch) == roots[epoch.root].exists

EpochIsCurrent(epoch) ==
    roots[epoch.root].exists /\ roots[epoch.root].gen = epoch.gen

\* Mutant: keys of other trees are taken over.
EpochBindSteals(keys, epoch) == EpochIsCurrent(epoch)

\* A bind at an epoch goes through only if the root still has the captured
\* generation and no key belongs to another tree.
EpochBindAllowed(keys, epoch) ==
    /\ EpochIsCurrent(epoch)
    /\ RootsOf(keys) \subseteq {epoch.root}

\* The account a reroute settled on could not be used: the tree follows the
\* account that was.
FollowsFallback(epoch, account) ==
    /\ roots[epoch.root].action = "reroute"
    /\ roots[epoch.root].effective # account

\* Mutant: a fallback is not propagated to the rest of the tree.
BoundRowAlone(keys, epoch, account, k) ==
    IF k \in keys /\ affinity[k].gen <= epoch.gen
    THEN [account |-> account, gen |-> epoch.gen]
    ELSE affinity[k]

BoundRow(keys, epoch, account, k) ==
    IF \/ k \in keys /\ affinity[k].gen <= epoch.gen
       \/ /\ FollowsFallback(epoch, account)
          /\ \/ k \in keys
             \/ keyRoot[k] = epoch.root /\ affinity[k].account # NoAccount
    THEN [account |-> account, gen |-> epoch.gen]
    ELSE affinity[k]

BindAtEpoch(keys, epoch, account) ==
    /\ keyRoot' = [k \in Keys |-> IF k \in keys THEN epoch.root ELSE keyRoot[k]]
    /\ affinity' = [k \in Keys |-> BoundRow(keys, epoch, account, k)]
    /\ roots' = IF FollowsFallback(epoch, account)
                THEN [roots EXCEPT
                        ![epoch.root].effective = account,
                        ![epoch.root].status =
                            IF roots[epoch.root].requested = account
                            THEN "applied" ELSE "fallback"]
                ELSE roots

\* Without an epoch, keys may join only a root no command has ever touched.
LegacyBindAllowed(keys) ==
    \A r, s \in RootsOf(keys) : r = s /\ roots[r].gen = 0 /\ roots[r].action = "none"

\* A session_id if there is one, else the request's first key; the response id
\* comes last.
PreferredRoots(keys, responseIds) ==
    LET all == keys \cup responseIds IN
    IF all \cap SessionIds # {} THEN all \cap SessionIds
    ELSE IF keys # {} THEN keys ELSE responseIds

LegacyBind(keys, root, account) ==
    /\ keyRoot' = [k \in Keys |->
                     IF k \in keys /\ keyRoot[k] = NoKey THEN root ELSE keyRoot[k]]
    /\ affinity' = [k \in Keys |->
                      IF k \in keys THEN [affinity[k] EXCEPT !.account = account]
                                    ELSE affinity[k]]
    /\ roots' = IF roots[root].exists THEN roots ELSE [roots EXCEPT ![root] = NewRoot]

\* bind_affinities_at_epoch, with the request's own keys or, when the response
\* id is known, with that key too.  Too many keys are an error, binding to a
\* deleted account violates a foreign key, and a refused bind rolls back.
Bind(q, responseIds) ==
    LET keys == req[q].keys \cup responseIds
        epoch == req[q].epoch
        account == req[q].account
    IN
    /\ req[q].phase = "selected"
    /\ keys # {}
    /\ ValidKeys(keys)
    /\ account \in accounts
    /\ \/ /\ epoch # NoEpoch
          /\ EpochBindAllowed(keys, epoch)
          /\ BindAtEpoch(keys, epoch, account)
       \/ /\ epoch = NoEpoch
          /\ LegacyBindAllowed(keys)
          /\ \E root \in IF RootsOf(keys) = {}
                         THEN PreferredRoots(req[q].keys, responseIds)
                         ELSE RootsOf(keys) :
               LegacyBind(keys, root, account)
    /\ UNCHANGED <<accounts, eligible, req, retry>>

-----------------------------------------------------------------------------
(***************************************************************************)
(* apply_session_route_action, one transaction.                            *)
(***************************************************************************)
MergedRoots(root, keys) == RootsOf(keys) \cup {root}
KeysOf(rs) == {k \in Keys : keyRoot[k] \in rs}

\* Mutant: only the keys of the command are moved, not the rest of their trees.
CommandKeys(root, keys) == keys

TreeKeys(root, keys) == KeysOf(MergedRoots(root, keys)) \cup keys
Routed(keys) == {k \in keys : affinity[k].account # NoAccount}

\* Mutant: the generations of the merged roots are ignored.
OwnGeneration(root, keys) == {roots[root].gen}

TreeGenerations(root, keys) ==
    {roots[r].gen : r \in MergedRoots(root, keys)}
      \cup {affinity[k].gen : k \in TreeKeys(root, keys)}

\* The keys must not be too many and the root must be one of them (a scheduler's
\* command may have lost it), the target must exist, and some root, mapping,
\* affinity row or live connection must know the session.
Accepted(root, keys, target, live) ==
    /\ ValidKeys(keys)
    /\ root \in keys
    /\ target # NoAccount => target \in accounts
    /\ \/ roots[root].exists
       \/ RootsOf(keys) # {}
       \/ Routed(TreeKeys(root, keys)) # {}
       \/ live # {}

\* The target if it is eligible, else the smart pick; NoAccount if none is.
EffectiveAccounts(target) ==
    IF target \in eligible THEN {target}
    ELSE IF eligible = {} THEN {NoAccount}
    ELSE eligible

MappingChanged(root, keys) ==
    \/ ~roots[root].exists
    \/ \E k \in TreeKeys(root, keys) : keyRoot[k] # root

RequiresMove(root, keys, effective, live, current) ==
    LET tree == TreeKeys(root, keys) IN
    /\ effective # NoAccount
    /\ \/ \E k \in tree : affinity[k].account # effective
       \/ live \ {effective} # {}
       \/ MappingChanged(root, keys)
       \/ \E k \in Routed(tree) : affinity[k].gen # current

ActionStatus(target, effective, move) ==
    IF effective = NoAccount THEN "pending"
    ELSE IF target # NoAccount /\ target # effective THEN "fallback"
    ELSE IF move THEN "applied" ELSE "no_op"

CommitAction(root, keys, action, target, effective, move, generation) ==
    LET tree == TreeKeys(root, keys)
        merged == MergedRoots(root, keys)
    IN
    /\ keyRoot' = [k \in Keys |-> IF k \in tree THEN root ELSE keyRoot[k]]
    /\ affinity' = [k \in Keys |->
                      IF move /\ k \in tree
                      THEN [account |-> effective, gen |-> generation]
                      ELSE affinity[k]]
    /\ roots' = [r \in Keys |->
                   IF r = root
                   THEN [exists |-> TRUE, gen |-> generation, action |-> action,
                         requested |-> target, effective |-> effective,
                         status |-> ActionStatus(target, effective, move)]
                   ELSE IF r \in merged THEN NoRoot ELSE roots[r]]
    /\ req' = [q \in Requests |->
                 IF move /\ req[q].phase # "idle"
                 THEN [req[q] EXCEPT !.moved = @ \cup tree] ELSE req[q]]

\* Mutant: the generation is incremented without a check for overflow.
ApplyUnchecked(root, keys, action, target, live) ==
    IF ~Accepted(root, keys, target, live)
    THEN UNCHANGED <<roots, keyRoot, affinity, req>>
    ELSE \E effective \in EffectiveAccounts(target) :
         \E current \in TreeGenerations(root, keys) :
           /\ \A g \in TreeGenerations(root, keys) : g <= current
           /\ IF ~RequiresMove(root, keys, effective, live, current)
              THEN CommitAction(root, keys, action, target, effective, FALSE, current)
              ELSE CommitAction(root, keys, action, target, effective, TRUE, current + 1)

\* A rejected command, and a generation that checked_add cannot increment, are
\* errors: the transaction is rolled back.
ApplySessionRouteAction(root, keys, action, target, live) ==
    IF ~Accepted(root, keys, target, live)
    THEN UNCHANGED <<roots, keyRoot, affinity, req>>
    ELSE \E effective \in EffectiveAccounts(target) :
         \E current \in TreeGenerations(root, keys) :
           /\ \A g \in TreeGenerations(root, keys) : g <= current
           /\ IF ~RequiresMove(root, keys, effective, live, current)
              THEN CommitAction(root, keys, action, target, effective, FALSE, current)
              ELSE IF current < MaxGeneration
              THEN CommitAction(root, keys, action, target, effective, TRUE, current + 1)
              ELSE UNCHANGED <<roots, keyRoot, affinity, req>>

\* The admin endpoint.  live is the registry's snapshot, taken before.
Command(root, keys, action, target, live) ==
    /\ ApplySessionRouteAction(root, keys, action, target, live)
    /\ UNCHANGED <<accounts, eligible, retry>>

-----------------------------------------------------------------------------
(***************************************************************************)
(* The scheduler: list_pending_session_route_actions reads the pending     *)
(* roots in one statement, the keys of each in another, and the tick then  *)
(* applies the reconstructed commands one by one.                          *)
(***************************************************************************)
Pending(r) == roots[r].exists /\ roots[r].status = "pending"

\* Mutant: only reroutes are listed.
RetryListReroutes ==
    /\ \A r \in Keys : retry[r].state = "none"
    /\ \E r \in Keys : Pending(r) /\ roots[r].requested # NoAccount
    /\ retry' = [r \in Keys |->
                   IF Pending(r) /\ roots[r].requested # NoAccount
                   THEN [state |-> "listed", action |-> "reroute",
                         target |-> roots[r].requested, keys |-> {}]
                   ELSE NoRetry]
    /\ UNCHANGED <<roots, keyRoot, affinity, accounts, eligible, req>>

RetryList ==
    /\ \A r \in Keys : retry[r].state = "none"
    /\ \E r \in Keys : Pending(r)
    /\ retry' = [r \in Keys |->
                   IF Pending(r)
                   THEN [state |-> "listed",
                         action |-> IF roots[r].requested = NoAccount
                                    THEN "rebalance" ELSE roots[r].action,
                         target |-> roots[r].requested,
                         keys |-> {}]
                   ELSE NoRetry]
    /\ UNCHANGED <<roots, keyRoot, affinity, accounts, eligible, req>>

RetryReadKeys(r) ==
    /\ retry[r].state = "listed"
    /\ retry' = [retry EXCEPT ![r] = [@ EXCEPT !.state = "ready", !.keys = KeysOf({r})]]
    /\ UNCHANGED <<roots, keyRoot, affinity, accounts, eligible, req>>

\* An error is logged and the next command is tried.
RetryApply(r, live) ==
    /\ retry[r].state = "ready"
    /\ \A s \in Keys : retry[s].state # "listed"
    /\ ApplySessionRouteAction(r, retry[r].keys, retry[r].action,
                               retry[r].target, live)
    /\ retry' = [retry EXCEPT ![r] = NoRetry]
    /\ UNCHANGED <<accounts, eligible>>

-----------------------------------------------------------------------------
(***************************************************************************)
(* The rest of the system as this component sees it.                       *)
(***************************************************************************)
\* ON DELETE SET NULL
SetNull(column, a) == IF column = a THEN NoAccount ELSE column

\* delete_account: affinity rows cascade, the roots' account columns are nulled.
DeleteAccount(a) ==
    /\ a \in accounts
    /\ accounts' = accounts \ {a}
    /\ eligible' = eligible \ {a}
    /\ affinity' = [k \in Keys |->
                      IF affinity[k].account = a THEN NoAffinity ELSE affinity[k]]
    /\ roots' = [r \in Keys |->
                   [roots[r] EXCEPT !.requested = SetNull(roots[r].requested, a),
                                    !.effective = SetNull(roots[r].effective, a)]]
    /\ UNCHANGED <<keyRoot, req, retry>>

\* prune_history deletes the affinity rows last used before the retention limit.
PruneHistory(old) ==
    /\ old \subseteq Routed(Keys)
    /\ affinity' = [k \in Keys |-> IF k \in old THEN NoAffinity ELSE affinity[k]]
    /\ UNCHANGED <<roots, keyRoot, accounts, eligible, req, retry>>

\* Cooldowns start and expire, quotas fill and reset, the operator pauses.
EligibilityChanges ==
    /\ \E a \in accounts :
         eligible' = IF a \in eligible THEN eligible \ {a} ELSE eligible \cup {a}
    /\ UNCHANGED <<roots, keyRoot, affinity, accounts, req, retry>>

\* The daemon stops and starts: memory is lost, the database is kept.
Restart ==
    /\ req' = [q \in Requests |-> IdleRequest]
    /\ retry' = [r \in Keys |-> NoRetry]
    /\ UNCHANGED <<roots, keyRoot, affinity, accounts, eligible>>

RequestStep ==
    \E q \in Requests :
      \/ \E keys \in SUBSET Keys : Resolve(q, keys)
      \/ Select(q)
      \/ Bind(q, {})
      \/ \E k \in Keys \ (SessionIds \cup req[q].keys) : Bind(q, {k})
      \/ Finish(q)

CommandStep ==
    \E root \in Keys, live \in Snapshots : \E aliases \in SUBSET (Keys \ {root}) :
      \/ Command(root, aliases \cup {root}, "rebalance", NoAccount, live)
      \/ \E target \in Accounts : Command(root, aliases \cup {root}, "reroute", target, live)

RetryStep ==
    \/ RetryList
    \/ \E r \in Keys : RetryReadKeys(r)
    \/ \E r \in Keys, live \in Snapshots : RetryApply(r, live)

EnvironmentStep ==
    \/ \E a \in Accounts : DeleteAccount(a)
    \/ \E old \in (SUBSET Keys) \ {{}} : PruneHistory(old)
    \/ EligibilityChanges

Next == RequestStep \/ CommandStep \/ RetryStep \/ EnvironmentStep \/ Restart

Spec == Init /\ [][Next]_vars

\* The scheduler's ticker runs for as long as the daemon does, and a finite number
\* of restarts interrupt it.  (The end of a request or a refused retry may leave
\* memory as empty as a restart does; those go on.)
Fairness ==
    /\ WF_vars(RetryList)
    /\ \A r \in Keys :
         WF_vars(RetryReadKeys(r)) /\ WF_vars(\E live \in Snapshots : RetryApply(r, live))
    /\ <>[][Restart => RequestStep \/ RetryStep]_vars

FairSpec == Spec /\ Fairness

-----------------------------------------------------------------------------
(***************************************************************************)
(* Properties.                                                             *)
(***************************************************************************)
\* Every mapped key belongs to a root that exists, and a root is one of its own
\* keys: merging trees (apply_session_route_action) and joining one
\* (bind_affinities_at_epoch) leave neither an orphaned key nor an empty root.
TreesWellFormed ==
    /\ \A k \in Keys : keyRoot[k] # NoKey => roots[keyRoot[k]].exists
    /\ \A r \in Keys : roots[r].exists <=> keyRoot[r] = r

\* No affinity row is of a later generation than the tree its key belongs to;
\* otherwise the guard of the upsert in bind_affinities_at_epoch would silently
\* keep the old account of a key whose epoch is current.
AffinityNotAhead ==
    \A k \in Keys :
        affinity[k].gen <= IF keyRoot[k] = NoKey THEN 0 ELSE roots[keyRoot[k]].gen

\* After a reroute every route of the tree leads to the one account the root
\* records as effective, whichever of the tree's keys later requests bind and
\* whatever fallback they had to use.
RerouteTreeUniform ==
    \A k \in Keys :
        LET root == roots[keyRoot[k]] IN
        (keyRoot[k] # NoKey /\ root.action = "reroute" /\ root.effective # NoAccount)
          => affinity[k].account \in {root.effective, NoAccount}

\* A key, once mapped, stays mapped, and the generation of its tree never goes
\* back, through any sequence of merges: an epoch that has become obsolete can
\* never become current again.
GenerationMonotone ==
    [][\A k \in Keys :
         keyRoot[k] # NoKey =>
           /\ keyRoot'[k] # NoKey
           /\ roots'[keyRoot'[k]].gen >= roots[keyRoot[k]].gen]_vars

\* While a request runs, a command that moves its epoch's tree makes its binds
\* fail from then on, whatever merges, re-created roots and pending commands
\* follow: traffic that was in flight during a reroute cannot undo it.  The same
\* holds of a request that found no epoch and the keys it would claim.
ObsoleteBindRefused ==
    \A q \in Requests : req[q].phase # "idle" =>
        IF req[q].epoch # NoEpoch
        THEN EpochIsCurrent(req[q].epoch) => req[q].epoch.root \notin req[q].moved
        ELSE LegacyBindAllowed(req[q].keys) => req[q].keys \cap req[q].moved = {}

\* Seen through the keys' roots and the roots' generations alone, every transaction
\* of db.rs is a join, a merge or a move of RouteEpochs, or changes nothing.
RE == INSTANCE RouteEpochs WITH
        gen <- [r \in Keys |-> roots[r].gen],
        commanded <- {r \in Keys : roots[r].action # "none"}
ImplementsRouteEpochs == RE!EpochSpec

\* README: "Pending actions survive daemon restarts and are retried when an account
\* becomes eligible".  A pending command is settled by the scheduler once some
\* account stays eligible, unless the tree's generation is exhausted.
PendingIsSettled ==
    <>[](eligible # {}) =>
      \A r \in Keys :
        Pending(r) ~> (~Pending(r) \/ roots[r].gen = MaxGeneration)
=============================================================================
