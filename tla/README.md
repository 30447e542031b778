# codex-lb-rs: models, checks and proofs

codex-lb-rs is a local daemon that spreads Codex traffic over a pool of upstream
accounts.  It keeps its state in one SQLite database, serves HTTP and WebSocket
clients concurrently, and lets an operator move running sessions between accounts.
This directory holds TLA+ models of its core, the TLC configurations that check them
on small instances, and TLAPS proofs about them.  `PROJECT.json` lists the runs, the
theorems, and for every definition the source lines it stands for.

1. [The system](#1-the-system)
2. [The modules](#2-the-modules)
3. [The runs](#3-the-runs)
4. [Fairness](#4-fairness)
5. [The proofs](#5-the-proofs)
6. [Divergences](#6-divergences)
7. [What is not modelled](#7-what-is-not-modelled)
8. [Plan](#8-plan)

## 1. The system

Paths are relative to `src/`.

| Component | State | Operations | Correct when |
|---|---|---|---|
| Session routes (`src/db.rs`) | tables `session_roots`, `session_route_keys`, `affinity` | resolve an epoch, bind keys at an epoch or without one, apply a rebalance or reroute, list pending commands, delete an account, prune | keys form well-formed trees; a rerouted tree keeps to one account; traffic that was in flight during a reroute cannot undo it; a pending command is settled |
| Session registry (`src/session_registry.rs`) | `RegistryInner`: four maps in memory, under one mutex | `register`, `signal_reroute`, `unregister`, `snapshot` | every open bridge is found under each of its keys; no signal is lost |
| WebSocket bridge (`src/websocket.rs`) | epoch, account, registration, running turn | resolve, select and connect, open, start and finish a turn, see a reroute, close | a bridge that a command made obsolete is told; its client gets through afterwards |
| Admin API (`src/admin/mod.rs`) | none | the session command: snapshot, transaction, signal; account changes | see session routes |
| Scheduler (`src/scheduler.rs`) | one tick's list of commands | retry pending commands, refresh usage, backfill costs | see session routes |
| Account pool (`src/db.rs`) | tables `accounts`, `account_runtime_state`, `usage_windows` | sticky and smart acquisition, release, cooldown, status changes, deletion, `reset_inflight` | `inflight_count` equals the work under way; only eligible accounts are acquired |
| HTTP proxy (`src/proxy.rs`) | a failover loop's `excluded`, `last_response`; the lease | `proxy_request`, `proxy_models`, `AccountLease` | failover ends, and gives up only after trying the accounts that were usable |
| Response stream (`src/proxy.rs`) | `SseTerminalDetector`, `TailCapture`, the lease in its slot | observe a chunk, bind, log, release, pass on, end, fail | the terminal event is found however the stream is cut; one log of the request is tried and its account freed once, before the client can leave with the event, also when the log cannot be written |
| Token refresh (`src/upstream.rs`) | a lock per account, the encrypted token pair | refresh, retry after 401 | a rotated refresh token is not used again; the stored pair can still be refreshed, unless an operator imports a used one; nobody waits for ever while the endpoints answer |
| Quota-pressure score (`src/db.rs`) | none: a query over `usage_windows` and `account_runtime_state` | classify windows, score, order, acquire | missing or stale data never wins over fresh data with room; load stays bounded |
| Pricing, request logs (`src/pricing.rs`, `src/db.rs`) | `request_logs`, the totals in `account_runtime_state` | price, log, backfill in batches, prune | each request is counted and charged once; a range contains the cost; the backfill ends |
| Usage windows (`src/usage.rs`) | `usage_windows` | parse, replace, pace metrics | see quota-pressure score |
| CLI (`src/cli.rs`) | `SessionCatalog`, for one command | session trees from rollout files; a client of the admin API | a command names a whole tree or none, whichever member it is given and whatever unrelated files say, as long as they can be read |
| Settings, import, crypto, status, config | rows, files | | |

**How they interact.**  Proxy and bridges call the database for the epoch, the account
and the bind; each SQL transaction is atomic, and everything a handler read earlier
may be stale by the time of the next one.  The admin handler and the scheduler commit a
command to the database and only then signal the registry; the bridges wait on a watch
channel the registry feeds.  A lease is released by a spawned task when it is dropped,
a WebSocket reservation by an awaited call.  The database survives a restart, the
registry, leases and epochs do not.

**What is hard.**

- A request captures its epoch, then waits for an upstream for minutes and binds:
  commands, merges of trees, deletions of accounts and prunings come in between.
- A command merges trees: keys change their root, roots vanish and are created anew,
  and an epoch must never become current again.
- Commit and signal are two steps, registration of a bridge a third: three processes.
- The retry of a pending command is three steps of the scheduler.
- Any handler's future is dropped at any await when its client goes away; the
  in-flight count must still balance.
- Accounts are paused, deleted, cooled down and freed during failover.
- A refused bind closes a bridge and the client reconnects: a loop that must end.
- A refresh token is good for one use, and many requests find their access token expired
  at the same moment.
- The backfill selects rows outside the transaction that prices them; the daemon and
  `migrate up` may both run it, while requests are logged and logs are pruned.
- A terminal event may be cut anywhere by the transport, and the client may go away at
  the very moment it has it.
- A request reads the clock, then awaits its transaction: windows and cooldowns have
  moved on by then.

`PROJECT.json` lists each hazard at its line, with the properties that watch it.

## 2. The modules

```
RouteEpochs            what the routing tables promise (abstract)
   ^  implemented by          ^ instantiated by
SessionRoutes          SessionReroute --EXTENDS--> SessionRegistry
   ^                          ^
MCSessionRoutes        MCSessionReroute
SessionRoutes_proofs   SessionReroute_proofs   (SessionRegistry's proofs too)

AccountPool     <-- MCAccountPool, AccountPool_proofs
TokenRefresh    <-- MCTokenRefresh, TokenRefresh_proofs
Pricing <-- RequestLedger <-- MCRequestLedger, RequestLedger_proofs
ResponseStream  <-- MCResponseStream, ResponseStream_proofs
SmartRouting    <-- MCSmartRouting, SmartRouting_proofs
SessionCatalog  <-- MCSessionCatalog, SessionCatalog_proofs
```

Where two modules have the same step, one of them leaves open what the other decides:
`AccountPool` takes "some eligible account" and `SmartRouting` says which; a refresh is
one `SetStatus` in `AccountPool` and a protocol in `TokenRefresh`; `StreamEnds` of
`AccountPool` is `ResponseStream`; the keys of a command are any set in `SessionRoutes`
and computed in `SessionCatalog`.

### SessionRoutes

The three routing tables and everything that writes them.

| Model | Code |
|---|---|
| `roots`, `keyRoot`, `affinity` | `session_roots`, `session_route_keys`, `affinity` |
| `accounts`, `eligible` | rows of `accounts`; those selection would take |
| `req` | what a request or bridge holds: keys, epoch, account |
| `retry` | the scheduler's list during a tick |
| `Resolve`, `Select`, `Bind`, `Finish` | `resolve_session_route_epoch`, account selection, `bind_affinities_at_epoch` |
| `Command` → `ApplySessionRouteAction` | `apply_session_route_action`, one transaction |
| `RetryList`, `RetryReadKeys`, `RetryApply` | `list_pending_session_route_actions` (two statements) and `apply_pending_session_route_actions` |
| `DeleteAccount`, `PruneHistory` | `delete_account` with its foreign-key actions, `prune_history` |
| `EligibilityChanges`, `Restart` | cooldowns, quotas, pauses; the daemon's restart |

One transaction is one step: every writing transaction of `db.rs` begins with a write,
which takes SQLite's only write lock.  A rejected command and an overflow of the
generation leave the tables as they were, because the transaction is rolled back.
Abstractions: a key is its hash, of which only "is a session id" matters; `updated_at`
has a millisecond's resolution, so the newest root may be any candidate; the selector's
score is "some eligible account"; the registry's snapshot is any of `Snapshots`.
`req[q].moved` is a history component, read by the properties only.

### RouteEpochs

The abstract specification: keys join trees, trees are merged at the largest of their
generations or moved at a larger one, and nothing else happens to them.  `SessionRoutes`
implements it (`ImplementsRouteEpochs`, the mapping takes `gen` from the roots'
generations and `commanded` from their last action); `SessionReroute` is built on it
instead of on the tables.

### SessionRegistry

`register`, `signal_reroute` and `unregister`, one step each, since each holds the
mutex.  `RegistryNext` lets the environment register any keys and send any signal.  A
missing generation and an unsignalled channel are 0.  The order of hashes, which decides
between several known roots, is a free choice.

### SessionReroute

Bridges, commands and the registry together.  A bridge goes through `Resolve`,
`Connect`, `Open`, `StartTurn`, `FinishTurn`; `SeeReroute` closes it when it is
signalled above its generation and `StartTurn` closes it when the bind is refused.  A
command is `CommitMove`, `CommitPending` or `CommitUnmoved`, then `SendSignal`.
`unsent` holds the commands between the two.  `Restart` empties the registry and keeps
the tables.  Accounts are left out.  Response ids become keys of the tree in
`FinishTurn`.

### AccountPool

The in-flight ledger and the loops that draw on it.

| Model | Code |
|---|---|
| `status`, `barred`, `inflight`, `pin` | `accounts.status`; a live cooldown or an exhausted window; `inflight_count`; the affinity row of the one session |
| `requests` | the loop variables of `proxy_request`, `proxy_models`, `select_and_connect`, and the state of a bridge |
| `releases` | tasks spawned by `spawn_release` and not yet run |
| `LookUpPin`, `AcquireSticky`, `AcquireSmart`, `NoneEligible`, `ReadAccount(Fails)` | `select_account_for_request` |
| `AttemptFails`, `Refused`, `Stream`, `StreamEnds` | the outcomes of an attempt over HTTP |
| `Handshake`, `ReleaseReservation`, `ReservationSettled` | `select_and_connect`, `AccountReservation` |
| `StartTurn`, `EndTurn`, `BreakTurn`, `CloseBridge` | the turns of `bridge` |
| `Leave` | the client disconnects and the future is dropped |
| `SetStatus`, `DeleteAccount`, `Bar`, `Unbar`, `Restart` | operator, import, usage refresh, time, restart |

`LeavePoints` says at which awaits a client may leave: "acquired" and "settled" are the
two at which the ledger does not survive it (section 6).  `StepsLeft`, read by
`RequestsDescend` only, is what a request still has before it.  `MaxReleases` keeps new
requests from arriving while an account has that many releases to run; without it the
number of spawned tasks is unbounded.  A token refresh and the retry after it belong to
one attempt.  `steady` is a history variable, kept by `Watch` beside every step: the
accounts that have been eligible ever since a request arrived.  What the client of a failed
request gets to read is not modelled: the code drops an answer of an upstream on some paths
(`src/proxy.rs:147`, where a retry fails after a refresh; `src/websocket.rs:151`, where an
HTTP error of a handshake becomes the proxy's own), so no property is about it.

### TokenRefresh

The credentials of one account (accounts have a lock each and share nothing else here).

| Model | Code |
|---|---|
| `stored`, `last`, `written`, `origin`, `status` | the encrypted pairs and the status in the account's row |
| `table` | the account's `Weak` entry in `REFRESH_LOCKS`; `Referred` says whether it is alive |
| `workers` | the futures of requests and usage fetches, by the await they are at |
| `issued`, `live` | the upstream: pairs issued, refresh tokens not used yet (external) |
| `Begin`, `Send`, `MarkAuthFailed` | the callers: the refresh ahead of time, the one retry after 401 or 403, giving the account up |
| `Observe`, `FetchLock`, `AcquireLock`, `Recheck`, `Answered`, `Unanswered`, `Store`, `StoreFails` | `refresh_account_tokens`, an await each |
| `Leave`, `Restart`, `LateRotation` | a dropped future, a restart, a request at the upstream whose sender is gone |
| `Import`, `SetStatus`, `DeleteAccount` | the operator |

A pair is its number of issue.  The row holds ciphertexts, and what `Recheck` compares are
ciphertexts: they are made with random nonces, so two of them differ also when they are of
the same pair.  A ciphertext is therefore the number of the write that made it: `stored` is
such a number, `last` the latest, `written` has the pair of each and `origin` where it came
from.  `Import` stores the pair of a new login, or that of any auth file imported before,
whether it is still good or has been used since ("used file").  The refresh that the import
handler itself makes of tokens about to expire (`src/admin/mod.rs:88`) is that of a worker:
it observes, and gives the account up when it fails, as a request does after a 401.

`abandoned` is a history variable: refresh tokens whose answer nobody can get any more.  A
rotation between the upstream and the UPDATE cannot be made atomic, so the properties except
those.  A second program that refreshes with the same pair is outside the model
(`README.md:124` tells the operator not to have one).

### Pricing and RequestLedger

`Pricing` is `estimate_standard_api_cost` as an operator: the checks on the counters, the
cache minimum, the long-context threshold, the range of a request that did not report its
cache writes, and the limit of the column.  The rate card is a parameter; all the
assumption says of it is that writing to the cache costs no less than plain input.

`RequestLedger` has the logs, the totals per account and two backfills.

| Model | Code |
|---|---|
| `logs`, `lastId`, `totals` | `request_logs` with its AUTOINCREMENT sequence, the totals of `account_runtime_state` |
| `batches` | the rows a backfill has selected and not yet priced |
| `InsertRequestLog` | `insert_request_log` |
| `SelectBatch`, `CommitBatch`, `FailBatch` | `backfill_api_costs_batch`, before and in its transaction, and the loops around it in the scheduler and in `migrate up` |
| `Prune`, `DeleteAccount`, `Restart` | `prune_history`, `delete_account`, the end of either process |

The initial states are tables of an older version after the migration: logs without a
cost, and totals that count more requests than there are logs, since pruning came before.
`pruned` is a history variable.

### ResponseStream

`logged_response_stream`.  `Observe` is `SseTerminalDetector::observe`, `Push` and
`Captured` are `TailCapture`; both are operators on records.  Bytes are letters, the
markers of the terminal events a few short words of them.  `Receive` takes a chunk of
any length and feeds both; `Bind`, `Log`, `Yield`, `UpstreamEnds`, `Finish`, `Fail` are
the steps between awaits and `Drop` is the client going away at any of them.
`LogRequest` inserts the row, or fails to: the code only warns then, for example when the
account was deleted in the middle of the response, and `lost` counts it.  What the log
contains apart from its outcome is left out.

### SmartRouting

The candidate query of `push_smart_routing_ctes` and `push_smart_account_candidate`:
`Kind` classifies a window, `Pressure`, `Quality` and `EffectiveUsed` score it, `Rank` has
the columns of the ORDER BY for either strategy, `Candidates` is the row the subquery
returns.  Time passes (`Tick`), reports arrive (`RefreshUsage`), a request reads the clock
(`ReadClock`) and later runs its transaction with what it read (`SelectSmart`).  Floating
point is replaced by integers; window lengths divide 100, so nothing is rounded.

### SessionCatalog

`SessionCatalog::discover` reads files in any order, one step each; a file is what
`first_session_meta` and `rollout_node_from_meta` make of it: a node, ill-formed metadata
("invalid", with the fields that can be read), none, or "unreadable", when the file cannot be
opened or is not text.  `ReadFails` is such a file and `DirectoryFails` a directory; either
ends `discover`, and the command with it (`Command`).  `Resolve`, `Members`, `Connected`, `MutationTree` are
`resolve_root`, `session_trees`, `connected_ids` and `mutation_tree_for`.  They take the
catalog as an argument, so that a property can compare what a command does with the whole
catalog and with a part of it.  `Resolve` is a recursive function of the visited ids (the
code's `visiting` is empty again after every call that succeeds, and a call that fails ends
the whole resolution), and the loop of `connected_ids` is `Grown`, repeated as often as
there are nodes: `ConnectedIsComponent` shows that this is enough.  A session has four keys, whence `4 *` in `MutationTree`.

The definitions whose comment starts with *Mutant* are variants of the definition that
follows them, each a plausible mistake in the code; `PROJECT.json` says which property
each one breaks.

## 3. The runs

Run one with `tlc -workers 2 -config X.cfg M`.

| Run | Instance | Shows |
|---|---|---|
| `routes` | 2 keys, 2 accounts, 1 request, 1 generation, symmetry | `TypeOK`, `TreesWellFormed`, `AffinityNotAhead`, `RerouteTreeUniform`, `ObsoleteBindRefused`, `ImplementsRouteEpochs` |
| `retry` | 2 keys, 1 account, 2 generations, the scheduler, restarts, fairness | `PendingIsSettled`, `GenerationMonotone` |
| `reroute` | 2 keys, 2 clients that share one, 2 connections, 2 generations | `RerouteTypeOK`, `IndexComplete`, `NamedBridgesSignalled`, `SignalsPersist` |
| `reroute_turns` | 1 client with one affinity key and a response id, 3 tokens, 2 generations, fairness | `TurnsGetThrough` |
| `pool` | 2 accounts, 2 clients of any kind, 2 attempts, symmetry | `PoolTypeOK`, `InflightExact`, `UsableAccountsTried`, `OnlyEligibleAcquired`, `RequestsDescend` |
| `tokens` | a request and a usage fetch, 2 mutexes, 2 further pairs, an import of any file, fairness | `RefreshTypeOK`, `UsedTokenNotPresented`, `StoredNotBurned`, `RetryUsesAnotherPair`, `WorkersFinish` |
| `ledger` | 2 accounts, up to 4 logs of which up to 3 old, 3 kinds of request, batches of 2, fairness | `LedgerTypeOK`, `CountsPartition`, `CostsAddUp`, `StoredRangesHold`, `BackfillEnds` |
| `stream` | streams with none, one or two terminal events, every way to cut them, a ring of 4 bytes, fairness | `DetectorSeesWholeStream`, `CaptureIsTail`, `SettledBeforeClientKnows`, `AccountedOnce`, `TerminalFrees` |
| `routing` | 2 accounts, 4 reports, 3 moments, up to 3 requests per account | `UnknownIsNotUnused`, `LoadStaysBounded`, `OldClockTakesNoBarredAccount` |
| `catalog` | every set of up to 3 files over 4 ids, symmetry | `CatalogTypeOK`, `WholeTreeOrNothing`, `SameCommandForEveryMember`, `OnlyReadErrorsSpread` |
| `long_session`, `pool_leak` | see section 6 | a violation each |

Why these bounds are enough to be interesting:

- Two keys are two trees that can be merged, re-rooted either way, or be one tree of
  which a request names only one key.  Two accounts are needed for a fallback, one
  generation for a request that was overtaken, two (in `retry`) for a generation that
  could go back, and for a signal that is stale.
- One request against arbitrary commands is enough for the properties about requests:
  requests interact through the tables only, and what a second one could write there a
  command, a merge or the one request's earlier and later lives write too.  The
  theorems do not rest on this argument: they hold for any set of requests and any number
  of generations.
- `routes` leaves the scheduler's steps out (`SpecWithoutRetries`): a retry changes the
  tables as a command of the same keys does.  `retry` has them.
- `MaxKeys` (500 in the code) is 2, so that a command of all the keys is just within the
  limit; in `long_session` a tree of 3 keys is past it.
- `MaxUnsent = 1`: at most one command is between its commit and its signal.  What
  happens with two is described in section 6.
- In `reroute`, tokens are reused once nothing mentions them, so any number of
  connections come and go; two are open at a time.
- `pool`: two accounts are one to fail and one to fail over to; deletion, pausing and
  barring come at any time.  Two clients of any kind cover every pairing of the three
  loops on one ledger.
- `tokens`: two workers meet at the lock, and `RetryUsesAnotherPair` and the life of a
  mutex need no third; two rotations are enough for a worker that observed a pair two
  rotations ago.  Two mutexes suffice, since a third is only made when both are held.  One
  import after the first is a new login or the first file again, at any moment of either
  refresh, used up or not.
- `ledger`: three old logs in batches of two are two batches, one of them short; both
  backfills overlap on a batch, and a fourth row is logged meanwhile.  The three requests
  are one that reports everything, one in long context that does not report its cache
  writes, and one whose counters contradict each other.  `MaxInt` is larger than any cost
  of a batch: one whose sum overflows (`src/db.rs:192`) is refused every time and is left
  out of `BackfillEnds`.
- `stream`: two markers of three letters that share two, so that a carry of two bytes is
  just enough (64 in the code, more than any marker needs), a ring of four bytes that a
  stream wraps more than once; both blank lines, LF LF and CR LF CR LF, are cut everywhere.
- `routing`: freshness and skew of one step, windows that are timed, untimed, exhausted or
  missing, so that every kind of window arises, ages and resets; the penalty is large
  against pressure so that three requests reach the bound of `LoadStaysBounded`.
- `catalog`: four ids allow a chain of three links and a stranger; three files allow two
  that contradict each other beside a third; some are ill-formed, misnamed or unreadable.  `MaxKeys = 12` refuses a tree of four.

Deadlock is checked, except in `stream` (a response ends) and `catalog` (a command ends
when its files are read).

## 4. Fairness

- `SessionRoutes!Fairness`: the scheduler's ticker runs while the daemon does, so each
  step of a tick is weakly fair; from some time on the daemon is not restarted any more,
  for one that is restarted in the middle of every tick retries nothing.
  `PendingIsSettled` further assumes that from some time on an account is eligible, and
  excepts the tree whose generation is at the limit.
- `SessionReroute!Fairness`: a bridge's task goes on to the next of its steps, the client
  reconnects and replays (the behaviour of the Codex client that `README.md` relies on),
  and a handler that has committed goes on to signal.  `Quiet`: commands, restarts and
  lost connections cease; without it a client may be moved or cut off for ever.
- `TokenRefresh!Fairness`: every future is polled on and statements of the database end, so
  the steps of a worker that wait for neither endpoint are weakly fair; tokio's mutex serves
  its waiters in order, which is strong fairness of `AcquireLock`.  A request that is passed
  on has the timeout of `Config::request_timeout` (`src/upstream.rs:208`), so `Send` is
  weakly fair for requests.  The call to the token endpoint (`src/upstream.rs:58`) and the
  one for the usage (`src/upstream.rs:435`) have no timeout, and the client sets none
  (`src/state.rs:25`): nothing is assumed of them.  That they are answered in the end is the
  hypothesis `UpstreamAnswers` of `WorkersFinish`; without it the property fails (section
  6).  Nothing is assumed of operator, clients or restarts.
- `RequestLedger!Fairness`: strong fairness of the daemon's two steps.  A database that is
  locked, or a process that is stopped, every single time would keep the backfill from
  ending; the daemon's loop waits and tries again after every error, so it is enough that
  a batch is possible again and again and is not missed for ever.
- `ResponseStream!Fairness`: the stream is polled on after a chunk has come in, until the
  client drops it.  Nothing is assumed of the upstream: `TerminalFrees` holds when it
  falls silent after its terminal event.
- `AccountPool` needs none: that failover ends is stated as the action property
  `RequestsDescend`, a measure that every step of a request lowers.

## 5. The proofs

`tlapm M_proofs.tla` for each of `SessionRoutes`, `SessionReroute` (with `SessionRegistry`),
`AccountPool`, `TokenRefresh`, `RequestLedger` (with `Pricing`), `ResponseStream`,
`SmartRouting` and `SessionCatalog`.  The theorems hold for all sets of keys, accounts,
requests, bridges and workers, all streams and ways to cut them, all sets of rollout files,
and all bounds.  What they assume is named in
the modules (`NoKey` is no key, `NoAccount` no account, snapshots are sets of accounts, the
largest generation is positive, accounts and clients of the pool are finite, quota reports
have numbers where they have values, a file is a record of ids) or stated by the theorem: `LeavesSafely` for
`LedgerBalances`, `MaxUnsent = 1` for `RerouteTellsNamedBridges`, and one side each of
`Unknown = 100` for two theorems of `SmartRouting`.

**Session routes.**  `RoutesTypeCorrect`, `RoutesWellFormed`, `RoutesNotAhead` and
`ReroutedTreesUniform` follow from one inductive invariant,
`IInv == TypeOK /\ TreesWellFormed /\ AffinityNotAhead /\ RerouteTreeUniform`.  None of
its parts is inductive alone: a bind keeps a tree uniform only because no affinity row is
of a later generation than its tree (otherwise the guarded upsert would keep an old
account), and a merge keeps that because every key of a merged tree is found through an
existing root.  `CommitPreserves` treats what a command writes, `ApplyCases` what its
decision guarantees about generation and account (an unmoved tree with an account has
that account at every key), `BindAtEpochPreserves` and `LegacyBindPreserves` the two
binds.

`ObsoleteBindsRefused` and `GenerationsGrow` need more: `OInv` adds for each request
that its epoch is not ahead of the tree its root is in now, and is behind it once a
command has moved that tree (`EpochBehind`).  The root of the epoch may have been merged
into another tree since, and may have become a root again; what is preserved is a
statement about the tree that its key is in, and `Monotone` (no step lowers the
generation of any key's tree) carries it through every step.

`RoutesImplementEpochs` is the refinement: under the mapping of `ImplementsRouteEpochs`
every step of the tables is a step of `RouteEpochs` or a stutter.  A command regroups its
trees at the generation it computed (`CommitRegroups`); that this is the largest of the
trees' own, or one above it, needs `AffinityNotAhead`, because the code also looks at the
generations of affinity rows (`LatestIsARoots`).  A bind is a `Join`, and the other
transactions leave roots, generations and actions alone.  `CommandsInv` adds that a root
that does not exist has no generation and no action, and that what is pending or listed
for a retry is a command.

**Session registry.**  `RegistryTypeCorrect`, `RegistryIndexComplete` and
`RegistrySignalsPersist` rest on
`RegistryInv == RegistryTypeOK /\ EntriesInv /\ IndexComplete`, where `EntriesInv` says
that an open connection has a root and a closed one has left nothing in its entry.  They
hold for signals in any order.

**Bridges, commands and registry together.**  `RerouteTypeCorrect`,
`RerouteIndexComplete` and `RerouteSignalsPersist` follow from `RerouteInv`: the registry's
invariant, and that a bridge is registered exactly while it is open, under a token of its
own.  `RerouteTellsNamedBridges` (a bridge whose keys a later command named has been
signalled once that command is through) needs `SignalInvariant`, since a command and a
registration may come in either order:

- a bridge that is connecting when the command signals is not told by the signal; what tells
  it is `register`, which compares its generation with what the registry knows of its keys.
  So while the bridge is named, the registry knows each of its keys by a root signalled
  above its epoch, or the signal is still to come (`NamedKnown`);
- an open bridge has been told, or the signal is still to come (`NamedTold`);
- both survive later commands only because the trees of the bridge's keys stay above its
  epoch (`NamedKeysMoved`, `EpochBehind`: no step of `RouteEpochs` lowers a tree), and
  because a signal under way still describes the tables (`UnsentCurrent`).

The last is where `MaxUnsent = 1` comes in: with two signals under way the older one may
describe a tree that has moved since, and section 6 says what happens then.

**Account pool.**  `PoolInv` is the types and, for each request (`RequestOK`), that it has an
account wherever it needs one.  Every step of a request is shown to be a `RequestBecomes`,
one lemma per action, which has all that the theorems need of a step: the invariant, that
only eligible accounts were acquired, that the request has less before it (`Lower`), how its
loop goes on (`Continues`), and that the ledger moved with the holders (`Balanced`).
`HoldersChange` counts the holders after such a step, and `LedgerBalances` follows by
induction: the UPDATE that releases stops at 0, and the ledger itself shows that it never has
to.  `LeavesSafely` is a hypothesis of `LedgerBalances` alone, and is used for `Leave` only;
the two awaits it excludes are the ones of section 6.  `SearchesFarEnough` (a request gives up
only after it has tried as many accounts as were eligible all the time, or as its limit
allows) rests on `SearchInv`: the accounts tried and the attempts left are together enough
for those that have stayed eligible.  It holds because attempts are counted once, from the
active accounts at the arrival, and each is spent on an account not tried before.

**Token refresh.**  The properties follow from `RefreshInv`, whose parts need each other:

- `OneGuarded`: at most one worker is past the lock.  It holds because all workers that
  refer to a mutex refer to the one in the table (`LockShared`): a new
  mutex is made only when nobody refers to the old one.
- `InHands`: what a worker uses or observed was in the row, in this order; what it has posted
  was good, or came from a used file; an answer it has yet to store was never in the row.
- `NoWayBack`: a refresh never brings a pair back to the row that was there before.  An import
  may, and the properties say so.
- `StoredNotBurned` for the row and the one guarded worker: as long as the row is the write
  that worker observed, only that worker can use its pair up.

`OneRefreshAtATime` is `OneGuarded`; the other four theorems are the run's safety
properties.  The exception "used file" is as small as it can be: it is about the very write
by which an operator stored a pair whose refresh token had been used, and ends with the next
write.  `RetriesUseAnotherPair` says that a request that is sent again has a later
write than the refused one, and another pair unless that write was an import: re-importing
the file whose token was just refused sends that token once more, because its ciphertext is
new.

**Pricing and ledger.**  `RangeBrackets` says for every rate card within the assumption and
every usage that the range stored without a report of cache writes contains the estimate
for each possible number of writes.  It rests on `CostGrows` (the cost is monotone in the
writes: `MoreForWriting`, an argument about products, and monotonicity of `\div`).
`StoredRangesCorrect` carries it to every log that is ever stored, through the invariant
`LedgerInv`: a row that is priced has its own request's estimate, and a row that a
backfill selected is still about the same request when it comes back, since ids are never
given twice.

`LedgerTypeCorrect`, `CountsPartitionRequests` and `CostsAlwaysAddUp` are about sums over the
table and need induction over it.  The proofs do that with sets in the place of
predicates: a set of numbers that has 0 and the successor of each of its members is `Nat`
(`EveryNumber`), so the recursive function of `SumOver` exists (`SumsExist`), and sums
split at any set of rows (`SumSplit`).  The invariant is `AccountsInv`: for each account
the totals count each request as complete, partial or unpriced exactly once
(`Partitions`), the rows still pending are among the unpriced ones, so a backfill can take
them out of that count (`PendingFits`), and the cost in the totals is the sum over the
account's rows and over what was pruned (`AddsUp`).  A batch that comes back after a
pruning, a second backfill or a deletion finds a row pending and moves it, or finds it
gone or priced and leaves it.

**Response stream.**  `DetectorComplete`, `CaptureKeepsTail`, `SettledFirst` and
`StreamAccountedOnce` follow from `StreamInv`, for every stream, every way to cut it and
every capacity.

- `DetectorOK` says what a detector that has not fired knows: no marker has come and the
  carry is the last `MarkerCarry` bytes, or the first marker has come and the carry is the
  last three bytes after it.  `ObserveCorrect` keeps it for any chunk.  The carry is enough
  because a word that is new must end in the chunk, and so begins in the carry
  (`NewWordInCarry`): markers have at most `MarkerCarry + 1` bytes.  The first marker stays
  the first because no marker is part of another (`MarkersAssumption`, true of `PATTERNS`):
  otherwise a longer one that began earlier could be completed later.
- `CaptureOK` says that the ring, read from its start, is the last bytes of the stream
  (`PushCorrect`, with `OverwriteRing` for the chunk that wraps).
- `AccountedByPhase` says what each phase has logged, or failed to log (`Tried`, `LoggedAs`),
  and released; a client that has the
  terminal event has what the detector reported because a stream keeps its terminal event
  (`TerminalStays`).

**Smart routing.**  `RoutingInv` has the types and that no request holds a time ahead of
the clock.  `ChoiceIsFound` says what a step that chooses an account has found: it was
eligible at the time the request had read, and came first in the ORDER BY.  From the bounds of
the scores (`QuotaBounds`) follow `LoadIsBounded`, for `Unknown <= 100`, and `UnknownIsFull`,
for `Unknown >= 100`; the code's value of 100 is the only one that gives both.
`OldClockIsSafe` needs no bound: time only lifts what bars an account.

**Session catalog.**  The invariant of `discover`, `CatalogInv`, adds to the types that a node
whose parent and fork differ is in doubt (`NodesInv`), and that of every file that was read
the links are kept, or the id of the file is in doubt (`FilesInv`): the second of two
contradictory files, and an ill-formed one that is named after an id, lose their links but
leave an issue.  The theorems about commands are then theorems about any such catalog, with
cycles and contradictions, and are proved in four steps.

- *What the recursions compute.*  `Resolve` and `Connected` are recursive functions, so the
  first thing to prove is that a function with these equations exists: `CallsExist`, by
  induction on the number of nodes not yet visited, and `RoundsExist`.  As in the ledger,
  the induction is over sets of numbers (`AllNumbers`); `VisitingInduction` turns it into
  one over the visited ids.
- *Components.*  `ConnectedIs`: every round of `connected_ids` that adds an id touches a node
  that no earlier round touched, so after as many rounds as there are nodes nothing is left
  to add, and the result is the smallest set that no node ties to an id outside.
  `SameComponent` follows: the rest of a component without another one inside it would be
  closed, and smaller.
- *Roots.*  A root lies in every closed set that has the id (`RootInside`), and an id that has
  a root when some ids have been visited has the same root when fewer have been
  (`FewerVisited`).  The second is what makes the roots of a node and of its parent
  comparable, since the parent's was computed with the node visited.  So all ids that a
  node ties together have its root (`TiedShareRoot`; a parent and a fork that differ would
  break it, which is why `NodesInv` is needed), the ids of an undamaged component with a
  given root are closed, and the component has one root (`OneRoot`) and is its own tree
  (`MembersAreConnected`).
- *Parts.*  A closed part of a catalog gives its ids the same roots and the same components as
  the whole (`PartResolves`, `PartConnected`).

`CommandMovesWholeTree`, `CommandSameForMembers` and `CommandIgnoresOtherTrees` combine
these.  The first goes back from the catalog to the files: a file that ties a member to a
session left out would have its links kept, and so lie within the component, or be one of
the two kinds of damage that the property names.  The third has two cases: a file that could
not be read refuses every command, and any other damage outside the component changes none.

**Checked by TLC only:** the liveness properties (`PendingIsSettled`, `TurnsGetThrough`,
`WorkersFinish`, `BackfillEnds`, `TerminalFrees`), since fairness and ENABLED are out of the
prover's reach, and the two runs of section 3 that expect a violation.

## 6. Divergences

Two runs violate what the repository's tests or documentation state; `PROJECT.json`
quotes them.

- `long_session`: every response id becomes a key of its session's tree, and the retry of
  a pending command names all of them; past 500 the command is refused on every tick
  (`src/db.rs:1895`).
- `pool_leak`: a client that leaves between the UPDATE that acquires an account and the
  creation of the lease leaves `inflight_count` one too high until the next restart
  (`src/proxy.rs:106`).

Others are behaviours of the models that no run states as a property:

- `src/db.rs:1758`: a pending reroute keeps its generation, so the bind of a request in
  flight still passes and closes the command as `fallback` while no account is eligible.
  It is not retried, whereas `README.md:238` says pending actions "are retried when an
  account becomes eligible".
- `src/session_registry.rs:199`: a connection re-rooted by two signals stays indexed under
  the first root after it is dropped.  The entry is a number without a connection; nothing
  but memory is lost.
- `src/db.rs:1716`: a client whose affinity keys belong to different trees has every turn
  refused and reconnects for ever, until a command merges the trees.  In `reroute_turns`
  the client has one affinity key.
- `src/cli.rs:651` and `src/cli.rs:680`: a comment promises that "a malformed descendant
  cannot produce a partial action-key set" (`src/cli.rs:811`).  A rollout file with ill-formed
  metadata is noted as an issue of the id in its name only, and of two files about one id the
  links of the one read second are dropped.  When that is the link of a descendant to its
  tree, a command on the root succeeds without the descendant; in the other order of reading
  it is refused.  `WholeTreeOrNothing` names these two cases; without its last two lines TLC
  violates it within two files.
- `src/cli.rs:626`: the same comment goes on that "unrelated damaged rollout history remains
  harmless".  One file that cannot be opened, or is not UTF-8, ends `discover`, and with it
  every session command.  `OnlyReadErrorsSpread` has this as its first disjunct; without it
  TLC violates the property with one file.
- `src/upstream.rs:58`: `README.md:195` calls `CODEX_LB_PROXY_REQUEST_BUDGET_SECONDS` the
  "Upstream request timeout", but the call to the token endpoint has none, and neither has the
  one for the usage.  A token endpoint that accepts a connection and never answers keeps the
  account's lock, and every request that needs a refresh of that account waits with it for as
  long as its client does.  Without `UpstreamAnswers` TLC violates `WorkersFinish` so.
- `src/db.rs:340`: an import stores the pair of any auth file over what is there, also a pair
  whose refresh token has been used.  The good pair is lost, and the next refresh presents the
  used token.  `UsedTokenNotPresented` and `StoredNotBurned` except such writes.
- `src/proxy.rs:532`: `log_request` only warns when its insert fails, so a response may end
  without a log; `AccountedOnce` counts the insert as tried.
- `src/proxy.rs:147`: see `AccountPool` in section 2: a 401 of an upstream, a refresh and an
  error on the retry end as the proxy's own error.
- `src/session_registry.rs:160`: with `MaxUnsent = 2` in `SessionReroute.cfg` (one client
  with both keys is enough), of two commands the older one signals last, `root_by_key`
  names its root again, and a bridge that registers then is compared with the older
  generation and starts unsignalled: `NamedBridgesSignalled` fails.  Its next turn is
  refused, so the turn is not misrouted; the bridge lingers until then.
- `src/websocket.rs:950`: with "settled" among the `LeavePoints` of `AccountPool.cfg`,
  `AccountReservation::release` disarms only after its awaited UPDATE has returned, so a
  handshake dropped in between releases twice and `InflightExact` fails.
- `src/admin/mod.rs:285`: a command signals the keys it was given and moves whole trees; a
  bridge under another key of a moved tree, unknown to the registry by that root, learns
  of it only when its next turn is refused.  `NamedBridgesSignalled` is therefore stated
  for the bridges whose keys the command named.
- `src/db.rs:560`: `update_account_tokens` sets the status to active, so a refresh that is
  under way re-activates an account an operator has just paused; likewise
  `mark_auth_failed` is unconditional, and a late failure deactivates an account whose
  credentials were replaced meanwhile.  `TokenRefresh` has both (`Store`,
  `MarkAuthFailed`); nothing in the repository says which should win.
- `src/db.rs:2048`: `cooldown_account` overwrites the end of a cooldown, so a short
  cooldown shortens a longer one.
- `src/main.rs:43`: `migrate up` resets the in-flight counts also while a daemon uses the
  database.  A second process is modelled for the backfill only.

## 7. What is not modelled

- Parsing and conversion: usage answers, prices by model name, credential files, headers,
  error envelopes, WebSocket message translation, the reading of usage and response id out
  of the captured tail.  What they decide is an input of the models.
- Read-only aggregation: status and Waybar output, pace metrics, listings of the admin API.
- Encryption of tokens (a library cipher) and runtime settings (validated rows; the ones
  that shape control flow, `proxy_max_attempts` and the routing strategy, are a constant
  of `AccountPool` and a free choice in `SmartRouting`).
- In `AccountPool` the end of a cooldown is not timed: `Bar` and `Unbar` come at any time.
  `SmartRouting` has the time and one length of cooldown.
- Database errors other than those the code decides on.  A release that gives up after
  three attempts at a locked database (`src/db.rs:1084`) is a leak like the one of
  `pool_leak`.
- The limit of 100 pending commands per tick (`src/db.rs:1504`): commands that fail keep
  their place, so 100 of them would starve the rest.
- Floating point: the score is rounded to six places in the code; the models use integers
  that need no rounding.

## 8. Plan

Done: all modules of section 2, and the proofs of section 5, which cover every safety
property of the passing runs.  What could follow is in section 7: the parts that are not
modelled, runtime settings and the import of auth files first.
