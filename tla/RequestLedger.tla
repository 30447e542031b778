---------------------------- MODULE RequestLedger ----------------------------
(***************************************************************************)
(* The request logs, the per-account totals beside them and the backfill   *)
(* that prices the logs of older versions (db.rs, scheduler.rs, main.rs).  *)
(*                                                                         *)
(* The backfill runs in the daemon, which tries for ever, and in           *)
(* `migrate up`, which ends with the first error.  Each of its batches is  *)
(* selected outside the transaction that prices it; inserts, pruning,      *)
(* deletions and the other backfill come in between.  Transactions are     *)
(* atomic: SQLite has one writer.                                          *)
(***************************************************************************)
EXTENDS Pricing, FiniteSets

CONSTANTS
    Accounts, NoAccount,
    Daemon, Migrator,
    Requests,       \* records of a model and a usage that requests may have
    OldLogs,        \* tables that an upgrade may find: id -> account and request
    OldPruned,      \* requests per account whose logs were gone by then
    MaxRows,
    BatchSize       \* API_COST_BACKFILL_BATCH_SIZE

ASSUME LedgerAssumption ==
    /\ NoAccount \notin Accounts
    /\ Daemon # Migrator
    /\ OldPruned \in Nat /\ MaxRows \in Nat
    /\ \A r \in Requests : r.usage \in Usage
    /\ \A old \in OldLogs :
         /\ \E n \in 0..MaxRows : DOMAIN old = 1..n
         /\ \A id \in DOMAIN old : old[id].account \in Accounts /\ old[id].request \in Requests
    /\ BatchSize \in Nat \ {0}

VARIABLES
    logs,       \* request_logs: id -> row
    lastId,     \* its AUTOINCREMENT sequence
    totals,     \* account_runtime_state: account -> counters
    batches,    \* what each backfill has selected and not yet priced
    ended,      \* the backfills that have ended
    pruned      \* history: per account, the estimates of priced logs that were pruned

vars == <<logs, lastId, totals, batches, ended, pruned>>

-----------------------------------------------------------------------------
Backfills == {Daemon, Migrator}
Ids == 1..MaxRows
Pending == Unpriced("pending")  \* api_cost_status IS NULL
CostOf == [r \in Requests |-> Estimate(r.model, r.usage)]
EstimateOf(row) == CostOf[row.request]

Totals == [requests : Nat, lower : Nat, upper : Nat, complete : Nat, partial : Nat, unpriced : Nat]

LedgerTypeOK ==
    /\ DOMAIN logs \subseteq 1..lastId
    /\ \A id \in DOMAIN logs :
         /\ logs[id].account \in Accounts \cup {NoAccount}
         /\ logs[id].cost \in {Pending, EstimateOf(logs[id])}
    /\ lastId \in 0..MaxRows
    /\ DOMAIN totals \subseteq Accounts /\ \A a \in DOMAIN totals : totals[a] \in Totals
    /\ \A b \in Backfills : DOMAIN batches[b] \subseteq 1..lastId
    /\ ended \subseteq Backfills

LowerOf(cost) == IF IsPriced(cost) THEN cost.lower ELSE 0
UpperOf(cost) == IF IsPriced(cost) THEN cost.upper ELSE 0
PendingIds == {id \in DOMAIN logs : logs[id].cost = Pending}

\* The sum of the amounts that some ids have.
SumOver(amounts) ==
    LET sum[n \in 0..MaxRows] ==
            IF n = 0 THEN 0 ELSE sum[n - 1] + IF n \in DOMAIN amounts THEN amounts[n] ELSE 0
    IN  sum[MaxRows]

\* What pricing these rows adds to the totals of their account.
Delta(rows) ==
    [lower |-> SumOver([id \in DOMAIN rows |-> LowerOf(EstimateOf(rows[id]))]),
     upper |-> SumOver([id \in DOMAIN rows |-> UpperOf(EstimateOf(rows[id]))]),
     complete |-> Cardinality({id \in DOMAIN rows : EstimateOf(rows[id]).status = "complete"}),
     partial |-> Cardinality({id \in DOMAIN rows :
                                 EstimateOf(rows[id]).status = "missing_cache_write"})]

Rows(ids, of) == [id \in ids |-> of[id]]
NoRows == Rows({}, <<>>)

\* The migration counts every request of the older version as unpriced.
Init ==
    /\ \E old \in OldLogs :
         /\ logs = [id \in DOMAIN old |->
                       [account |-> old[id].account, request |-> old[id].request, cost |-> Pending]]
         /\ lastId = Cardinality(DOMAIN old)
         /\ totals = [a \in Accounts |->
                LET count == OldPruned + Cardinality({id \in DOMAIN old : old[id].account = a})
                IN  [requests |-> count, lower |-> 0, upper |-> 0,
                     complete |-> 0, partial |-> 0, unpriced |-> count]]
    /\ batches = [b \in Backfills |-> NoRows]
    /\ ended = {}
    /\ pruned = [a \in Accounts |-> [lower |-> 0, upper |-> 0]]

-----------------------------------------------------------------------------
\* Mutant: without AUTOINCREMENT the id of a pruned log is given again.
IdAfterLast == 1 + CHOOSE n \in 0..MaxRows :
    (n \in DOMAIN logs \/ n = 0) /\ \A id \in DOMAIN logs : id <= n

NextId == lastId + 1

\* insert_request_log: a log is priced as it is written.  The account may be gone.
InsertRequestLog(account, request) ==
    LET cost == CostOf[request]
    IN  /\ NextId <= MaxRows
        /\ account \in DOMAIN totals
        /\ lastId' = NextId
        /\ logs' = [id \in DOMAIN logs \cup {NextId} |->
                       IF id \in DOMAIN logs THEN logs[id]
                       ELSE [account |-> account, request |-> request, cost |-> cost]]
        /\ totals' = [totals EXCEPT
               ![account].requests = @ + 1,
               ![account].lower = @ + LowerOf(cost),
               ![account].upper = @ + UpperOf(cost),
               ![account].complete = @ + IF cost.status = "complete" THEN 1 ELSE 0,
               ![account].partial = @ + IF cost.status = "missing_cache_write" THEN 1 ELSE 0,
               ![account].unpriced = @ + IF IsPriced(cost) THEN 0 ELSE 1]
        /\ UNCHANGED <<batches, ended, pruned>>

\* The pending rows with the smallest ids, at most a batch of them.
NextBatch ==
    {id \in PendingIds : Cardinality({other \in PendingIds : other < id}) < BatchSize}

\* Mutant: a batch none of whose rows was left to price ends the loop.
EndsWithNothingUpdated(b, updated) == updated = {}

\* Only a selection without rows ends the loop.
EndsAfter(b, updated) == FALSE

\* backfill_api_costs_batch up to its transaction
SelectBatch(b) ==
    /\ b \notin ended /\ batches[b] = NoRows
    /\ batches' = [batches EXCEPT ![b] = Rows(NextBatch, logs)]
    /\ ended' = IF NextBatch = {} THEN ended \cup {b} ELSE ended
    /\ UNCHANGED <<logs, lastId, totals, pruned>>

\* Mutant: the UPDATE has no `AND api_cost_status IS NULL`.
PresentRows(b) == {id \in DOMAIN batches[b] : id \in DOMAIN logs}

\* The rows of the batch that the guarded UPDATE affects.
UpdatedRows(b) == DOMAIN batches[b] \cap PendingIds

\* MAX(0, request_count - complete - partial)
UnpricedAfter(total, delta) ==
    LET rest == total.requests - (total.complete + delta.complete) - (total.partial + delta.partial)
    IN  IF rest < 0 THEN 0 ELSE rest

Credited(total, delta) ==
    [total EXCEPT !.lower = @ + delta.lower, !.upper = @ + delta.upper,
                  !.complete = @ + delta.complete, !.partial = @ + delta.partial,
                  !.unpriced = UnpricedAfter(total, delta)]

\* Mutant: rows_affected is not looked at.
SelectedOf(b, a) == {id \in DOMAIN batches[b] : batches[b][id].account = a}

\* The rows of the batch credited to an account, as it was when they were selected.
CreditedRows(b, a) == {id \in UpdatedRows(b) : batches[b][id].account = a}

DeltaOf(b, a) == Delta(Rows(CreditedRows(b, a), batches[b]))
Overflows(b) == \E a \in Accounts : DeltaOf(b, a).upper > MaxInt

\* The transaction of a batch.
CommitBatch(b) ==
    /\ batches[b] # NoRows
    /\ ~Overflows(b)
    /\ logs' = [id \in DOMAIN logs |->
                   IF id \in UpdatedRows(b) THEN [logs[id] EXCEPT !.cost = EstimateOf(batches[b][id])]
                   ELSE logs[id]]
    /\ totals' = [a \in DOMAIN totals |->
                   IF CreditedRows(b, a) = {} THEN totals[a] ELSE Credited(totals[a], DeltaOf(b, a))]
    /\ batches' = [batches EXCEPT ![b] = NoRows]
    /\ ended' = IF EndsAfter(b, UpdatedRows(b)) THEN ended \cup {b} ELSE ended
    /\ UNCHANGED <<lastId, pruned>>

\* An overflow or an error of the database rolls it back.  The daemon tries again.
FailBatch(b) ==
    /\ b \notin ended
    /\ batches' = [batches EXCEPT ![b] = NoRows]
    /\ ended' = IF b = Migrator THEN ended \cup {b} ELSE ended
    /\ UNCHANGED <<logs, lastId, totals, pruned>>

\* The process of a backfill ends; started again, it begins anew.
Restart(b) ==
    /\ batches' = [batches EXCEPT ![b] = NoRows]
    /\ ended' = ended \ {b}
    /\ UNCHANGED <<logs, lastId, totals, pruned>>

\* prune_history deletes the logs written before some moment and keeps the totals.
Prune(upTo) ==
    LET old == {id \in DOMAIN logs : id <= upTo}
        Of(a) == {id \in old : logs[id].account = a}
    IN  /\ old # {}
        /\ logs' = Rows(DOMAIN logs \ old, logs)
        /\ pruned' = [a \in Accounts |->
               [lower |-> pruned[a].lower + SumOver([id \in Of(a) |-> LowerOf(logs[id].cost)]),
                upper |-> pruned[a].upper + SumOver([id \in Of(a) |-> UpperOf(logs[id].cost)])]]
        /\ UNCHANGED <<lastId, totals, batches, ended>>

\* delete_account: its totals go with it, its logs stay without it.
DeleteAccount(a) ==
    /\ a \in DOMAIN totals
    /\ totals' = [b \in DOMAIN totals \ {a} |-> totals[b]]
    /\ logs' = [id \in DOMAIN logs |->
                   IF logs[id].account = a THEN [logs[id] EXCEPT !.account = NoAccount] ELSE logs[id]]
    /\ UNCHANGED <<lastId, batches, ended, pruned>>

Next ==
    \/ \E a \in Accounts, r \in Requests : InsertRequestLog(a, r)
    \/ \E b \in Backfills : SelectBatch(b) \/ CommitBatch(b) \/ FailBatch(b) \/ Restart(b)
    \/ \E upTo \in Ids : Prune(upTo)
    \/ \E a \in Accounts : DeleteAccount(a)

Spec == Init /\ [][Next]_vars

\* A daemon is started again whenever it has stopped, runs long enough for a batch now
\* and then, and finds the database unlocked now and then.
Fairness == SF_vars(SelectBatch(Daemon)) /\ SF_vars(CommitBatch(Daemon))

FairSpec == Spec /\ Fairness

-----------------------------------------------------------------------------
(***************************************************************************)
(* Properties.                                                             *)
(***************************************************************************)
\* Every request of an account is counted as complete, partial or unpriced, and as one of
\* them only, whatever was pruned and whoever priced it: the coverage that the status
\* page shows is the share it says.
CountsPartition ==
    \A a \in DOMAIN totals :
        totals[a].complete + totals[a].partial + totals[a].unpriced = totals[a].requests

\* The cost of an account is the cost of its logs, those that were pruned included: no
\* log is charged twice and none is forgotten, with two backfills at work.
CostsAddUp ==
    \A a \in DOMAIN totals :
        LET ids == {id \in DOMAIN logs : logs[id].account = a}
        IN  /\ totals[a].lower = pruned[a].lower + SumOver([id \in ids |-> LowerOf(logs[id].cost)])
            /\ totals[a].upper = pruned[a].upper + SumOver([id \in ids |-> UpperOf(logs[id].cost)])

\* The range stored with a log that did not report its cache writes holds whatever the
\* request has written.
StoredRangesHold ==
    \A id \in DOMAIN logs :
        LET row == logs[id]
        IN  row.cost.status = "missing_cache_write" =>
                \A written \in 0..Unwritten(row.request.usage) :
                    LET exact == Estimate(row.request.model,
                                          [row.request.usage EXCEPT !.written = written])
                    IN  /\ exact.status = "complete"
                        /\ row.cost.lower <= exact.lower /\ exact.upper <= row.cost.upper

\* Sooner or later every log is priced or pruned, also when the other backfill takes
\* every row of a batch or is stopped in the middle.
BackfillEnds == <>(PendingIds = {})
=============================================================================
