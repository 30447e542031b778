------------------------ MODULE RequestLedger_proofs ------------------------
(* Proofs about RequestLedger, for any accounts, requests, rates and batches. *)
EXTENDS RequestLedger, TLAPS, FiniteSetTheorems, NaturalsInduction, WellFoundedInduction

-----------------------------------------------------------------------------
(***************************************************************************)
(* Pricing, for any rates, thresholds and token counts.                    *)
(***************************************************************************)
\* What a token costs more when it is written to the cache, no count of them costs less.
LEMMA MoreForWriting ==
    ASSUME NEW w \in Nat, NEW plain \in Nat, NEW written \in Nat, plain <= written
    PROVE  w * plain \in Nat /\ w * written \in Nat /\ w * plain <= w * written
<1>1. PICK more \in Nat : written = plain + more
  <2>1. written - plain \in Nat /\ written = plain + (written - plain)
    OBVIOUS
  <2>2. QED BY <2>1
<1>2. w * written = w * plain + w * more
  BY <1>1
<1>3. w * plain \in Nat /\ w * more \in Nat
  BY <1>1
<1>4. QED BY <1>2, <1>3

\* How the plain part of the input is charged, written out.
LEMMA Distribute ==
    ASSUME NEW u \in Int, NEW w \in Int, NEW rate \in Int
    PROVE  (u - w) * rate = u * rate - w * rate
OBVIOUS

\* The more of the input is written to the cache, the more the request costs.
LEMMA CostGrows ==
    ASSUME NEW rates \in Rates, rates.input <= rates.written,
           NEW usage, usage.input \in Nat, usage.cached \in Nat, usage.output \in Nat,
           usage.cached <= usage.input,
           NEW v \in Nat, NEW w \in Nat, v <= w, w <= Unwritten(usage)
    PROVE  /\ CostWith(rates, usage, v) \in Int /\ CostWith(rates, usage, w) \in Int
           /\ CostWith(rates, usage, v) <= CostWith(rates, usage, w)
<1> DEFINE u == usage.input - usage.cached
           Input(x) == (u - x) * rates.input + usage.cached * rates.cached + x * rates.written
           output == usage.output * rates.output
<1>1. /\ rates.input \in Nat /\ rates.cached \in Nat /\ rates.written \in Nat /\ rates.output \in Nat
      /\ u \in Nat /\ LongContext \in Nat
  BY PricingAssumption DEF Rates
<1>2. usage.cached * rates.cached \in Nat /\ output \in Nat
  BY <1>1
<1>3. \A x \in Nat : Input(x) \in Int
  BY <1>1, <1>2
<1>4. Input(v) <= Input(w)
  <2>1. (w - v) * rates.input <= (w - v) * rates.written
    BY <1>1, MoreForWriting
  <2>2. /\ (w - v) * rates.input = w * rates.input - v * rates.input
        /\ (w - v) * rates.written = w * rates.written - v * rates.written
        /\ (u - v) * rates.input = u * rates.input - v * rates.input
        /\ (u - w) * rates.input = u * rates.input - w * rates.input
    BY <1>1, Distribute
  <2>3. /\ u * rates.input \in Int /\ v * rates.input \in Int /\ w * rates.input \in Int
        /\ v * rates.written \in Int /\ w * rates.written \in Int
    BY <1>1
  <2>4. QED BY <1>2, <2>1, <2>2, <2>3
<1>5. (3 * output) \div 2 \in Int
  BY <1>2
<1>6. \A x \in Nat : CostWith(rates, usage, x) =
          IF usage.input > LongContext THEN 2 * Input(x) + (3 * output) \div 2 ELSE Input(x) + output
  BY DEF CostWith, Unwritten
<1> HIDE DEF Input, output
<1>7. QED BY <1>2, <1>3, <1>4, <1>5, <1>6

\* What reporting the writes changes of a usage, and what it does not.
LEMMA Reported ==
    ASSUME NEW usage \in Usage, NEW w \in Int
    PROVE  LET told == [usage EXCEPT !.written = w]
           IN  /\ told.input = usage.input /\ told.cached = usage.cached
               /\ told.output = usage.output /\ told.written = w
BY DEF Usage

\* The range stored for a request that did not report its cache writes holds what it would
\* have been billed for any number of them, at any rates at which writing costs no less
\* than plain input, on either side of both thresholds.
THEOREM RangeBrackets ==
    ASSUME NEW model, NEW usage \in Usage
    PROVE  Brackets(model, usage)
<1> DEFINE e == Estimate(model, usage)
           u == Unwritten(usage)
<1> SUFFICES ASSUME e.status = "missing_cache_write", NEW w \in 0..u
             PROVE  LET exact == Estimate(model, [usage EXCEPT !.written = w])
                    IN  exact.status = "complete" /\ e.lower <= exact.lower /\ exact.upper <= e.upper
  BY DEF Brackets
<1> DEFINE told == [usage EXCEPT !.written = w]
           rates == RateCard[model]
<1>1. /\ model \in DOMAIN RateCard
      /\ None \notin {usage.input, usage.output, usage.cached}
      /\ Consistent(usage) /\ Written(usage) = None
  BY DEF Estimate, Unpriced, Priced
<1>2. /\ usage.input \in Nat /\ usage.output \in Nat /\ usage.cached \in Nat
      /\ usage.cached <= usage.input /\ u \in Nat /\ w \in Nat /\ w <= u
      /\ ~(usage.input < MinCacheable)
  BY <1>1, PricingAssumption DEF Consistent, Usage, Counter, Unwritten, Written
<1>3. /\ told.input = usage.input /\ told.cached = usage.cached
      /\ told.output = usage.output /\ told.written = w
  BY <1>2, Reported
<1>4. Written(told) = w /\ Unwritten(told) = u
  BY <1>2, <1>3 DEF Written, Unwritten
<1>5. Consistent(told)
  BY <1>2, <1>3, <1>4, PricingAssumption DEF Consistent, Unwritten
<1>6. rates \in Rates /\ rates.input <= rates.written
  BY <1>1, PricingAssumption
<1>7. \A x \in Nat : CostWith(rates, told, x) = CostWith(rates, usage, x)
  BY <1>3 DEF CostWith, Unwritten
<1>8. /\ CostWith(rates, usage, 0) <= CostWith(rates, usage, w)
      /\ CostWith(rates, usage, w) <= CostWith(rates, usage, u)
      /\ CostWith(rates, usage, 0) \in Int /\ CostWith(rates, usage, w) \in Int
      /\ CostWith(rates, usage, u) \in Int
  BY <1>2, <1>6, CostGrows
<1>9. LeastWritten(usage) = 0 /\ MostWritten(usage) = u
  BY <1>1 DEF LeastWritten, MostWritten
<1>10. LeastWritten(told) = w /\ MostWritten(told) = w
  BY <1>2, <1>4, PricingAssumption DEF LeastWritten, MostWritten
<1>11. /\ e.lower = CostWith(rates, usage, 0) /\ e.upper = CostWith(rates, usage, u)
       /\ ~(CostWith(rates, usage, u) > MaxInt)
  BY <1>1, <1>9 DEF Estimate, Unpriced, Priced
<1>12. Estimate(model, told) = Priced("complete", CostWith(rates, usage, w), CostWith(rates, usage, w))
  <2>1. None \notin {told.input, told.output, told.cached} /\ Written(told) # None
    BY <1>1, <1>2, <1>3, <1>4, PricingAssumption
  <2>2. ~(CostWith(rates, usage, w) > MaxInt)
    BY <1>8, <1>11, PricingAssumption
  <2>3. QED BY <1>1, <1>2, <1>5, <1>7, <1>10, <2>1, <2>2 DEF Estimate
<1>13. QED BY <1>8, <1>11, <1>12 DEF Priced

\* No request costs less than nothing.
LEMMA CostNat ==
    ASSUME NEW rates \in Rates,
           NEW usage, usage.input \in Nat, usage.cached \in Nat, usage.output \in Nat,
           usage.cached <= usage.input, NEW w \in Nat, w <= Unwritten(usage)
    PROVE  CostWith(rates, usage, w) \in Nat
<1> DEFINE u == usage.input - usage.cached
           input == (u - w) * rates.input + usage.cached * rates.cached + w * rates.written
           output == usage.output * rates.output
<1>1. /\ rates.input \in Nat /\ rates.cached \in Nat /\ rates.written \in Nat /\ rates.output \in Nat
      /\ u - w \in Nat /\ LongContext \in Nat
  BY PricingAssumption DEF Rates, Unwritten
<1>2. /\ (u - w) * rates.input \in Nat /\ usage.cached * rates.cached \in Nat
      /\ w * rates.written \in Nat /\ output \in Nat
  BY <1>1
<1>3. input \in Nat
  BY <1>2
<1>4. CostWith(rates, usage, w) =
          IF usage.input > LongContext THEN 2 * input + (3 * output) \div 2 ELSE input + output
  BY DEF CostWith, Unwritten
<1> HIDE DEF input, output
<1>5. (3 * output) \div 2 \in Nat
  BY <1>2
<1>6. QED BY <1>2, <1>3, <1>4, <1>5

\* An estimate is a range of amounts or has a status that says why it is none.
LEMMA EstimateShape ==
    ASSUME NEW model, NEW usage \in Usage
    PROVE  LET e == Estimate(model, usage)
           IN  /\ e.status \in {"complete", "missing_cache_write",
                                 "unknown_model", "missing_usage", "invalid_usage"}
               /\ IsPriced(e) => e.lower \in Nat /\ e.upper \in Nat
<1> DEFINE e == Estimate(model, usage)
           rates == RateCard[model]
           lower == CostWith(rates, usage, LeastWritten(usage))
           upper == CostWith(rates, usage, MostWritten(usage))
<1>1. CASE model \notin DOMAIN RateCard \/ None \in {usage.input, usage.output, usage.cached}
             \/ ~Consistent(usage)
  BY <1>1 DEF Estimate, Unpriced, IsPriced
<1>2. CASE /\ model \in DOMAIN RateCard /\ Consistent(usage)
           /\ None \notin {usage.input, usage.output, usage.cached}
  <2>1. /\ usage.input \in Nat /\ usage.output \in Nat /\ usage.cached \in Nat
        /\ usage.cached <= usage.input
    BY <1>2 DEF Consistent, Usage, Counter
  <2>2. Written(usage) # None => Written(usage) \in Nat /\ Written(usage) <= Unwritten(usage)
    BY <1>2, <2>1, PricingAssumption DEF Consistent, Usage, Counter, Written, Unwritten
  <2>3. Unwritten(usage) \in Nat
    BY <2>1 DEF Unwritten
  <2>4. /\ LeastWritten(usage) \in Nat /\ LeastWritten(usage) <= Unwritten(usage)
        /\ MostWritten(usage) \in Nat /\ MostWritten(usage) <= Unwritten(usage)
    BY <2>2, <2>3 DEF LeastWritten, MostWritten
  <2>5. rates \in Rates
    BY <1>2, PricingAssumption
  <2>6. lower \in Nat /\ upper \in Nat
    BY <2>1, <2>4, <2>5, CostNat
  <2>7. \/ e = Unpriced("invalid_usage")
        \/ e = Priced("missing_cache_write", lower, upper)
        \/ e = Priced("complete", lower, upper)
    BY <1>2 DEF Estimate
  <2> HIDE DEF lower, upper, e
  <2>8. QED BY <2>6, <2>7 DEF Unpriced, Priced, IsPriced, e
<1>3. QED BY <1>1, <1>2

-----------------------------------------------------------------------------
(***************************************************************************)
(* The rows and the backfills that price them.                             *)
(***************************************************************************)
\* A log is pending or has the estimate of its own request.
LogsPriced ==
    \A id \in DOMAIN logs :
        /\ DOMAIN logs[id] = {"account", "request", "cost"}
        /\ logs[id].request \in Requests
        /\ logs[id].cost \in {Pending, EstimateOf(logs[id])}

\* Ids are given once, so a row that was selected and is still there is the same row.
IdsGiven ==
    /\ lastId \in 0..MaxRows
    /\ DOMAIN logs \subseteq 1..lastId
    /\ \A b \in Backfills : DOMAIN batches[b] \subseteq 1..lastId

\* A backfill has selected the requests that its rows still have.
BatchesAgree ==
    \A b \in Backfills : \A id \in DOMAIN batches[b] :
        id \in DOMAIN logs => batches[b][id].request = logs[id].request

LedgerInv ==
    /\ DOMAIN batches = Backfills
    /\ LogsPriced /\ IdsGiven /\ BatchesAgree

\* A backfill that has selected nothing has no rows.
LEMMA NoRowsEmpty == DOMAIN NoRows = {}
BY DEF NoRows, Rows

\* The invariant holds for any table an upgrade may find.
LEMMA InitInv == Init => LedgerInv
<1> SUFFICES ASSUME Init PROVE LedgerInv
  OBVIOUS
<1>1. PICK old \in OldLogs :
        /\ logs = [id \in DOMAIN old |->
                     [account |-> old[id].account, request |-> old[id].request, cost |-> Pending]]
        /\ lastId = Cardinality(DOMAIN old)
  BY DEF Init
<1>2. PICK n \in 0..MaxRows : DOMAIN old = 1..n
  BY LedgerAssumption
<1>3. lastId = n
  BY <1>1, <1>2, LedgerAssumption, FS_Interval
<1>4. DOMAIN batches = Backfills /\ \A b \in Backfills : DOMAIN batches[b] = {}
  BY NoRowsEmpty DEF Init
<1>5. LogsPriced
  BY <1>1, LedgerAssumption DEF LogsPriced
<1>6. IdsGiven
  BY <1>1, <1>2, <1>3, <1>4 DEF IdsGiven
<1>7. BatchesAgree
  BY <1>4 DEF BatchesAgree
<1>8. QED BY <1>4, <1>5, <1>6, <1>7 DEF LedgerInv

\* A request is logged under a new id with its own estimate.
LEMMA InsertInv ==
    ASSUME LedgerInv, NEW a \in Accounts, NEW r \in Requests, InsertRequestLog(a, r)
    PROVE  LedgerInv'
<1>1. /\ lastId' = lastId + 1 /\ lastId + 1 <= MaxRows /\ UNCHANGED batches
      /\ logs' = [id \in DOMAIN logs \cup {lastId + 1} |->
                    IF id \in DOMAIN logs THEN logs[id]
                    ELSE [account |-> a, request |-> r, cost |-> CostOf[r]]]
  BY DEF InsertRequestLog, NextId
<1>2. LogsPriced'
  BY <1>1 DEF LedgerInv, LogsPriced, EstimateOf
<1>3. IdsGiven'
  BY <1>1, LedgerAssumption DEF LedgerInv, IdsGiven
<1>4. BatchesAgree'
  BY <1>1 DEF LedgerInv, IdsGiven, BatchesAgree
<1>5. QED BY <1>1, <1>2, <1>3, <1>4 DEF LedgerInv

\* The rows that a backfill selects are rows of the table.
LEMMA SelectInv ==
    ASSUME LedgerInv, NEW b \in Backfills, SelectBatch(b)
    PROVE  LedgerInv'
<1>1. /\ batches' = [batches EXCEPT ![b] = Rows(NextBatch, logs)]
      /\ UNCHANGED <<logs, lastId>>
  BY DEF SelectBatch
<1>2. NextBatch \subseteq DOMAIN logs
  BY DEF NextBatch, PendingIds
<1>3. /\ DOMAIN Rows(NextBatch, logs) = NextBatch
      /\ \A id \in NextBatch : Rows(NextBatch, logs)[id] = logs[id]
  BY DEF Rows
<1>4. LogsPriced'
  BY <1>1 DEF LedgerInv, LogsPriced, EstimateOf
<1>5. IdsGiven' /\ BatchesAgree' /\ DOMAIN batches' = Backfills
  BY <1>1, <1>2, <1>3 DEF LedgerInv, IdsGiven, BatchesAgree
<1>6. QED BY <1>4, <1>5 DEF LedgerInv

\* A step that drops what a backfill has selected and leaves the logs alone.
LEMMA DropInv ==
    ASSUME LedgerInv, NEW b \in Backfills,
           batches' = [batches EXCEPT ![b] = NoRows], UNCHANGED <<logs, lastId>>
    PROVE  LedgerInv'
BY NoRowsEmpty DEF LedgerInv, LogsPriced, EstimateOf, IdsGiven, BatchesAgree

\* The guarded UPDATE gives a row the estimate of the row that was selected, its own.
LEMMA CommitInv ==
    ASSUME LedgerInv, NEW b \in Backfills, CommitBatch(b)
    PROVE  LedgerInv'
<1>1. /\ batches' = [batches EXCEPT ![b] = NoRows] /\ UNCHANGED lastId
      /\ logs' = [id \in DOMAIN logs |->
                    IF id \in UpdatedRows(b)
                    THEN [logs[id] EXCEPT !.cost = EstimateOf(batches[b][id])] ELSE logs[id]]
  BY DEF CommitBatch
<1>2. \A id \in UpdatedRows(b) : /\ id \in DOMAIN logs /\ id \in DOMAIN batches[b]
                                 /\ batches[b][id].request = logs[id].request
  BY DEF UpdatedRows, PendingIds, LedgerInv, BatchesAgree
<1>3. \A id \in DOMAIN logs : logs'[id].request = logs[id].request
  BY <1>1
<1>4. LogsPriced'
  BY <1>1, <1>2, <1>3 DEF LedgerInv, LogsPriced, EstimateOf
<1>5. IdsGiven' /\ BatchesAgree' /\ DOMAIN batches' = Backfills
  BY <1>1, <1>3, NoRowsEmpty DEF LedgerInv, IdsGiven, BatchesAgree
<1>6. QED BY <1>4, <1>5 DEF LedgerInv

\* Pruning takes rows away and changes none.
LEMMA PruneInv ==
    ASSUME LedgerInv, NEW upTo \in Ids, Prune(upTo)
    PROVE  LedgerInv'
<1>1. PICK gone \in SUBSET DOMAIN logs :
        logs' = Rows(DOMAIN logs \ gone, logs) /\ UNCHANGED <<lastId, batches>>
  BY DEF Prune
<1>2. QED BY <1>1 DEF LedgerInv, LogsPriced, EstimateOf, IdsGiven, BatchesAgree, Rows

\* Deleting an account leaves its rows without one.
LEMMA DeleteInv ==
    ASSUME LedgerInv, NEW a \in Accounts, DeleteAccount(a)
    PROVE  LedgerInv'
<1>1. /\ UNCHANGED <<lastId, batches>>
      /\ logs' = [id \in DOMAIN logs |->
                    IF logs[id].account = a THEN [logs[id] EXCEPT !.account = NoAccount] ELSE logs[id]]
  BY DEF DeleteAccount
<1>2. \A id \in DOMAIN logs : logs'[id].request = logs[id].request /\ logs'[id].cost = logs[id].cost
  BY <1>1
<1>3. QED BY <1>1, <1>2 DEF LedgerInv, LogsPriced, EstimateOf, IdsGiven, BatchesAgree

\* Every step of Next keeps the invariant.
LEMMA NextInv == LedgerInv /\ [Next]_vars => LedgerInv'
<1> SUFFICES ASSUME LedgerInv, [Next]_vars PROVE LedgerInv'
  OBVIOUS
<1>1. ASSUME NEW a \in Accounts, NEW r \in Requests, InsertRequestLog(a, r) PROVE LedgerInv'
  BY <1>1, InsertInv
<1>2. ASSUME NEW b \in Backfills, SelectBatch(b) PROVE LedgerInv'
  BY <1>2, SelectInv
<1>3. ASSUME NEW b \in Backfills, CommitBatch(b) PROVE LedgerInv'
  BY <1>3, CommitInv
<1>4. ASSUME NEW b \in Backfills, FailBatch(b) \/ Restart(b) PROVE LedgerInv'
  BY <1>4, DropInv DEF FailBatch, Restart
<1>5. ASSUME NEW upTo \in Ids, Prune(upTo) PROVE LedgerInv'
  BY <1>5, PruneInv
<1>6. ASSUME NEW a \in Accounts, DeleteAccount(a) PROVE LedgerInv'
  BY <1>6, DeleteInv
<1>7. CASE UNCHANGED vars
  BY <1>7 DEF vars, LedgerInv, LogsPriced, EstimateOf, IdsGiven, BatchesAgree
<1>8. QED BY <1>1, <1>2, <1>3, <1>4, <1>5, <1>6, <1>7 DEF Next

\* Whatever inserts, backfills, prunings and deletions come together, the range stored
\* with a log brackets every cost its request may have had.
THEOREM StoredRangesCorrect == Spec => []StoredRangesHold
<1>1. LedgerInv => StoredRangesHold
  <2> SUFFICES ASSUME LedgerInv, NEW id \in DOMAIN logs,
                      logs[id].cost.status = "missing_cache_write",
                      NEW w \in 0..Unwritten(logs[id].request.usage)
               PROVE  LET exact == Estimate(logs[id].request.model,
                                            [logs[id].request.usage EXCEPT !.written = w])
                      IN  /\ exact.status = "complete"
                          /\ logs[id].cost.lower <= exact.lower
                          /\ exact.upper <= logs[id].cost.upper
    BY DEF StoredRangesHold
  <2> DEFINE request == logs[id].request
  <2>1. request \in Requests /\ request.usage \in Usage
    BY LedgerAssumption DEF LedgerInv, LogsPriced
  <2>2. Pending.status = "pending"
    BY DEF Pending, Unpriced
  <2>3. logs[id].cost = Estimate(request.model, request.usage)
    BY <2>1, <2>2 DEF LedgerInv, LogsPriced, EstimateOf, CostOf
  <2>4. Brackets(request.model, request.usage)
    BY <2>1, RangeBrackets
  <2>5. QED BY <2>3, <2>4 DEF Brackets
<1>2. Spec => []LedgerInv
  BY InitInv, NextInv, PTL DEF Spec
<1>3. QED BY <1>1, <1>2, PTL
-----------------------------------------------------------------------------
(***************************************************************************)
(* Sums.  A set of numbers that has 0 and the successor of each of its     *)
(* members has every number; applied to sets of the numbers up to which a  *)
(* sum has been computed, that is the induction the sums need.             *)
(***************************************************************************)
\* A set of natural numbers that is not empty has a smallest member.
LEMMA Smallest ==
    ASSUME NEW T \in SUBSET Nat, T # {}
    PROVE  \E x \in T : \A y \in T : ~(y < x)
<1> DEFINE R == OpToRel(<, Nat)
<1>1. IsWellFoundedOn(R, Nat)
  BY NatLessThanWellFounded
<1>2. \A x, y \in Nat : y < x => <<y, x>> \in R
  BY DEF OpToRel
<1> HIDE DEF R
<1>3. \E x \in T : \A y \in T : <<y, x>> \notin R
  BY <1>1, WFMin
<1>4. QED BY <1>2, <1>3

\* Induction, for a set of numbers.
LEMMA EveryNumber ==
    ASSUME NEW S \in SUBSET Nat, 0 \in S, \A n \in S : n + 1 \in S
    PROVE  Nat = S
<1> SUFFICES ASSUME Nat \ S # {} PROVE FALSE
  OBVIOUS
<1>1. PICK x \in Nat \ S : \A y \in Nat \ S : ~(y < x)
  BY Smallest
<1>2. x # 0 /\ x - 1 \in Nat /\ x - 1 < x
  BY <1>1
<1>3. x - 1 \in S
  BY <1>1, <1>2
<1>4. (x - 1) + 1 \in S
  BY <1>3
<1>5. (x - 1) + 1 = x
  BY <1>1
<1>6. QED BY <1>1, <1>4, <1>5

\* What an id contributes to a sum.
Amount(amounts, n) == IF n \in DOMAIN amounts THEN amounts[n] ELSE 0
AreAmounts(amounts) == \A n \in Ids : Amount(amounts, n) \in Nat

\* A function that adds one amount after the other.
SumsUp(f, amounts) == f[0] = 0 /\ \A n \in Ids : f[n] = f[n - 1] + Amount(amounts, n)

\* Amounts can be added up one after the other.
LEMMA SumsExist ==
    ASSUME NEW amounts, AreAmounts(amounts)
    PROVE  \E f \in [0..MaxRows -> Nat] : SumsUp(f, amounts)
<1> DEFINE UpTo(f, n) == f[0] = 0 /\ \A i \in 1..n : f[i] = f[i - 1] + Amount(amounts, i)
           S == {n \in Nat : n <= MaxRows => \E f \in [0..MaxRows -> Nat] : UpTo(f, n)}
<1>1. MaxRows \in Nat
  BY LedgerAssumption
<1>2. 0 \in S
  <2> DEFINE zero == [i \in 0..MaxRows |-> 0]
  <2>1. zero \in [0..MaxRows -> Nat] /\ UpTo(zero, 0)
    BY <1>1
  <2>2. QED BY <2>1
<1>3. ASSUME NEW n \in S PROVE n + 1 \in S
  <2>1. n \in Nat
    OBVIOUS
  <2> SUFFICES ASSUME n + 1 <= MaxRows
               PROVE  \E f \in [0..MaxRows -> Nat] : UpTo(f, n + 1)
    BY <2>1
  <2>2. PICK f \in [0..MaxRows -> Nat] : UpTo(f, n)
    BY <1>1, <2>1
  <2> DEFINE g == [f EXCEPT ![n + 1] = f[n] + Amount(amounts, n + 1)]
  <2>3. Amount(amounts, n + 1) \in Nat
    BY <1>1, <2>1 DEF AreAmounts, Ids
  <2>4. g \in [0..MaxRows -> Nat]
    BY <1>1, <2>1, <2>2, <2>3
  <2>5. g[n + 1] = f[n] + Amount(amounts, n + 1) /\ \A i \in 0..n : g[i] = f[i]
    BY <1>1, <2>1
  <2> HIDE DEF g
  <2>6. ASSUME NEW i \in 1..(n + 1) PROVE g[i] = g[i - 1] + Amount(amounts, i)
    <3>1. CASE i = n + 1
      <4>1. i - 1 = n /\ n \in 0..n
        BY <2>1, <3>1
      <4>2. QED BY <2>5, <3>1, <4>1
    <3>2. CASE i # n + 1
      <4>1. i \in 1..n /\ i \in 0..n /\ i - 1 \in 0..n
        BY <2>1, <3>2
      <4>2. QED BY <2>2, <2>5, <4>1
    <3>3. QED BY <3>1, <3>2
  <2>7. g[0] = 0
    BY <2>1, <2>2, <2>5
  <2>8. QED BY <2>4, <2>6, <2>7
<1>4. Nat = S
  <2>1. S \in SUBSET Nat
    OBVIOUS
  <2> HIDE DEF S
  <2>2. QED BY <1>2, <1>3, <2>1, EveryNumber
<1>5. MaxRows \in S
  BY <1>1, <1>4
<1>6. \E f \in [0..MaxRows -> Nat] : UpTo(f, MaxRows)
  BY <1>1, <1>5
<1>7. QED BY <1>6 DEF SumsUp, Ids

\* There is one way to add them up.
LEMMA SumsAgree ==
    ASSUME NEW amounts, AreAmounts(amounts),
           NEW f \in [0..MaxRows -> Nat], SumsUp(f, amounts),
           NEW g \in [0..MaxRows -> Nat], SumsUp(g, amounts)
    PROVE  \A n \in 0..MaxRows : f[n] = g[n]
<1> DEFINE S == {n \in Nat : n <= MaxRows => f[n] = g[n]}
<1>1. MaxRows \in Nat
  BY LedgerAssumption
<1>2. 0 \in S
  BY DEF SumsUp
<1>3. ASSUME NEW n \in S PROVE n + 1 \in S
  <2> SUFFICES ASSUME n + 1 <= MaxRows PROVE f[n + 1] = g[n + 1]
    OBVIOUS
  <2>1. n + 1 \in Ids /\ (n + 1) - 1 = n /\ f[n] = g[n]
    BY <1>1 DEF Ids
  <2>2. QED BY <2>1 DEF SumsUp
<1>4. Nat = S
  <2>1. S \in SUBSET Nat
    OBVIOUS
  <2> HIDE DEF S
  <2>2. QED BY <1>2, <1>3, <2>1, EveryNumber
<1>5. ASSUME NEW n \in 0..MaxRows PROVE f[n] = g[n]
  <2>1. n \in Nat /\ n <= MaxRows
    BY <1>1
  <2>2. n \in S
    BY <1>4, <2>1
  <2>3. QED BY <2>1, <2>2
<1>6. QED BY <1>5

\* The sum of some amounts is what any such function ends with.
LEMMA SumIs ==
    ASSUME NEW amounts, AreAmounts(amounts),
           NEW f \in [0..MaxRows -> Nat], SumsUp(f, amounts)
    PROVE  SumOver(amounts) = f[MaxRows] /\ SumOver(amounts) \in Nat
<1> DEFINE After(g) == [n \in 0..MaxRows |->
                IF n = 0 THEN 0 ELSE g[n - 1] + IF n \in DOMAIN amounts THEN amounts[n] ELSE 0]
           sum == CHOOSE g : g = After(g)
<1>1. MaxRows \in Nat
  BY LedgerAssumption
<1>2. f = After(f)
  <2>1. ASSUME NEW n \in 0..MaxRows PROVE f[n] = After(f)[n]
    BY <1>1 DEF SumsUp, Amount, Ids
  <2>2. QED BY <2>1
<1>3. SumOver(amounts) = sum[MaxRows]
  BY DEF SumOver
<1>4. sum = After(sum)
  BY <1>2
<1> HIDE DEF sum
<1>5. SumsUp(sum, amounts)
  <2>1. sum[0] = 0
    BY <1>1, <1>4
  <2>2. ASSUME NEW n \in Ids PROVE sum[n] = sum[n - 1] + Amount(amounts, n)
    <3>1. n \in 0..MaxRows /\ n # 0
      BY <1>1 DEF Ids
    <3>2. QED BY <1>4, <3>1 DEF Amount
  <2>3. QED BY <2>1, <2>2 DEF SumsUp
<1>6. sum \in [0..MaxRows -> Nat]
  <2> DEFINE S == {n \in Nat : n <= MaxRows => sum[n] \in Nat}
  <2>1. 0 \in S
    BY <1>5 DEF SumsUp
  <2>2. ASSUME NEW n \in S PROVE n + 1 \in S
    <3> SUFFICES ASSUME n + 1 <= MaxRows PROVE sum[n + 1] \in Nat
      OBVIOUS
    <3>1. n + 1 \in Ids /\ (n + 1) - 1 = n /\ sum[n] \in Nat
      BY <1>1 DEF Ids
    <3>2. Amount(amounts, n + 1) \in Nat
      BY <3>1 DEF AreAmounts
    <3>3. sum[n + 1] = sum[n] + Amount(amounts, n + 1)
      BY <1>5, <3>1 DEF SumsUp
    <3>4. QED BY <3>1, <3>2, <3>3
  <2>3. Nat = S
    <3>1. S \in SUBSET Nat
      OBVIOUS
    <3> HIDE DEF S
    <3>2. QED BY <2>1, <2>2, <3>1, EveryNumber
  <2>4. \A n \in 0..MaxRows : sum[n] \in Nat
    BY <1>1, <2>3
  <2>5. DOMAIN sum = 0..MaxRows /\ sum = [n \in 0..MaxRows |-> sum[n]]
    BY <1>4
  <2>6. QED BY <2>4, <2>5
<1>7. sum[MaxRows] = f[MaxRows]
  BY <1>1, <1>5, <1>6, SumsAgree
<1>8. QED BY <1>1, <1>3, <1>7

\* A sum of amounts is a number.
LEMMA SumNat ==
    ASSUME NEW amounts, AreAmounts(amounts)
    PROVE  SumOver(amounts) \in Nat
BY SumsExist, SumIs

\* Amounts that are all zero add up to zero.
LEMMA SumZero ==
    ASSUME NEW amounts, \A n \in Ids : Amount(amounts, n) = 0
    PROVE  SumOver(amounts) = 0
<1> DEFINE f == [n \in 0..MaxRows |-> 0]
<1>1. MaxRows \in Nat
  BY LedgerAssumption
<1>2. f \in [0..MaxRows -> Nat] /\ AreAmounts(amounts)
  BY DEF AreAmounts
<1>3. SumsUp(f, amounts)
  BY <1>1 DEF SumsUp, Ids
<1>4. f[MaxRows] = 0
  BY <1>1
<1> HIDE DEF f
<1>5. QED BY <1>2, <1>3, <1>4, SumIs

\* One amount alone is its sum.
LEMMA SumSingle ==
    ASSUME NEW amounts, NEW k \in Ids, NEW v \in Nat,
           \A n \in Ids : Amount(amounts, n) = IF n = k THEN v ELSE 0
    PROVE  SumOver(amounts) = v
<1> DEFINE f == [n \in 0..MaxRows |-> IF n < k THEN 0 ELSE v]
<1>1. MaxRows \in Nat
  BY LedgerAssumption
<1>2. f \in [0..MaxRows -> Nat] /\ AreAmounts(amounts)
  BY DEF AreAmounts
<1>3. SumsUp(f, amounts)
  BY <1>1 DEF SumsUp, Ids
<1>4. f[MaxRows] = v
  BY <1>1 DEF Ids
<1> HIDE DEF f
<1>5. QED BY <1>2, <1>3, <1>4, SumIs

\* Amounts that are split in two have the sums of both.
LEMMA SumSplit ==
    ASSUME NEW amounts, NEW left, NEW right, AreAmounts(left), AreAmounts(right),
           \A n \in Ids : Amount(amounts, n) = Amount(left, n) + Amount(right, n)
    PROVE  SumOver(amounts) = SumOver(left) + SumOver(right)
<1>1. MaxRows \in Nat
  BY LedgerAssumption
<1>2. PICK f \in [0..MaxRows -> Nat] : SumsUp(f, left)
  BY SumsExist
<1>3. PICK g \in [0..MaxRows -> Nat] : SumsUp(g, right)
  BY SumsExist
<1> DEFINE h == [n \in 0..MaxRows |-> f[n] + g[n]]
<1>4. h \in [0..MaxRows -> Nat] /\ AreAmounts(amounts)
  BY <1>2, <1>3 DEF AreAmounts
<1>5. SumsUp(h, amounts)
  <2>1. h[0] = 0
    BY <1>1, <1>2, <1>3 DEF SumsUp
  <2>2. ASSUME NEW n \in Ids PROVE h[n] = h[n - 1] + Amount(amounts, n)
    <3>1. n \in 0..MaxRows /\ n - 1 \in 0..MaxRows
      BY <1>1 DEF Ids
    <3>2. /\ f[n] = f[n - 1] + Amount(left, n) /\ g[n] = g[n - 1] + Amount(right, n)
          /\ f[n - 1] \in Nat /\ g[n - 1] \in Nat
          /\ Amount(left, n) \in Nat /\ Amount(right, n) \in Nat
      BY <1>2, <1>3, <3>1 DEF SumsUp, AreAmounts
    <3>3. h[n] = f[n] + g[n] /\ h[n - 1] = f[n - 1] + g[n - 1]
      BY <3>1
    <3> HIDE DEF h
    <3>4. QED BY <3>2, <3>3
  <2>3. QED BY <2>1, <2>2 DEF SumsUp
<1>6. h[MaxRows] = f[MaxRows] + g[MaxRows]
  BY <1>1
<1> HIDE DEF h
<1>7. QED BY <1>2, <1>3, <1>4, <1>5, <1>6, SumIs

-----------------------------------------------------------------------------
(***************************************************************************)
(* The accounts.  The totals of an account cover the logs it still has and *)
(* the logs that were pruned, and they leave room for those still pending, *)
(* which is why MAX(0, ...) in the UPDATE never cuts anything off.         *)
(***************************************************************************)
RowsOf(a) == {id \in DOMAIN logs : logs[id].account = a}
PendingOf(a) == {id \in RowsOf(a) : logs[id].cost = Pending}
Lowers(ids) == [id \in ids |-> LowerOf(logs[id].cost)]
Uppers(ids) == [id \in ids |-> UpperOf(logs[id].cost)]

AccountsTyped ==
    /\ ended \subseteq Backfills
    /\ \A id \in DOMAIN logs : logs[id].account \in Accounts \cup {NoAccount}
    /\ DOMAIN totals \subseteq Accounts
    /\ \A a \in DOMAIN totals : totals[a] \in Totals
    /\ \A a \in Accounts : pruned[a].lower \in Nat /\ pruned[a].upper \in Nat

\* The account of a selected row is the account of the log, unless it was deleted since.
AccountsAgree ==
    \A b \in Backfills : \A id \in DOMAIN batches[b] \cap DOMAIN logs :
        \/ batches[b][id].account = logs[id].account
        \/ logs[id].account = NoAccount /\ batches[b][id].account \notin DOMAIN totals

PendingFits(a) ==
    totals[a].complete + totals[a].partial + Cardinality(PendingOf(a)) <= totals[a].requests
Partitions(a) ==
    totals[a].complete + totals[a].partial + totals[a].unpriced = totals[a].requests
AddsUp(a) ==
    /\ totals[a].lower = pruned[a].lower + SumOver(Lowers(RowsOf(a)))
    /\ totals[a].upper = pruned[a].upper + SumOver(Uppers(RowsOf(a)))
Balanced(a) == PendingFits(a) /\ Partitions(a) /\ AddsUp(a)

AccountsInv == AccountsTyped /\ AccountsAgree /\ \A a \in DOMAIN totals : Balanced(a)

\* Every estimate is a cost of at least nothing, and is not pending.
LEMMA CostsNat ==
    ASSUME NEW r \in Requests
    PROVE  /\ LowerOf(CostOf[r]) \in Nat /\ UpperOf(CostOf[r]) \in Nat
           /\ CostOf[r] # Pending
<1>1. CostOf[r] = Estimate(r.model, r.usage) /\ r.usage \in Usage
  BY LedgerAssumption DEF CostOf
<1>2. /\ CostOf[r].status # "pending"
      /\ IsPriced(CostOf[r]) => CostOf[r].lower \in Nat /\ CostOf[r].upper \in Nat
  BY <1>1, EstimateShape
<1>3. QED BY <1>2 DEF LowerOf, UpperOf, Pending, Unpriced

\* A pending log costs nothing yet.
LEMMA PendingIsFree == LowerOf(Pending) = 0 /\ UpperOf(Pending) = 0
BY DEF LowerOf, UpperOf, Pending, Unpriced, IsPriced

\* The costs of logs are amounts.
LEMMA LogAmounts ==
    ASSUME LedgerInv, NEW ids \in SUBSET DOMAIN logs
    PROVE  AreAmounts(Lowers(ids)) /\ AreAmounts(Uppers(ids))
<1>1. ASSUME NEW id \in DOMAIN logs
      PROVE  LowerOf(logs[id].cost) \in Nat /\ UpperOf(logs[id].cost) \in Nat
  <2>1. logs[id].request \in Requests
    BY DEF LedgerInv, LogsPriced
  <2>2. CASE logs[id].cost = Pending
    BY <2>2, PendingIsFree
  <2>3. CASE logs[id].cost = CostOf[logs[id].request]
    BY <2>1, <2>3, CostsNat
  <2>4. QED BY <2>2, <2>3 DEF LedgerInv, LogsPriced, EstimateOf
<1>2. QED BY <1>1 DEF AreAmounts, Amount, Lowers, Uppers

\* Sets of ids are finite.
LEMMA IdsFinite ==
    ASSUME LedgerInv, NEW ids \in SUBSET DOMAIN logs
    PROVE  IsFiniteSet(ids) /\ Cardinality(ids) \in Nat /\ ids \subseteq Ids
<1>1. ids \subseteq 1..MaxRows /\ MaxRows \in Nat
  BY LedgerAssumption DEF LedgerInv, IdsGiven
<1>2. IsFiniteSet(1..MaxRows)
  BY <1>1, FS_Interval
<1>3. IsFiniteSet(ids)
  BY <1>1, <1>2, FS_Subset
<1>4. QED BY <1>1, <1>3, FS_CardinalityType DEF Ids

\* An account whose totals and logs a step leaves alone stays balanced.
LEMMA KeepsBalanced ==
    ASSUME NEW a, Balanced(a), totals'[a] = totals[a], pruned'[a] = pruned[a],
           RowsOf(a)' = RowsOf(a),
           \A id \in RowsOf(a) : logs'[id].cost = logs[id].cost
    PROVE  Balanced(a)'
<1>1. PendingOf(a)' = PendingOf(a)
  BY DEF PendingOf
<1>2. Lowers(RowsOf(a))' = Lowers(RowsOf(a)) /\ Uppers(RowsOf(a))' = Uppers(RowsOf(a))
  BY DEF Lowers, Uppers
<1>3. QED BY <1>1, <1>2 DEF Balanced, PendingFits, Partitions, AddsUp

\* The migration starts with every request unpriced and nothing charged.
LEMMA InitAccounts == Init => AccountsInv
<1> SUFFICES ASSUME Init PROVE AccountsInv
  OBVIOUS
<1>1. PICK old \in OldLogs :
        /\ logs = [id \in DOMAIN old |->
                     [account |-> old[id].account, request |-> old[id].request, cost |-> Pending]]
        /\ totals = [a \in Accounts |->
              LET count == OldPruned + Cardinality({id \in DOMAIN old : old[id].account = a})
              IN  [requests |-> count, lower |-> 0, upper |-> 0,
                   complete |-> 0, partial |-> 0, unpriced |-> count]]
  BY DEF Init
<1>2. \A id \in DOMAIN logs : logs[id].account = old[id].account /\ logs[id].cost = Pending
  BY <1>1
<1>3. LedgerInv
  BY InitInv
<1>4. ASSUME NEW a \in Accounts PROVE totals[a] \in Totals /\ Balanced(a)
  <2> DEFINE mine == {id \in DOMAIN old : old[id].account = a}
             count == OldPruned + Cardinality(mine)
  <2>1. mine = RowsOf(a) /\ mine = PendingOf(a) /\ DOMAIN old = DOMAIN logs
    BY <1>1, <1>2 DEF RowsOf, PendingOf
  <2>2. Cardinality(mine) \in Nat
    BY <1>3, <2>1, IdsFinite
  <2>3. count \in Nat /\ Cardinality(mine) <= count
    BY <2>2, LedgerAssumption
  <2>4. totals[a] = [requests |-> count, lower |-> 0, upper |-> 0,
                     complete |-> 0, partial |-> 0, unpriced |-> count]
    BY <1>1
  <2> HIDE DEF mine, count
  <2>5. totals[a] \in Totals
    BY <2>3, <2>4 DEF Totals
  <2>6. SumOver(Lowers(RowsOf(a))) = 0 /\ SumOver(Uppers(RowsOf(a))) = 0
    <3>1. \A n \in Ids : Amount(Lowers(RowsOf(a)), n) = 0 /\ Amount(Uppers(RowsOf(a)), n) = 0
      BY <1>2, PendingIsFree DEF Amount, Lowers, Uppers, RowsOf
    <3>2. QED BY <3>1, SumZero
  <2>7. pruned[a].lower = 0 /\ pruned[a].upper = 0
    BY DEF Init
  <2>8. PendingFits(a)
    BY <2>1, <2>2, <2>3, <2>4 DEF PendingFits
  <2>9. Partitions(a)
    BY <2>3, <2>4 DEF Partitions
  <2>10. AddsUp(a)
    BY <2>4, <2>6, <2>7 DEF AddsUp
  <2>11. QED BY <2>5, <2>8, <2>9, <2>10 DEF Balanced
<1>5. AccountsTyped
  <2>1. \A a \in Accounts : pruned[a].lower \in Nat /\ pruned[a].upper \in Nat
    BY DEF Init
  <2>2. \A id \in DOMAIN logs : logs[id].account \in Accounts
    BY <1>1, LedgerAssumption
  <2>3. QED BY <1>1, <1>4, <2>1, <2>2 DEF AccountsTyped, Init
<1>6. AccountsAgree
  BY NoRowsEmpty DEF Init, AccountsAgree
<1>7. QED BY <1>1, <1>4, <1>5, <1>6 DEF AccountsInv

\* A request is counted and charged to its account as it is logged.
LEMMA InsertAccounts ==
    ASSUME LedgerInv, AccountsInv, NEW acc \in Accounts, NEW r \in Requests,
           InsertRequestLog(acc, r)
    PROVE  AccountsInv'
<1> DEFINE id0 == lastId + 1
           cost == CostOf[r]
           one == IF cost.status = "complete" THEN 1 ELSE 0
           part == IF cost.status = "missing_cache_write" THEN 1 ELSE 0
           none == IF IsPriced(cost) THEN 0 ELSE 1
<1>1. /\ lastId + 1 <= MaxRows /\ acc \in DOMAIN totals
      /\ UNCHANGED <<batches, ended, pruned>>
      /\ logs' = [id \in DOMAIN logs \cup {id0} |->
                    IF id \in DOMAIN logs THEN logs[id]
                    ELSE [account |-> acc, request |-> r, cost |-> cost]]
  BY DEF InsertRequestLog, NextId
<1>2. id0 \in Ids /\ id0 \notin DOMAIN logs /\ \A b \in Backfills : id0 \notin DOMAIN batches[b]
  BY <1>1, LedgerAssumption DEF LedgerInv, IdsGiven, Ids
<1>3. /\ DOMAIN logs' = DOMAIN logs \cup {id0}
      /\ \A id \in DOMAIN logs : logs'[id] = logs[id]
      /\ logs'[id0].account = acc /\ logs'[id0].cost = cost
  BY <1>1, <1>2
<1>4. DOMAIN totals' = DOMAIN totals /\ \A a \in DOMAIN totals : a # acc => totals'[a] = totals[a]
  BY DEF InsertRequestLog
<1>5. totals[acc] \in Totals
  BY <1>1 DEF AccountsInv, AccountsTyped
<1>6. /\ totals'[acc].requests = totals[acc].requests + 1
      /\ totals'[acc].lower = totals[acc].lower + LowerOf(cost)
      /\ totals'[acc].upper = totals[acc].upper + UpperOf(cost)
      /\ totals'[acc].complete = totals[acc].complete + one
      /\ totals'[acc].partial = totals[acc].partial + part
      /\ totals'[acc].unpriced = totals[acc].unpriced + none
      /\ DOMAIN totals'[acc] = DOMAIN totals[acc]
  BY <1>1, <1>5 DEF InsertRequestLog, Totals
<1>7. /\ LowerOf(cost) \in Nat /\ UpperOf(cost) \in Nat /\ cost # Pending
      /\ one \in Nat /\ part \in Nat /\ none \in Nat /\ one + part + none = 1
  BY CostsNat DEF IsPriced
<1> HIDE DEF id0, cost, one, part, none
<1>8. totals'[acc] \in Totals
  <2>2. totals'[acc] = [k \in DOMAIN totals[acc] |-> totals'[acc][k]]
    BY <1>1, <1>5 DEF InsertRequestLog, Totals
  <2>3. /\ totals'[acc].requests \in Nat /\ totals'[acc].lower \in Nat
        /\ totals'[acc].upper \in Nat /\ totals'[acc].complete \in Nat
        /\ totals'[acc].partial \in Nat /\ totals'[acc].unpriced \in Nat
    BY <1>5, <1>6, <1>7 DEF Totals
  <2>4. DOMAIN totals[acc] = {"requests", "lower", "upper", "complete", "partial", "unpriced"}
    BY <1>5 DEF Totals
  <2>5. QED BY <2>2, <2>3, <2>4 DEF Totals
<1>9. ASSUME NEW a \in DOMAIN totals, a # acc PROVE Balanced(a)'
  <2>1. RowsOf(a)' = RowsOf(a) /\ RowsOf(a) \subseteq DOMAIN logs
    BY <1>3, <1>9 DEF RowsOf
  <2>2. Balanced(a) /\ totals'[a] = totals[a] /\ pruned'[a] = pruned[a]
    BY <1>1, <1>4, <1>9 DEF AccountsInv
  <2>3. QED BY <1>3, <2>1, <2>2, KeepsBalanced
<1>10. Balanced(acc)'
  <2>1. /\ RowsOf(acc)' = RowsOf(acc) \cup {id0} /\ id0 \notin RowsOf(acc)
        /\ RowsOf(acc) \subseteq DOMAIN logs
    BY <1>2, <1>3 DEF RowsOf
  <2>2. PendingOf(acc)' = PendingOf(acc)
    BY <1>3, <1>7, <2>1 DEF PendingOf
  <2>3. Balanced(acc)
    BY <1>1 DEF AccountsInv
  <2>4. PendingOf(acc) \subseteq DOMAIN logs
    BY <2>1 DEF PendingOf
  <2>5. Cardinality(PendingOf(acc)) \in Nat
    BY <2>4, IdsFinite
  <2>6. PendingFits(acc)' /\ Partitions(acc)'
    <3>1. /\ totals[acc].requests \in Nat /\ totals[acc].complete \in Nat
          /\ totals[acc].partial \in Nat /\ totals[acc].unpriced \in Nat
      BY <1>5 DEF Totals
    <3>2. Cardinality(PendingOf(acc)') = Cardinality(PendingOf(acc))
      BY <2>2
    <3>3. PendingFits(acc)'
      BY <1>6, <1>7, <2>3, <2>5, <3>1, <3>2 DEF Balanced, PendingFits
    <3>4. Partitions(acc)'
      <4>1. Partitions(acc)
        BY <2>3 DEF Balanced
      <4>2. \A c, p, u, q, x, y, z \in Nat :
              c + p + u = q /\ x + y + z = 1 => (c + x) + (p + y) + (u + z) = q + 1
        OBVIOUS
      <4>3. QED BY <1>6, <1>7, <3>1, <4>1, <4>2 DEF Partitions
    <3>5. QED BY <3>3, <3>4
  <2> DEFINE newLower == [id \in {id0} |-> LowerOf(cost)]
             newUpper == [id \in {id0} |-> UpperOf(cost)]
  <2>7. /\ AreAmounts(newLower) /\ AreAmounts(newUpper)
        /\ SumOver(newLower) = LowerOf(cost) /\ SumOver(newUpper) = UpperOf(cost)
    <3>1. /\ DOMAIN newLower = {id0} /\ newLower[id0] = LowerOf(cost)
          /\ DOMAIN newUpper = {id0} /\ newUpper[id0] = UpperOf(cost)
      OBVIOUS
    <3> HIDE DEF newLower, newUpper
    <3>2. /\ \A n \in Ids : Amount(newLower, n) = IF n = id0 THEN LowerOf(cost) ELSE 0
          /\ \A n \in Ids : Amount(newUpper, n) = IF n = id0 THEN UpperOf(cost) ELSE 0
      BY <3>1 DEF Amount
    <3>3. SumOver(newLower) = LowerOf(cost)
      BY <1>2, <1>7, <3>2, SumSingle
    <3>4. SumOver(newUpper) = UpperOf(cost)
      BY <1>2, <1>7, <3>2, SumSingle
    <3>5. AreAmounts(newLower) /\ AreAmounts(newUpper)
      BY <1>7, <3>2 DEF AreAmounts
    <3>6. QED BY <3>3, <3>4, <3>5
  <2>8. AreAmounts(Lowers(RowsOf(acc))) /\ AreAmounts(Uppers(RowsOf(acc)))
    BY <2>1, LogAmounts
  <2>9. \A n \in Ids :
          /\ Amount(Lowers(RowsOf(acc))', n) = Amount(Lowers(RowsOf(acc)), n) + Amount(newLower, n)
          /\ Amount(Uppers(RowsOf(acc))', n) = Amount(Uppers(RowsOf(acc)), n) + Amount(newUpper, n)
    <3>1. ASSUME NEW n \in Ids
          PROVE  /\ Amount(Lowers(RowsOf(acc)), n) \in Nat
                 /\ Amount(Uppers(RowsOf(acc)), n) \in Nat
      BY <2>8 DEF AreAmounts
    <3>2. QED BY <1>3, <1>7, <2>1, <3>1 DEF Amount, Lowers, Uppers
  <2> HIDE DEF newLower, newUpper
  <2>10. /\ SumOver(Lowers(RowsOf(acc))') = SumOver(Lowers(RowsOf(acc))) + LowerOf(cost)
         /\ SumOver(Uppers(RowsOf(acc))') = SumOver(Uppers(RowsOf(acc))) + UpperOf(cost)
    BY <2>7, <2>8, <2>9, SumSplit
  <2>11. SumOver(Lowers(RowsOf(acc))) \in Nat /\ SumOver(Uppers(RowsOf(acc))) \in Nat
    BY <2>8, SumNat
  <2>12. AddsUp(acc)'
    <3>1. pruned'[acc] = pruned[acc] /\ pruned[acc].lower \in Nat /\ pruned[acc].upper \in Nat
      BY <1>1 DEF AccountsInv, AccountsTyped
    <3>2. QED BY <1>6, <1>7, <2>3, <2>10, <2>11, <3>1 DEF Balanced, AddsUp
  <2>13. QED BY <2>6, <2>12 DEF Balanced
<1>11. AccountsTyped'
  BY <1>1, <1>3, <1>4, <1>8 DEF AccountsInv, AccountsTyped
<1>12. AccountsAgree'
  BY <1>1, <1>2, <1>3, <1>4 DEF AccountsInv, AccountsAgree
<1>13. QED BY <1>4, <1>9, <1>10, <1>11, <1>12 DEF AccountsInv

\* Selecting rows changes neither logs nor totals.
LEMMA SelectAccounts ==
    ASSUME LedgerInv, AccountsInv, NEW b \in Backfills, SelectBatch(b)
    PROVE  AccountsInv'
<1>1. /\ batches' = [batches EXCEPT ![b] = Rows(NextBatch, logs)]
      /\ ended' \in {ended, ended \cup {b}}
      /\ UNCHANGED <<logs, lastId, totals, pruned>>
  BY DEF SelectBatch
<1>2. NextBatch \subseteq DOMAIN logs
  BY DEF NextBatch, PendingIds
<1>3. /\ DOMAIN Rows(NextBatch, logs) = NextBatch
      /\ \A id \in NextBatch : Rows(NextBatch, logs)[id] = logs[id]
  BY DEF Rows
<1>4. AccountsTyped'
  BY <1>1 DEF AccountsInv, AccountsTyped
<1>5. AccountsAgree'
  BY <1>1, <1>2, <1>3 DEF LedgerInv, AccountsInv, AccountsAgree
<1>6. ASSUME NEW a \in DOMAIN totals PROVE Balanced(a)'
  <2>1. Balanced(a) /\ RowsOf(a)' = RowsOf(a)
    BY <1>1 DEF AccountsInv, RowsOf
  <2>2. QED BY <1>1, <2>1, KeepsBalanced
<1>7. QED BY <1>1, <1>4, <1>5, <1>6 DEF AccountsInv

\* Neither does dropping them.
LEMMA DropAccounts ==
    ASSUME LedgerInv, AccountsInv, NEW b \in Backfills,
           batches' = [batches EXCEPT ![b] = NoRows], ended' \subseteq Backfills,
           UNCHANGED <<logs, lastId, totals, pruned>>
    PROVE  AccountsInv'
<1>1. AccountsTyped'
  BY DEF AccountsInv, AccountsTyped
<1>2. AccountsAgree'
  BY NoRowsEmpty DEF LedgerInv, AccountsInv, AccountsAgree
<1>3. ASSUME NEW a \in DOMAIN totals PROVE Balanced(a)'
  <2>1. Balanced(a) /\ RowsOf(a)' = RowsOf(a)
    BY DEF AccountsInv, RowsOf
  <2>2. QED BY <2>1, KeepsBalanced
<1>4. QED BY <1>1, <1>2, <1>3 DEF AccountsInv

\* Deleting an account takes its totals along and leaves those of the others alone.
LEMMA DeleteAccounts ==
    ASSUME LedgerInv, AccountsInv, NEW gone \in Accounts, DeleteAccount(gone)
    PROVE  AccountsInv'
<1>1. /\ totals' = [a \in DOMAIN totals \ {gone} |-> totals[a]]
      /\ UNCHANGED <<lastId, batches, ended, pruned>>
      /\ logs' = [id \in DOMAIN logs |->
                    IF logs[id].account = gone THEN [logs[id] EXCEPT !.account = NoAccount]
                    ELSE logs[id]]
  BY DEF DeleteAccount
<1>2. /\ DOMAIN logs' = DOMAIN logs
      /\ \A id \in DOMAIN logs : logs'[id].cost = logs[id].cost
      /\ \A id \in DOMAIN logs : logs[id].account # gone => logs'[id] = logs[id]
  BY <1>1
<1>3. \A id \in DOMAIN logs : logs[id].account = gone => logs'[id].account \in {gone, NoAccount}
  BY <1>1
<1>4. AccountsTyped'
  BY <1>1, <1>2, <1>3 DEF AccountsInv, AccountsTyped
<1>5. ASSUME NEW a \in DOMAIN totals' PROVE Balanced(a)'
  <2>1. a # gone /\ a \in DOMAIN totals /\ a # NoAccount /\ totals'[a] = totals[a]
    BY <1>1, LedgerAssumption DEF AccountsInv, AccountsTyped
  <2>2. RowsOf(a)' = RowsOf(a) /\ RowsOf(a) \subseteq DOMAIN logs
    BY <1>2, <1>3, <2>1 DEF RowsOf
  <2>3. QED BY <1>1, <1>2, <2>1, <2>2, KeepsBalanced DEF AccountsInv
<1>6. AccountsAgree'
  <2>1. ASSUME NEW b \in Backfills, NEW id \in DOMAIN batches[b] \cap DOMAIN logs
        PROVE  \/ batches[b][id].account = logs'[id].account
               \/ logs'[id].account = NoAccount /\ batches[b][id].account \notin DOMAIN totals'
    BY <1>1, <1>2, <1>3 DEF AccountsInv, AccountsAgree
  <2>2. QED BY <1>1, <1>2, <2>1 DEF AccountsAgree
<1>7. QED BY <1>4, <1>5, <1>6 DEF AccountsInv

\* Pruning moves the cost of logs from the table to what was pruned.
LEMMA PruneAccounts ==
    ASSUME LedgerInv, AccountsInv, NEW upTo \in Ids, Prune(upTo)
    PROVE  AccountsInv'
<1> DEFINE old == {id \in DOMAIN logs : id <= upTo}
           Of(a) == {id \in old : logs[id].account = a}
<1>1. /\ logs' = Rows(DOMAIN logs \ old, logs)
      /\ UNCHANGED <<lastId, totals, batches, ended>>
  BY DEF Prune
<1>2. /\ DOMAIN logs' = DOMAIN logs \ old
      /\ \A id \in DOMAIN logs' : logs'[id] = logs[id]
  BY <1>1 DEF Rows
<1>3. \A a \in Accounts :
        /\ pruned'[a].lower = pruned[a].lower + SumOver(Lowers(Of(a)))
        /\ pruned'[a].upper = pruned[a].upper + SumOver(Uppers(Of(a)))
  BY DEF Prune, Lowers, Uppers
<1>4. \A a : Of(a) \in SUBSET RowsOf(a) /\ RowsOf(a) \in SUBSET DOMAIN logs
             /\ RowsOf(a)' = RowsOf(a) \ Of(a)
  BY <1>2 DEF RowsOf
<1> HIDE DEF Of, old
<1>5. ASSUME NEW a \in Accounts
      PROVE  /\ AreAmounts(Lowers(Of(a))) /\ AreAmounts(Uppers(Of(a)))
             /\ SumOver(Lowers(Of(a))) \in Nat /\ SumOver(Uppers(Of(a))) \in Nat
  <2>1. Of(a) \in SUBSET DOMAIN logs
    BY <1>4
  <2>2. AreAmounts(Lowers(Of(a))) /\ AreAmounts(Uppers(Of(a)))
    BY <2>1, LogAmounts
  <2>3. QED BY <2>2, SumNat
<1>6. AccountsTyped'
  <2>1. \A a \in Accounts : pruned'[a].lower \in Nat /\ pruned'[a].upper \in Nat
    BY <1>3, <1>5 DEF AccountsInv, AccountsTyped
  <2>2. QED BY <1>1, <1>2, <2>1 DEF AccountsInv, AccountsTyped
<1>7. AccountsAgree'
  BY <1>1, <1>2 DEF AccountsInv, AccountsAgree
<1>8. ASSUME NEW a \in DOMAIN totals PROVE Balanced(a)'
  <2>1. a \in Accounts /\ Balanced(a) /\ totals[a] \in Totals /\ totals'[a] = totals[a]
    BY <1>1 DEF AccountsInv, AccountsTyped
  <2>2. PendingFits(a)'
    <3>1. PendingOf(a)' \subseteq PendingOf(a) /\ PendingOf(a) \subseteq DOMAIN logs
      BY <1>2, <1>4 DEF PendingOf, RowsOf
    <3>2. IsFiniteSet(PendingOf(a)) /\ Cardinality(PendingOf(a)) \in Nat
      BY <3>1, IdsFinite
    <3>3. IsFiniteSet(PendingOf(a)') /\ Cardinality(PendingOf(a)') <= Cardinality(PendingOf(a))
      BY <3>1, <3>2, FS_Subset
    <3>4. Cardinality(PendingOf(a)') \in Nat
      BY <3>3, FS_CardinalityType
    <3>5. PendingFits(a) /\ totals[a].complete \in Nat /\ totals[a].partial \in Nat
          /\ totals[a].requests \in Nat
      BY <2>1 DEF Balanced, Totals
    <3>6. QED BY <2>1, <3>2, <3>3, <3>4, <3>5 DEF PendingFits
  <2>3. Partitions(a)'
    BY <2>1 DEF Balanced, Partitions
  <2>4. AddsUp(a)'
    <3>1. /\ Of(a) \subseteq DOMAIN logs /\ RowsOf(a)' \subseteq DOMAIN logs
          /\ RowsOf(a)' \subseteq DOMAIN logs'
      BY <1>4 DEF RowsOf
    <3> DEFINE kept == Lowers(RowsOf(a))'
               keptUpper == Uppers(RowsOf(a))'
    <3>2. /\ DOMAIN kept = RowsOf(a) \ Of(a) /\ DOMAIN keptUpper = RowsOf(a) \ Of(a)
          /\ \A id \in RowsOf(a) \ Of(a) : /\ kept[id] = LowerOf(logs[id].cost)
                                           /\ keptUpper[id] = UpperOf(logs[id].cost)
      BY <1>2, <1>4, <3>1 DEF Lowers, Uppers
    <3>3. AreAmounts(kept) /\ AreAmounts(keptUpper)
      <4>1. AreAmounts(Lowers(RowsOf(a))) /\ AreAmounts(Uppers(RowsOf(a)))
        BY <1>4, LogAmounts
      <4> HIDE DEF kept, keptUpper
      <4>2. QED BY <3>2, <4>1 DEF AreAmounts, Amount, Lowers, Uppers
    <3> HIDE DEF kept, keptUpper
    <3>4. \A n \in Ids :
            /\ Amount(Lowers(RowsOf(a)), n) = Amount(kept, n) + Amount(Lowers(Of(a)), n)
            /\ Amount(Uppers(RowsOf(a)), n) = Amount(keptUpper, n) + Amount(Uppers(Of(a)), n)
      <4> SUFFICES ASSUME NEW n \in Ids
                   PROVE  /\ Amount(Lowers(RowsOf(a)), n) = Amount(kept, n) + Amount(Lowers(Of(a)), n)
                          /\ Amount(Uppers(RowsOf(a)), n) = Amount(keptUpper, n) + Amount(Uppers(Of(a)), n)
        OBVIOUS
      <4>1. /\ Amount(kept, n) \in Nat /\ Amount(keptUpper, n) \in Nat
            /\ Amount(Lowers(Of(a)), n) \in Nat /\ Amount(Uppers(Of(a)), n) \in Nat
        BY <1>5, <2>1, <3>3 DEF AreAmounts
      <4>2. QED BY <1>4, <3>2, <4>1 DEF Amount, Lowers, Uppers
    <3>5. /\ SumOver(Lowers(RowsOf(a))) = SumOver(kept) + SumOver(Lowers(Of(a)))
          /\ SumOver(Uppers(RowsOf(a))) = SumOver(keptUpper) + SumOver(Uppers(Of(a)))
      BY <1>5, <2>1, <3>3, <3>4, SumSplit
    <3>6. SumOver(kept) \in Nat /\ SumOver(keptUpper) \in Nat
      BY <3>3, SumNat
    <3>7. pruned[a].lower \in Nat /\ pruned[a].upper \in Nat
      BY <2>1 DEF AccountsInv, AccountsTyped
    <3>8. AddsUp(a)
      BY <2>1 DEF Balanced
    <3>9. /\ totals'[a].lower = pruned'[a].lower + SumOver(kept)
          /\ totals'[a].upper = pruned'[a].upper + SumOver(keptUpper)
      BY <1>3, <1>5, <2>1, <3>5, <3>6, <3>7, <3>8 DEF AddsUp
    <3>10. QED BY <3>9 DEF AddsUp, kept, keptUpper
  <2>5. QED BY <2>2, <2>3, <2>4 DEF Balanced
<1>9. QED BY <1>1, <1>6, <1>7, <1>8 DEF AccountsInv

\* The fields of the totals that a batch has been credited to.
LEMMA CreditedFields ==
    ASSUME NEW total \in Totals, NEW delta,
           delta.lower \in Nat, delta.upper \in Nat, delta.complete \in Nat, delta.partial \in Nat
    PROVE  LET new == Credited(total, delta)
           IN  /\ new \in Totals /\ new.requests = total.requests
               /\ new.lower = total.lower + delta.lower /\ new.upper = total.upper + delta.upper
               /\ new.complete = total.complete + delta.complete
               /\ new.partial = total.partial + delta.partial
               /\ new.unpriced = UnpricedAfter(total, delta)
<1> DEFINE new == Credited(total, delta)
<1>1. /\ total.requests \in Nat /\ total.lower \in Nat /\ total.upper \in Nat
      /\ total.complete \in Nat /\ total.partial \in Nat
  BY DEF Totals
<1>2. UnpricedAfter(total, delta) \in Nat
  BY <1>1 DEF UnpricedAfter
<1>3. /\ new.requests = total.requests
      /\ new.lower = total.lower + delta.lower /\ new.upper = total.upper + delta.upper
      /\ new.complete = total.complete + delta.complete
      /\ new.partial = total.partial + delta.partial
      /\ new.unpriced = UnpricedAfter(total, delta)
  BY DEF Credited, Totals
<1>4. new \in Totals
  <2>1. /\ new.lower \in Nat /\ new.upper \in Nat /\ new.complete \in Nat
        /\ new.partial \in Nat /\ new.unpriced \in Nat /\ new.requests \in Nat
    BY <1>1, <1>2, <1>3
  <2>2. QED BY <2>1 DEF Credited, Totals
<1>5. QED BY <1>3, <1>4

\* What a batch adds to an account: the amounts and the numbers of its rows.
LEMMA DeltaFields ==
    ASSUME LedgerInv, NEW b \in Backfills, NEW a,
           NEW C, C = CreditedRows(b, a)
    PROVE  LET d == DeltaOf(b, a)
               lowers == [id \in C |-> LowerOf(CostOf[logs[id].request])]
               uppers == [id \in C |-> UpperOf(CostOf[logs[id].request])]
           IN  /\ AreAmounts(lowers) /\ d.lower = SumOver(lowers) /\ d.lower \in Nat
               /\ AreAmounts(uppers) /\ d.upper = SumOver(uppers) /\ d.upper \in Nat
               /\ d.complete \in Nat /\ d.partial \in Nat
               /\ d.complete + d.partial <= Cardinality(C)
<1> DEFINE rows == Rows(C, batches[b])
           lowers == [id \in C |-> LowerOf(CostOf[logs[id].request])]
           uppers == [id \in C |-> UpperOf(CostOf[logs[id].request])]
           full == {id \in DOMAIN rows : EstimateOf(rows[id]).status = "complete"}
           part == {id \in DOMAIN rows : EstimateOf(rows[id]).status = "missing_cache_write"}
<1>1. C \subseteq DOMAIN logs /\ C \subseteq DOMAIN batches[b]
  BY DEF CreditedRows, UpdatedRows, PendingIds
<1>2. \A id \in C : logs[id].request \in Requests /\ batches[b][id].request = logs[id].request
  BY <1>1 DEF LedgerInv, LogsPriced, BatchesAgree
<1>3. DOMAIN rows = C /\ \A id \in C : EstimateOf(rows[id]) = CostOf[logs[id].request]
  BY <1>2 DEF Rows, EstimateOf
<1> HIDE DEF rows
<1>4. /\ [id \in DOMAIN rows |-> LowerOf(EstimateOf(rows[id]))] = lowers
      /\ [id \in DOMAIN rows |-> UpperOf(EstimateOf(rows[id]))] = uppers
  BY <1>3
<1>5. DeltaOf(b, a) = Delta(rows)
  BY DEF DeltaOf, rows
<1>6. /\ DeltaOf(b, a).lower = SumOver(lowers) /\ DeltaOf(b, a).upper = SumOver(uppers)
      /\ DeltaOf(b, a).complete = Cardinality(full) /\ DeltaOf(b, a).partial = Cardinality(part)
  BY <1>4, <1>5 DEF Delta
<1>7. AreAmounts(lowers) /\ AreAmounts(uppers)
  <2>1. \A id \in C : /\ LowerOf(CostOf[logs[id].request]) \in Nat
                      /\ UpperOf(CostOf[logs[id].request]) \in Nat
    BY <1>2, CostsNat
  <2>2. QED BY <2>1 DEF AreAmounts, Amount
<1>8. full \subseteq C /\ part \subseteq C /\ full \cap part = {}
  BY <1>3
<1> HIDE DEF lowers, uppers, full, part
<1>9. SumOver(lowers) \in Nat /\ SumOver(uppers) \in Nat
  BY <1>7, SumNat
<1>10. /\ Cardinality(full) \in Nat /\ Cardinality(part) \in Nat
       /\ Cardinality(full) + Cardinality(part) <= Cardinality(C)
  <2>1. IsFiniteSet(C) /\ IsFiniteSet(full) /\ IsFiniteSet(part)
        /\ Cardinality(full) \in Nat /\ Cardinality(part) \in Nat
    BY <1>1, <1>8, IdsFinite
  <2>2. Cardinality(full \cup part) = Cardinality(full) + Cardinality(part) - Cardinality({})
    BY <1>8, <2>1, FS_Union
  <2>3. Cardinality({}) = 0
    BY FS_EmptySet
  <2>4. Cardinality(full \cup part) <= Cardinality(C)
    BY <1>8, <2>1, FS_Subset
  <2>5. QED BY <2>1, <2>2, <2>3, <2>4
<1>11. QED BY <1>6, <1>7, <1>9, <1>10 DEF lowers, uppers

\* Of an account that is still there, a batch credits the updated rows that it has now.
LEMMA CreditedNow ==
    ASSUME LedgerInv, AccountsInv, NEW b \in Backfills, NEW a \in DOMAIN totals
    PROVE  CreditedRows(b, a) = {id \in UpdatedRows(b) : logs[id].account = a}
<1>1. a # NoAccount
  BY LedgerAssumption DEF AccountsInv, AccountsTyped
<1>2. \A id \in UpdatedRows(b) : id \in DOMAIN batches[b] \cap DOMAIN logs
  BY DEF UpdatedRows, PendingIds
<1>3. \A id \in UpdatedRows(b) : batches[b][id].account = a <=> logs[id].account = a
  BY <1>1, <1>2 DEF AccountsInv, AccountsAgree
<1>4. QED BY <1>3 DEF CreditedRows

\* A batch is credited with the rows that its own UPDATE has priced.
LEMMA CommitAccounts ==
    ASSUME LedgerInv, AccountsInv, NEW b \in Backfills, CommitBatch(b)
    PROVE  AccountsInv'
<1>1. /\ batches' = [batches EXCEPT ![b] = NoRows] /\ UNCHANGED <<lastId, pruned>>
      /\ ended' \in {ended, ended \cup {b}}
      /\ logs' = [id \in DOMAIN logs |->
                    IF id \in UpdatedRows(b)
                    THEN [logs[id] EXCEPT !.cost = EstimateOf(batches[b][id])] ELSE logs[id]]
      /\ totals' = [a \in DOMAIN totals |->
                    IF CreditedRows(b, a) = {} THEN totals[a] ELSE Credited(totals[a], DeltaOf(b, a))]
  BY DEF CommitBatch
<1>2. \A id \in UpdatedRows(b) : /\ id \in DOMAIN logs /\ id \in DOMAIN batches[b]
                                 /\ logs[id].cost = Pending /\ logs[id].request \in Requests
                                 /\ batches[b][id].request = logs[id].request
  BY DEF UpdatedRows, PendingIds, LedgerInv, BatchesAgree, LogsPriced
<1>3. /\ DOMAIN logs' = DOMAIN logs
      /\ \A id \in DOMAIN logs : logs'[id].account = logs[id].account
      /\ \A id \in DOMAIN logs : id \notin UpdatedRows(b) => logs'[id] = logs[id]
  BY <1>1
<1>4. \A id \in UpdatedRows(b) : logs'[id].cost = CostOf[logs[id].request]
  <2>1. \A id \in UpdatedRows(b) : "cost" \in DOMAIN logs[id]
    BY <1>2 DEF LedgerInv, LogsPriced
  <2>2. QED BY <1>1, <1>2, <2>1 DEF EstimateOf
<1>5. ASSUME NEW a \in DOMAIN totals PROVE totals'[a] \in Totals /\ Balanced(a)'
  <2> DEFINE C == CreditedRows(b, a)
  <2>1. a \in Accounts /\ Balanced(a) /\ totals[a] \in Totals /\ pruned'[a] = pruned[a]
    BY <1>1 DEF AccountsInv, AccountsTyped
  <2>2. C = {id \in UpdatedRows(b) : logs[id].account = a}
    BY CreditedNow
  <2>3. RowsOf(a)' = RowsOf(a) /\ RowsOf(a) \in SUBSET DOMAIN logs
    BY <1>3 DEF RowsOf
  <2>4. C \subseteq RowsOf(a) /\ C \subseteq PendingOf(a)
    BY <1>2, <2>2 DEF RowsOf, PendingOf
  <2>5. /\ \A id \in RowsOf(a) \ C : logs'[id] = logs[id]
        /\ \A id \in C : logs'[id].cost = CostOf[logs[id].request] /\ logs[id].cost = Pending
                        /\ logs[id].request \in Requests
    BY <1>2, <1>3, <1>4, <2>2, <2>3 DEF RowsOf
  <2> HIDE DEF C
  <2>6. CASE C = {}
    <3>1. totals'[a] = totals[a]
      BY <1>1, <2>6 DEF C
    <3>2. QED BY <2>1, <2>3, <2>5, <2>6, <3>1, KeepsBalanced
  <2>7. CASE C # {}
    <3> DEFINE d == DeltaOf(b, a)
               lowers == [id \in C |-> LowerOf(CostOf[logs[id].request])]
               uppers == [id \in C |-> UpperOf(CostOf[logs[id].request])]
    <3>1. /\ AreAmounts(lowers) /\ d.lower = SumOver(lowers) /\ d.lower \in Nat
          /\ AreAmounts(uppers) /\ d.upper = SumOver(uppers) /\ d.upper \in Nat
          /\ d.complete \in Nat /\ d.partial \in Nat
          /\ d.complete + d.partial <= Cardinality(C)
      BY DeltaFields DEF C
    <3>2. totals'[a] = Credited(totals[a], d)
      BY <1>1, <2>7 DEF C
    <3> HIDE DEF d
    <3>3. /\ totals'[a] \in Totals /\ totals'[a].requests = totals[a].requests
          /\ totals'[a].lower = totals[a].lower + d.lower
          /\ totals'[a].upper = totals[a].upper + d.upper
          /\ totals'[a].complete = totals[a].complete + d.complete
          /\ totals'[a].partial = totals[a].partial + d.partial
          /\ totals'[a].unpriced = UnpricedAfter(totals[a], d)
      BY <2>1, <3>1, <3>2, CreditedFields
    <3>4. /\ totals[a].requests \in Nat /\ totals[a].complete \in Nat /\ totals[a].partial \in Nat
          /\ totals[a].lower \in Nat /\ totals[a].upper \in Nat
      BY <2>1 DEF Totals
    <3>5. /\ Cardinality(PendingOf(a)) \in Nat /\ Cardinality(C) \in Nat
          /\ Cardinality(PendingOf(a)') = Cardinality(PendingOf(a)) - Cardinality(C)
      <4>1. PendingOf(a)' = PendingOf(a) \ C
        BY <2>3, <2>4, <2>5, CostsNat DEF PendingOf
      <4>2. PendingOf(a) \subseteq DOMAIN logs /\ C \subseteq DOMAIN logs
        BY <2>3, <2>4 DEF PendingOf
      <4>3. /\ IsFiniteSet(PendingOf(a)) /\ Cardinality(PendingOf(a)) \in Nat
            /\ Cardinality(C) \in Nat
        BY <4>2, IdsFinite
      <4>4. PendingOf(a) \cap C = C
        BY <2>4
      <4>5. QED BY <4>1, <4>3, <4>4, FS_Difference
    <3>6. totals[a].complete + totals[a].partial + Cardinality(PendingOf(a)) <= totals[a].requests
      BY <2>1 DEF Balanced, PendingFits
    <3>7. PendingFits(a)'
      BY <3>1, <3>3, <3>4, <3>5, <3>6 DEF PendingFits
    <3>8. Partitions(a)'
      <4>1. Cardinality(PendingOf(a)') \in Nat
        <5>1. PendingOf(a)' \in SUBSET DOMAIN logs'
          BY DEF PendingOf, RowsOf
        <5>2. IsFiniteSet(DOMAIN logs) /\ PendingOf(a)' \in SUBSET DOMAIN logs
          BY <1>3, <5>1, IdsFinite
        <5>3. QED BY <5>2, FS_Subset, FS_CardinalityType
      <4>2. (totals[a].complete + d.complete) + (totals[a].partial + d.partial)
               <= totals[a].requests
        BY <3>3, <3>4, <3>1, <3>7, <4>1 DEF PendingFits
      <4>3. UnpricedAfter(totals[a], d) =
               totals[a].requests - (totals[a].complete + d.complete) - (totals[a].partial + d.partial)
        BY <3>1, <3>4, <4>2 DEF UnpricedAfter
      <4>4. \A c, p, q \in Int : c + p + (q - c - p) = q
        OBVIOUS
      <4>5. QED BY <3>1, <3>3, <3>4, <4>3, <4>4 DEF Partitions
    <3>9. AddsUp(a)'
      <4> DEFINE new == Lowers(RowsOf(a))'
                 newUpper == Uppers(RowsOf(a))'
      <4>1. AreAmounts(Lowers(RowsOf(a))) /\ AreAmounts(Uppers(RowsOf(a)))
        BY <2>3, LogAmounts
      <4>2. /\ DOMAIN new = RowsOf(a) /\ DOMAIN newUpper = RowsOf(a)
            /\ \A id \in RowsOf(a) : /\ new[id] = LowerOf(logs'[id].cost)
                                     /\ newUpper[id] = UpperOf(logs'[id].cost)
        BY <2>3 DEF Lowers, Uppers
      <4>3. /\ DOMAIN lowers = C /\ DOMAIN uppers = C
            /\ \A id \in C : /\ lowers[id] = LowerOf(logs'[id].cost)
                             /\ uppers[id] = UpperOf(logs'[id].cost)
        BY <2>5
      <4>4. /\ DOMAIN Lowers(RowsOf(a)) = RowsOf(a) /\ DOMAIN Uppers(RowsOf(a)) = RowsOf(a)
            /\ \A id \in C : Lowers(RowsOf(a))[id] = 0 /\ Uppers(RowsOf(a))[id] = 0
            /\ \A id \in RowsOf(a) \ C : /\ Lowers(RowsOf(a))[id] = LowerOf(logs'[id].cost)
                                         /\ Uppers(RowsOf(a))[id] = UpperOf(logs'[id].cost)
        BY <2>4, <2>5, PendingIsFree DEF Lowers, Uppers
      <4> HIDE DEF new, newUpper, lowers, uppers
      <4>5. ASSUME NEW n \in Ids
            PROVE  /\ Amount(new, n) = Amount(Lowers(RowsOf(a)), n) + Amount(lowers, n)
                   /\ Amount(newUpper, n) = Amount(Uppers(RowsOf(a)), n) + Amount(uppers, n)
        <5>1. /\ Amount(Lowers(RowsOf(a)), n) \in Nat /\ Amount(Uppers(RowsOf(a)), n) \in Nat
              /\ Amount(lowers, n) \in Nat /\ Amount(uppers, n) \in Nat
          BY <3>1, <4>1 DEF AreAmounts
        <5>2. QED BY <2>4, <4>2, <4>3, <4>4, <5>1 DEF Amount
      <4>6. /\ SumOver(new) = SumOver(Lowers(RowsOf(a))) + d.lower
            /\ SumOver(newUpper) = SumOver(Uppers(RowsOf(a))) + d.upper
        BY <3>1, <4>1, <4>5, SumSplit
      <4>7. SumOver(Lowers(RowsOf(a))) \in Nat /\ SumOver(Uppers(RowsOf(a))) \in Nat
        BY <4>1, SumNat
      <4>8. pruned[a].lower \in Nat /\ pruned[a].upper \in Nat /\ AddsUp(a)
        BY <2>1 DEF AccountsInv, AccountsTyped, Balanced
      <4>9. /\ totals'[a].lower = pruned'[a].lower + SumOver(new)
            /\ totals'[a].upper = pruned'[a].upper + SumOver(newUpper)
        BY <2>1, <3>1, <3>3, <4>6, <4>7, <4>8 DEF AddsUp
      <4>10. QED BY <4>9 DEF AddsUp, new, newUpper
    <3>10. QED BY <3>3, <3>7, <3>8, <3>9 DEF Balanced
  <2>8. QED BY <2>6, <2>7, <2>1, <1>1 DEF C
<1>6. DOMAIN totals' = DOMAIN totals
  BY <1>1
<1>7. AccountsTyped'
  BY <1>1, <1>3, <1>5, <1>6 DEF AccountsInv, AccountsTyped
<1>8. AccountsAgree'
  BY <1>1, <1>3, <1>6, NoRowsEmpty DEF LedgerInv, AccountsInv, AccountsAgree
<1>9. QED BY <1>5, <1>6, <1>7, <1>8 DEF AccountsInv

\* Every step keeps the accounts.
LEMMA NextAccounts == LedgerInv /\ AccountsInv /\ [Next]_vars => AccountsInv'
<1> SUFFICES ASSUME LedgerInv, AccountsInv, [Next]_vars PROVE AccountsInv'
  OBVIOUS
<1>1. ASSUME NEW a \in Accounts, NEW r \in Requests, InsertRequestLog(a, r) PROVE AccountsInv'
  BY <1>1, InsertAccounts
<1>2. ASSUME NEW b \in Backfills, SelectBatch(b) PROVE AccountsInv'
  BY <1>2, SelectAccounts
<1>3. ASSUME NEW b \in Backfills, CommitBatch(b) PROVE AccountsInv'
  BY <1>3, CommitAccounts
<1>4. ASSUME NEW b \in Backfills, FailBatch(b) \/ Restart(b) PROVE AccountsInv'
  <2>1. ended' \subseteq Backfills
    BY <1>4 DEF FailBatch, Restart, AccountsInv, AccountsTyped
  <2>2. QED BY <1>4, <2>1, DropAccounts DEF FailBatch, Restart
<1>5. ASSUME NEW upTo \in Ids, Prune(upTo) PROVE AccountsInv'
  BY <1>5, PruneAccounts
<1>6. ASSUME NEW a \in Accounts, DeleteAccount(a) PROVE AccountsInv'
  BY <1>6, DeleteAccounts
<1>7. CASE UNCHANGED vars
  <2>1. /\ UNCHANGED <<logs, lastId, totals, batches, ended, pruned>>
    BY <1>7 DEF vars
  <2>2. ASSUME NEW a \in DOMAIN totals PROVE Balanced(a)'
    <3>1. Balanced(a) /\ RowsOf(a)' = RowsOf(a)
      BY <2>1 DEF AccountsInv, RowsOf
    <3>2. QED BY <2>1, <3>1, KeepsBalanced
  <2>3. AccountsTyped' /\ AccountsAgree'
    BY <2>1 DEF AccountsInv, AccountsTyped, AccountsAgree
  <2>4. QED BY <2>1, <2>2, <2>3 DEF AccountsInv
<1>8. QED BY <1>1, <1>2, <1>3, <1>4, <1>5, <1>6, <1>7 DEF Next

\* Both invariants hold in every state of every behaviour.
LEMMA LedgerInvariant == Spec => [](LedgerInv /\ AccountsInv)
<1>1. Init => LedgerInv /\ AccountsInv
  BY InitInv, InitAccounts
<1>2. LedgerInv /\ AccountsInv /\ [Next]_vars => LedgerInv' /\ AccountsInv'
  BY NextInv, NextAccounts
<1>3. QED BY <1>1, <1>2, PTL DEF Spec

\* Ids are never given twice, rows belong to accounts and hold their own estimate, and no
\* counter of an account becomes negative.
THEOREM LedgerTypeCorrect == Spec => []LedgerTypeOK
<1>1. LedgerInv /\ AccountsInv => LedgerTypeOK
  BY DEF LedgerInv, LogsPriced, IdsGiven, AccountsInv, AccountsTyped, LedgerTypeOK
<1>2. QED BY <1>1, LedgerInvariant, PTL

\* Every request of an account is counted as complete, partial or unpriced and as one of
\* them only, for any number of rows and any size of a batch.
THEOREM CountsPartitionRequests == Spec => []CountsPartition
<1>1. AccountsInv => CountsPartition
  BY DEF AccountsInv, Balanced, Partitions, CountsPartition
<1>2. QED BY <1>1, LedgerInvariant, PTL

\* The cost of an account is the cost of its logs, the pruned ones included, for any
\* number of rows: two backfills charge no log twice and forget none.
THEOREM CostsAlwaysAddUp == Spec => []CostsAddUp
<1>1. AccountsInv => CostsAddUp
  BY DEF AccountsInv, Balanced, AddsUp, RowsOf, Lowers, Uppers, CostsAddUp
<1>2. QED BY <1>1, LedgerInvariant, PTL
=============================================================================
