------------------------------- MODULE Pricing -------------------------------
(***************************************************************************)
(* The estimate of what one request costs at the rates of pricing.rs.      *)
(*                                                                         *)
(* Counters of tokens that a request did not report are None.  Amounts are *)
(* billionths of a dollar; the product is computed in 128 bits, and a      *)
(* result above MaxInt, the largest value of the column, is no estimate.   *)
(***************************************************************************)
EXTENDS Integers

CONSTANTS
    RateCard,       \* a record of rates for every model that has a price
    None,
    MinCacheable,   \* MIN_CACHEABLE_INPUT_TOKENS
    LongContext,    \* LONG_CONTEXT_INPUT_THRESHOLD
    MaxInt          \* i64::MAX

Rates == [input : Nat, cached : Nat, written : Nat, output : Nat]

\* Writing to the cache costs at least as much as plain input, with every model.
ASSUME PricingAssumption ==
    /\ None \notin Int
    /\ MinCacheable \in Nat /\ LongContext \in Nat /\ MaxInt \in Nat
    /\ \A model \in DOMAIN RateCard :
         RateCard[model] \in Rates /\ RateCard[model].input <= RateCard[model].written

Counter == Int \cup {None}
Usage == [input : Counter, cached : Counter, written : Counter, output : Counter]

Unpriced(status) == [status |-> status, lower |-> None, upper |-> None]
Priced(status, lower, upper) == [status |-> status, lower |-> lower, upper |-> upper]
IsPriced(estimate) == estimate.status \in {"complete", "missing_cache_write"}

\* A prompt below the minimum writes nothing to the cache, reported or not.
Written(usage) == IF usage.input < MinCacheable THEN 0 ELSE usage.written

Unwritten(usage) == usage.input - usage.cached

\* Mutant: without a report everything uncached is taken to be plain input.
NothingWritten(usage) == IF Written(usage) = None THEN 0 ELSE Written(usage)

LeastWritten(usage) == IF Written(usage) = None THEN 0 ELSE Written(usage)
MostWritten(usage) == IF Written(usage) = None THEN Unwritten(usage) ELSE Written(usage)

\* The counters are subsets of the input and do not contradict each other.
Consistent(usage) ==
    /\ usage.input >= 0 /\ usage.output >= 0
    /\ usage.cached >= 0 /\ usage.cached <= usage.input
    /\ usage.input < MinCacheable => usage.cached = 0 /\ usage.written \in {0, None}
    /\ Written(usage) # None => Written(usage) >= 0 /\ usage.cached + Written(usage) <= usage.input

\* calculate_cost with this much of the input written to the cache.
CostWith(rates, usage, written) ==
    LET long == usage.input > LongContext
        input == (Unwritten(usage) - written) * rates.input
                   + usage.cached * rates.cached + written * rates.written
        output == usage.output * rates.output
    IN  IF long THEN 2 * input + (3 * output) \div 2 ELSE input + output

\* estimate_standard_api_cost
Estimate(model, usage) ==
    IF model \notin DOMAIN RateCard THEN Unpriced("unknown_model")
    ELSE IF None \in {usage.input, usage.output, usage.cached} THEN Unpriced("missing_usage")
    ELSE IF ~Consistent(usage) THEN Unpriced("invalid_usage")
    ELSE LET lower == CostWith(RateCard[model], usage, LeastWritten(usage))
             upper == CostWith(RateCard[model], usage, MostWritten(usage))
             status == IF Written(usage) = None THEN "missing_cache_write" ELSE "complete"
         IN  IF lower > MaxInt \/ upper > MaxInt
             THEN Unpriced("invalid_usage") ELSE Priced(status, lower, upper)

-----------------------------------------------------------------------------
\* What every request would have been billed had it reported its writes lies within the
\* range estimated without them, whatever they were, and is never out of range.
Brackets(model, usage) ==
    LET e == Estimate(model, usage)
    IN  e.status = "missing_cache_write" =>
            \A written \in 0..Unwritten(usage) :
                LET exact == Estimate(model, [usage EXCEPT !.written = written])
                IN  exact.status = "complete" /\ e.lower <= exact.lower /\ exact.upper <= e.upper
=============================================================================
