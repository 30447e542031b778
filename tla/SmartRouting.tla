---------------------------- MODULE SmartRouting ----------------------------
(***************************************************************************)
(* How a request that has no usable sticky account gets one: the queries   *)
(* of push_smart_routing_ctes and push_smart_account_candidate in db.rs,   *)
(* over time.  AccountPool leaves open which eligible account is taken;    *)
(* here the choice is made as the queries make it, from quota windows that *)
(* age, and with the time a request has read before it could begin its     *)
(* transaction.                                                            *)
(*                                                                         *)
(* Usage is in percent, time in steps.  The queries compute in floating    *)
(* point and round to six places; the lengths of windows divide 100.       *)
(***************************************************************************)
EXTENDS Integers, Sequences, FiniteSets

CONSTANTS
    Accounts,
    Order,          \* account -> its place by created_at and id
    None, Garbled,  \* NULL, and a time that julianday cannot read
    Telemetry,      \* sets of quota windows that a refresh may find; {} is none of Codex
    Freshness,      \* max(3 refresh intervals, MIN_ROUTING_USAGE_FRESHNESS_SECONDS)
    Skew,           \* ROUTING_CLOCK_SKEW_SECONDS
    Unknown,        \* ROUTING_UNKNOWN_PRESSURE
    Penalty,        \* ROUTING_INFLIGHT_PENALTY
    Cooldowns,      \* how long an account may be put into cooldown
    MaxTime, MaxInflight, MaxWaiting

ASSUME RoutingAssumption ==
    /\ None \notin Int /\ Garbled \notin Int /\ None \notin Accounts
    /\ Freshness \in Nat /\ Skew \in Nat /\ Unknown \in Nat /\ Penalty \in Nat
    /\ MaxTime \in Nat /\ MaxInflight \in Nat /\ MaxWaiting \in Nat /\ Cooldowns \subseteq Nat
    /\ \A found \in Telemetry : \A w \in found :
         /\ w.used \in Int \cup {None} /\ w.length \in Int \cup {None}
         /\ w.left \in Int \cup {None, Garbled}

VARIABLES
    now,
    windows,    \* usage_windows of an account with quota_key 'codex'
    inflight, selectedAt, cooldown,  \* account_runtime_state
    waiting,    \* selected_at of the requests that have read the clock
    chosen      \* the account this step has acquired, for whom, and at which selected_at

state == <<windows, inflight, selectedAt, cooldown>>
vars == <<now, state, waiting, chosen>>

-----------------------------------------------------------------------------
LargestOf(S) == CHOOSE x \in S : \A y \in S : y <= x
SmallerOf(x, y) == IF x < y THEN x ELSE y
LargerOf(x, y) == IF x < y THEN y ELSE x

NotChosen == [account |-> None, reason |-> None, at |-> None]

\* classified_windows: what a window says at time t.
Kind(w, t) ==
    IF \/ w.used = None \/ w.reset = Garbled
       \/ w.length # None /\ w.length <= 0
       \/ w.reset # None /\ w.length # None /\ w.reset > t + w.length + Skew
    THEN "unknown"
    ELSE IF w.reset # None /\ w.reset <= t
    THEN IF w.reset >= t - Freshness THEN "reset" ELSE "unknown"
    ELSE IF w.fetched < t - Freshness \/ w.fetched > t + Skew THEN "unknown"
    ELSE IF None \in {w.reset, w.length} THEN "raw" ELSE "timed"

Used(w) == SmallerOf(100, LargerOf(0, w.used))
PercentElapsed(w, t) ==
    100 - (100 * SmallerOf(w.length, LargerOf(0, w.reset - t))) \div w.length

\* Mutant: what was reported last is trusted however old it is.
LastReportTrusted(w, t) == IF w.used = None THEN 0 ELSE Used(w)

\* window_scores
Pressure(w, t) ==
    CASE Kind(w, t) = "timed" -> Used(w) - PercentElapsed(w, t)
      [] Kind(w, t) = "raw" -> Used(w)
      [] Kind(w, t) = "reset" -> 0
      [] Kind(w, t) = "unknown" -> Unknown
Quality(w, t) ==
    CASE Kind(w, t) = "unknown" -> 2 [] Kind(w, t) = "reset" -> 1 [] OTHER -> 0
EffectiveUsed(w, t) ==
    CASE Kind(w, t) = "unknown" -> Unknown [] Kind(w, t) = "reset" -> 0 [] OTHER -> Used(w)

\* account_scores: the worst window of an account, and the default of an account without.
Worst(values, default) == IF values = {} THEN default ELSE LargestOf(values)

\* Mutant: the requests under way do not count.
NoLoad(a) == 0

Load(a) == Penalty * LargerOf(inflight[a], 0)

\* The columns of ORDER BY, for either strategy.
Rank(a, t, weighted) ==
    LET byTurn == <<IF selectedAt[a] = None THEN -1 ELSE selectedAt[a], Order[a]>>
    IN  IF weighted
        THEN <<Worst({Pressure(w, t) : w \in windows[a]}, Unknown) + Load(a),
               Worst({Quality(w, t) : w \in windows[a]}, 2),
               Worst({EffectiveUsed(w, t) : w \in windows[a]}, Unknown),
               LargerOf(inflight[a], 0)>> \o byTurn
        ELSE byTurn

Precedes(r, s) ==
    \E i \in DOMAIN r : r[i] < s[i] /\ \A j \in 1..(i - 1) : r[j] = s[j]

\* Nothing is known of when the window frees its account, or it does so after t.
Exhausted(a, t) ==
    \E w \in windows[a] :
        /\ w.used # None /\ w.used >= 100
        /\ w.reset \notin {None, Garbled} => w.reset > t

\* Mutant: a cooldown is not looked at.
NotExhausted(a, t) == ~Exhausted(a, t)

\* Active accounts only; AccountPool has the others.
Eligible(a, t) ==
    /\ cooldown[a] # None => cooldown[a] <= t
    /\ ~Exhausted(a, t)

\* The candidate that the subquery of the UPDATE returns, if there is one.
Candidates(excluded, t, weighted) ==
    LET eligible == {a \in Accounts \ excluded : Eligible(a, t)}
    IN  {a \in eligible :
            \A b \in eligible \ {a} : Precedes(Rank(a, t, weighted), Rank(b, t, weighted))}

-----------------------------------------------------------------------------
\* A report, dated when it was fetched.
Arrived(set, t) ==
    {[used |-> w.used, length |-> w.length, fetched |-> t,
      reset |-> IF w.left \in {None, Garbled} THEN w.left ELSE t + w.left] : w \in set}

Init ==
    /\ now = 0
    /\ \E found \in [Accounts -> Telemetry] : windows = [a \in Accounts |-> Arrived(found[a], 0)]
    /\ inflight = [a \in Accounts |-> 0]
    /\ selectedAt = [a \in Accounts |-> None]
    /\ cooldown = [a \in Accounts |-> None]
    /\ waiting = {}
    /\ chosen = NotChosen

Tick ==
    /\ now < MaxTime
    /\ now' = now + 1
    /\ chosen' = NotChosen
    /\ UNCHANGED <<state, waiting>>

\* replace_usage_windows: a report without a Codex window is refused.
RefreshUsage(a, found) ==
    /\ found # {}
    /\ windows' = [windows EXCEPT ![a] = Arrived(found, now)]
    /\ chosen' = NotChosen
    /\ UNCHANGED <<now, inflight, selectedAt, cooldown, waiting>>

\* cooldown_account
CooldownAccount(a, steps) ==
    /\ cooldown' = [cooldown EXCEPT ![a] = now + steps]
    /\ chosen' = NotChosen
    /\ UNCHANGED <<now, windows, inflight, selectedAt, waiting>>

\* A request reads the clock and then awaits its affinity lookup and its transaction.
ReadClock ==
    /\ Cardinality(waiting) < MaxWaiting /\ now \notin waiting
    /\ waiting' = waiting \cup {now}
    /\ chosen' = NotChosen
    /\ UNCHANGED <<now, state>>

Acquired(a, t) ==
    /\ inflight[a] < MaxInflight
    /\ inflight' = [inflight EXCEPT ![a] = @ + 1]
    /\ selectedAt' = [selectedAt EXCEPT ![a] = t]
    /\ cooldown' = [cooldown EXCEPT ![a] = None]
    /\ UNCHANGED <<now, windows>>

Reason(excluded, weighted) ==
    IF excluded # {} THEN "failover" ELSE IF weighted THEN "usage_weighted" ELSE "round_robin"

\* The transaction of select_account_for_request, under the routing_strategy the request
\* has read; failover excludes the accounts it has tried.
SelectSmart(t, excluded, weighted) ==
    LET candidates == Candidates(excluded, t, weighted)
    IN  /\ t \in waiting
        /\ waiting' = waiting \ {t}
        /\ IF candidates = {}
           THEN chosen' = NotChosen /\ UNCHANGED <<now, state>>
           ELSE \E a \in candidates :
                    /\ Acquired(a, t)
                    /\ chosen' = [account |-> a, reason |-> Reason(excluded, weighted), at |-> t]

\* acquire_account_if_available: a sticky account or the account of a bridge.
AcquireSticky(a) ==
    /\ Eligible(a, now)
    /\ Acquired(a, now)
    /\ chosen' = [account |-> a, reason |-> "sticky", at |-> now]
    /\ UNCHANGED waiting

ReleaseAccount(a) ==
    /\ inflight[a] > 0
    /\ inflight' = [inflight EXCEPT ![a] = @ - 1]
    /\ chosen' = NotChosen
    /\ UNCHANGED <<now, windows, selectedAt, cooldown, waiting>>

Next ==
    \/ Tick
    \/ ReadClock
    \/ \E a \in Accounts :
         \/ AcquireSticky(a) \/ ReleaseAccount(a)
         \/ \E found \in Telemetry : RefreshUsage(a, found)
         \/ \E steps \in Cooldowns : CooldownAccount(a, steps)
    \/ \E t \in waiting, excluded \in SUBSET Accounts, weighted \in BOOLEAN :
           SelectSmart(t, excluded, weighted)

Spec == Init /\ [][Next]_vars

-----------------------------------------------------------------------------
(***************************************************************************)
(* Properties.                                                             *)
(***************************************************************************)
Known(a, t) == windows[a] # {} /\ \A w \in windows[a] : Kind(w, t) # "unknown"
Chose(reason, a) == chosen'.reason = reason /\ chosen'.account = a
Rivals(a) == {b \in Accounts \ {a} : Eligible(b, chosen'.at)}

\* Missing or stale quota data never looks like unused capacity: an account with such data
\* is not chosen over one with fresh data that has room left and no more requests.
UnknownIsNotUnused ==
    [][\A a \in Accounts : Chose("usage_weighted", a) /\ ~Known(a, chosen'.at) =>
         \A b \in Rivals(a) :
             Known(b, chosen'.at) /\ inflight[b] <= inflight[a] =>
                 \E w \in windows[b] : EffectiveUsed(w, chosen'.at) >= 100]_vars

\* No account absorbs unlimited concurrent work: it is not chosen once it is so many
\* requests ahead of another that they outweigh any difference in their quotas.
LoadStaysBounded ==
    [][\A a \in Accounts : Chose("usage_weighted", a) =>
         \A b \in Rivals(a) : Penalty * (inflight[a] - inflight[b]) <= 200]_vars

\* A request that has read the clock long before its transaction still takes no account
\* that is cooling down or exhausted by the time it takes it, and ends no cooldown early.
OldClockTakesNoBarredAccount ==
    [][\A a \in Accounts : chosen'.account = a =>
         /\ cooldown[a] # None => cooldown[a] <= now
         /\ ~Exhausted(a, now)]_vars
=============================================================================
