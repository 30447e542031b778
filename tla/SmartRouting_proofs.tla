------------------------- MODULE SmartRouting_proofs -------------------------
(* Proofs about SmartRouting, for any accounts, telemetry, strategies and times. *)
EXTENDS SmartRouting, TLAPS, NaturalsInduction, WellFoundedInduction

-----------------------------------------------------------------------------
(***************************************************************************)
(* The scores.                                                             *)
(***************************************************************************)
IsWindow(w) ==
    /\ w.used \in Int \cup {None} /\ w.length \in Int \cup {None}
    /\ w.reset \in Int \cup {None, Garbled} /\ w.fetched \in Int

\* A set of natural numbers has a smallest one.
LEMMA Smallest ==
    ASSUME NEW S \in SUBSET Nat, S # {}
    PROVE  \E n \in S : \A m \in S : n <= m
<1> DEFINE below == OpToRel(<, Nat)
<1>1. IsWellFoundedOn(below, Nat)
  BY NatLessThanWellFounded
<1>2. \A m, n \in Nat : m < n => <<m, n>> \in below
  BY DEF OpToRel
<1> HIDE DEF below
<1>3. \E n \in S : \A m \in S : <<m, n>> \notin below
  BY <1>1, WFMin
<1>4. \E n \in S : \A m \in S : ~(m < n)
  BY <1>2, <1>3
<1>5. QED BY <1>4

\* A set of integers with a bound has a largest one, which is what max() returns.
LEMMA LargestIs ==
    ASSUME NEW S \in SUBSET Int, S # {}, NEW top \in Int, \A x \in S : x <= top
    PROVE  LargestOf(S) \in S /\ \A y \in S : y <= LargestOf(S)
<1> DEFINE gaps == {top - x : x \in S}
<1>1. gaps \in SUBSET Nat /\ gaps # {}
  <2>1. \A x \in S : x \in Int /\ x <= top /\ top - x \in Nat
    OBVIOUS
  <2>2. QED BY <2>1
<1>2. PICK g \in gaps : \A h \in gaps : g <= h
  BY <1>1, Smallest
<1>3. PICK x \in S : g = top - x
  BY <1>2
<1>4. \A y \in S : top - x <= top - y
  BY <1>2, <1>3
<1>5. \A y \in S : y <= x
  BY <1>4
<1>6. QED BY <1>3, <1>5 DEF LargestOf

\* The percentage of a window that is left.
LEMMA Share ==
    ASSUME NEW length \in Nat \ {0}, NEW left \in 0..length
    PROVE  (100 * left) \div length \in 0..100
OBVIOUS

\* How much of a window has been used, and how far through it is, are percentages.
LEMMA Percentages ==
    ASSUME NEW w, NEW t \in Int, IsWindow(w), Kind(w, t) # "unknown"
    PROVE  /\ Used(w) \in 0..100
           /\ Kind(w, t) = "timed" => PercentElapsed(w, t) \in 0..100
<1>1. w.used \in Int
  BY DEF Kind, IsWindow
<1>2. Used(w) \in 0..100
  BY <1>1 DEF Used, SmallerOf, LargerOf
<1>3. ASSUME Kind(w, t) = "timed" PROVE PercentElapsed(w, t) \in 0..100
  <2>1. w.reset \in Int /\ w.length \in Nat \ {0}
    BY <1>3 DEF Kind, IsWindow
  <2>2. SmallerOf(w.length, LargerOf(0, w.reset - t)) \in 0..w.length
    BY <2>1 DEF SmallerOf, LargerOf
  <2>3. (100 * SmallerOf(w.length, LargerOf(0, w.reset - t))) \div w.length \in 0..100
    BY <2>1, <2>2, Share
  <2>4. QED BY <2>3 DEF PercentElapsed
<1>4. QED BY <1>2, <1>3

\* The kinds of windows.
LEMMA Kinds ==
    ASSUME NEW w, NEW t
    PROVE  Kind(w, t) \in {"unknown", "reset", "raw", "timed"}
BY DEF Kind

\* The pressure of a window of which something is known is one of these percentages, or
\* the difference of two; it is 100 only when all of the window has been used.
LEMMA KnownPressure ==
    ASSUME NEW w, NEW t \in Int, IsWindow(w), Kind(w, t) # "unknown"
    PROVE  /\ Pressure(w, t) \in -100..100
           /\ Pressure(w, t) >= 100 => EffectiveUsed(w, t) >= 100
<1>1. Used(w) \in 0..100
  BY Percentages
<1>2. CASE Kind(w, t) = "timed"
  <2>1. PercentElapsed(w, t) \in 0..100
    BY <1>2, Percentages
  <2>2. Pressure(w, t) = Used(w) - PercentElapsed(w, t) /\ EffectiveUsed(w, t) = Used(w)
    BY <1>2 DEF Pressure, EffectiveUsed
  <2>3. QED BY <1>1, <2>1, <2>2
<1>3. CASE Kind(w, t) = "raw"
  BY <1>1, <1>3 DEF Pressure, EffectiveUsed
<1>4. CASE Kind(w, t) = "reset"
  BY <1>4 DEF Pressure, EffectiveUsed
<1>5. QED BY <1>2, <1>3, <1>4, Kinds

\* The score of an account before its load, and with it.
Quota(a, t) == Worst({Pressure(w, t) : w \in windows[a]}, Unknown)
Score(a, t) == Quota(a, t) + Load(a)
Top == LargerOf(100, Unknown)

\* The pressure of any window has bounds.
LEMMA AnyPressure ==
    ASSUME NEW w, NEW t \in Int, IsWindow(w)
    PROVE  Pressure(w, t) \in Int /\ -100 <= Pressure(w, t) /\ Pressure(w, t) <= Top
<1>1. Unknown \in Nat
  BY RoutingAssumption
<1>2. CASE Kind(w, t) = "unknown"
  BY <1>1, <1>2 DEF Pressure, Top, LargerOf
<1>3. CASE Kind(w, t) # "unknown"
  BY <1>1, <1>3, KnownPressure DEF Top, LargerOf
<1>4. QED BY <1>2, <1>3

\* The score of an account has bounds; an account of which something is not known scores
\* as unknown at least, and one that is known has a window with its score.
LEMMA QuotaBounds ==
    ASSUME NEW a, NEW t \in Int, \A w \in windows[a] : IsWindow(w)
    PROVE  /\ Quota(a, t) \in Int /\ -100 <= Quota(a, t) /\ Quota(a, t) <= Top
           /\ ~Known(a, t) => Unknown <= Quota(a, t)
           /\ Known(a, t) => \E w \in windows[a] : Quota(a, t) = Pressure(w, t)
<1> DEFINE values == {Pressure(w, t) : w \in windows[a]}
<1>1. Unknown \in Nat /\ Top \in Int /\ Unknown <= Top
  BY RoutingAssumption DEF Top, LargerOf
<1>2. CASE windows[a] = {}
  <2>1. Quota(a, t) = Unknown /\ ~Known(a, t)
    BY <1>2 DEF Quota, Worst, Known
  <2>2. QED BY <1>1, <2>1
<1>3. CASE windows[a] # {}
  <2>1. values # {} /\ values \in SUBSET Int /\ \A x \in values : -100 <= x /\ x <= Top
    <3>1. \A w \in windows[a] :
             Pressure(w, t) \in Int /\ -100 <= Pressure(w, t) /\ Pressure(w, t) <= Top
      BY AnyPressure
    <3>2. QED BY <1>3, <3>1
  <2>2. Quota(a, t) = LargestOf(values)
    BY <2>1 DEF Quota, Worst
  <2>3. Quota(a, t) \in values /\ \A x \in values : x <= Quota(a, t)
    BY <1>1, <2>1, <2>2, LargestIs
  <2>4. ASSUME ~Known(a, t) PROVE Unknown <= Quota(a, t)
    <3>1. PICK w \in windows[a] : Kind(w, t) = "unknown"
      BY <1>3, <2>4 DEF Known
    <3>2. Pressure(w, t) = Unknown
      BY <3>1 DEF Pressure
    <3>3. Unknown \in values
      BY <3>2
    <3>4. QED BY <2>3, <3>3
  <2>5. \E w \in windows[a] : Quota(a, t) = Pressure(w, t)
    BY <2>3
  <2>6. QED BY <2>1, <2>3, <2>4, <2>5
<1>4. QED BY <1>2, <1>3

\* The first column of ORDER BY decides, or says nothing.
LEMMA ScoreComesFirst ==
    ASSUME NEW a, NEW b, NEW t, Score(a, t) \in Int, Score(b, t) \in Int,
           Precedes(Rank(a, t, TRUE), Rank(b, t, TRUE))
    PROVE  Score(a, t) <= Score(b, t)
<1>1. ASSUME NEW c
      PROVE  Rank(c, t, TRUE)[1] = Score(c, t) /\ DOMAIN Rank(c, t, TRUE) = 1..6
  BY DEF Rank, Score, Quota
<1>2. PICK i \in 1..6 :
        /\ Rank(a, t, TRUE)[i] < Rank(b, t, TRUE)[i]
        /\ \A j \in 1..(i - 1) : Rank(a, t, TRUE)[j] = Rank(b, t, TRUE)[j]
  BY <1>1 DEF Precedes
<1>3. CASE i = 1
  <2>1. Rank(a, t, TRUE)[1] < Rank(b, t, TRUE)[1]
    BY <1>2, <1>3, Zenon
  <2>2. Rank(a, t, TRUE)[1] = Score(a, t) /\ Rank(b, t, TRUE)[1] = Score(b, t)
    BY <1>1
  <2>3. Score(a, t) < Score(b, t)
    BY <2>1, <2>2, Zenon
  <2>4. QED BY <2>3
<1>4. CASE i # 1
  <2>1. 1 \in 1..(i - 1)
    BY <1>4
  <2>2. Rank(a, t, TRUE)[1] = Rank(b, t, TRUE)[1]
    BY <1>2, <2>1, Zenon
  <2>3. Score(a, t) = Score(b, t)
    BY <1>1, <2>2, Zenon
  <2>4. QED BY <2>3
<1>5. QED BY <1>3, <1>4

-----------------------------------------------------------------------------
(***************************************************************************)
(* The invariant: types, and that no request has read a clock that is      *)
(* ahead of the time.                                                      *)
(***************************************************************************)
RoutingInv ==
    /\ now \in Nat
    /\ inflight \in [Accounts -> Nat]
    /\ selectedAt \in [Accounts -> Nat \cup {None}] /\ cooldown \in [Accounts -> Nat \cup {None}]
    /\ DOMAIN windows = Accounts /\ \A a \in Accounts : \A w \in windows[a] : IsWindow(w)
    /\ waiting \subseteq 0..now

\* A report that arrives has windows.
LEMMA ArrivedWindows ==
    ASSUME NEW found \in Telemetry, NEW t \in Int
    PROVE  \A w \in Arrived(found, t) : IsWindow(w)
<1>1. \A w \in found : /\ w.used \in Int \cup {None} /\ w.length \in Int \cup {None}
                       /\ w.left \in Int \cup {None, Garbled}
  BY RoutingAssumption
<1>2. ASSUME NEW w \in found
      PROVE  IsWindow([used |-> w.used, length |-> w.length, fetched |-> t,
                       reset |-> IF w.left \in {None, Garbled} THEN w.left ELSE t + w.left])
  <2>1. (IF w.left \in {None, Garbled} THEN w.left ELSE t + w.left) \in Int \cup {None, Garbled}
    BY <1>1
  <2>2. QED BY <1>1, <2>1 DEF IsWindow
<1>3. QED BY <1>2 DEF Arrived

\* The invariant holds at the start.
LEMMA RoutingInitInv == Init => RoutingInv
<1> SUFFICES ASSUME Init PROVE RoutingInv
  OBVIOUS
<1>1. PICK found \in [Accounts -> Telemetry] : windows = [a \in Accounts |-> Arrived(found[a], 0)]
  BY DEF Init
<1>2. \A a \in Accounts : \A w \in windows[a] : IsWindow(w)
  BY <1>1, ArrivedWindows
<1>3. QED BY <1>1, <1>2 DEF Init, RoutingInv

\* An account that is acquired has one request more.
LEMMA AcquiredInv ==
    ASSUME RoutingInv, NEW a \in Accounts, NEW t \in 0..now, Acquired(a, t)
    PROVE  /\ inflight' \in [Accounts -> Nat] /\ selectedAt' \in [Accounts -> Nat \cup {None}]
           /\ cooldown' \in [Accounts -> Nat \cup {None}] /\ UNCHANGED <<now, windows>>
BY DEF RoutingInv, Acquired

\* Every step keeps the invariant.
LEMMA RoutingNextInv == RoutingInv /\ [Next]_vars => RoutingInv'
<1> SUFFICES ASSUME RoutingInv, [Next]_vars PROVE RoutingInv'
  OBVIOUS
<1>1. CASE Tick
  BY <1>1 DEF Tick, RoutingInv, state
<1>2. CASE ReadClock
  BY <1>2 DEF ReadClock, RoutingInv, state
<1>3. ASSUME NEW a \in Accounts, AcquireSticky(a) PROVE RoutingInv'
  <2>1. now \in 0..now /\ Acquired(a, now) /\ waiting' = waiting
    BY <1>3 DEF AcquireSticky, RoutingInv
  <2>2. QED BY <2>1, AcquiredInv DEF RoutingInv
<1>4. ASSUME NEW a \in Accounts, ReleaseAccount(a) PROVE RoutingInv'
  BY <1>4 DEF ReleaseAccount, RoutingInv
<1>5. ASSUME NEW a \in Accounts, NEW found \in Telemetry, RefreshUsage(a, found) PROVE RoutingInv'
  <2>1. \A w \in Arrived(found, now) : IsWindow(w)
    BY ArrivedWindows DEF RoutingInv
  <2>2. \A b \in Accounts : windows'[b] = IF b = a THEN Arrived(found, now) ELSE windows[b]
    BY <1>5 DEF RefreshUsage, RoutingInv
  <2>3. QED BY <1>5, <2>1, <2>2 DEF RefreshUsage, RoutingInv
<1>6. ASSUME NEW a \in Accounts, NEW steps \in Cooldowns, CooldownAccount(a, steps) PROVE RoutingInv'
  BY <1>6, RoutingAssumption DEF CooldownAccount, RoutingInv
<1>7. ASSUME NEW t \in waiting, NEW excluded \in SUBSET Accounts, NEW weighted \in BOOLEAN,
             SelectSmart(t, excluded, weighted)
      PROVE  RoutingInv'
  <2>1. t \in 0..now /\ waiting' \subseteq waiting
    BY <1>7 DEF SelectSmart, RoutingInv
  <2>2. CASE Candidates(excluded, t, weighted) = {}
    BY <1>7, <2>1, <2>2 DEF SelectSmart, RoutingInv, state
  <2>3. CASE Candidates(excluded, t, weighted) # {}
    <3>1. PICK a \in Accounts : Acquired(a, t)
      BY <1>7, <2>3 DEF SelectSmart, Candidates
    <3>2. QED BY <2>1, <3>1, AcquiredInv DEF RoutingInv
  <2>4. QED BY <2>2, <2>3
<1>8. CASE UNCHANGED vars
  BY <1>8 DEF vars, state, RoutingInv
<1>9. QED BY <1>1, <1>2, <1>3, <1>4, <1>5, <1>6, <1>7, <1>8 DEF Next

\* The types of the model and the clocks that have been read.
THEOREM RoutingInvariant == Spec => []RoutingInv
<1>1. QED BY RoutingInitInv, RoutingNextInv, PTL DEF Spec

-----------------------------------------------------------------------------
(***************************************************************************)
(* What a step that chooses an account has found.                          *)
(***************************************************************************)
Found(a) ==
    /\ chosen'.at \in 0..now
    /\ Eligible(a, chosen'.at)
    /\ chosen'.reason = "usage_weighted" =>
         \A b \in Rivals(a) : Precedes(Rank(a, chosen'.at, TRUE), Rank(b, chosen'.at, TRUE))

\* An account that is chosen was eligible at a time that is not ahead, and one that is
\* chosen for its usage comes before its rivals.
LEMMA ChoiceIsFound ==
    ASSUME RoutingInv, Next, NEW a \in Accounts, chosen'.account = a
    PROVE  Found(a)
<1>1. NotChosen.account = None /\ None \notin Accounts
  BY RoutingAssumption DEF NotChosen
<1>2. chosen' # NotChosen
  BY <1>1
<1>3. ASSUME NEW b \in Accounts, AcquireSticky(b) PROVE Found(a)
  <2>1. /\ chosen' = [account |-> b, reason |-> "sticky", at |-> now] /\ Eligible(b, now)
        /\ now \in 0..now
    BY <1>3 DEF AcquireSticky, RoutingInv
  <2>2. b = a /\ chosen'.reason = "sticky" /\ chosen'.at = now
    BY <2>1
  <2>3. QED BY <2>1, <2>2 DEF Found
<1>4. ASSUME NEW t \in waiting, NEW excluded \in SUBSET Accounts, NEW weighted \in BOOLEAN,
             SelectSmart(t, excluded, weighted)
      PROVE  Found(a)
  <2>1. PICK b \in Candidates(excluded, t, weighted) :
          chosen' = [account |-> b, reason |-> Reason(excluded, weighted), at |-> t]
    BY <1>2, <1>4 DEF SelectSmart
  <2>2. b = a /\ chosen'.reason = Reason(excluded, weighted) /\ chosen'.at = t /\ t \in 0..now
    BY <2>1 DEF RoutingInv
  <2>3. Eligible(a, t)
    BY <2>1, <2>2 DEF Candidates
  <2>4. ASSUME chosen'.reason = "usage_weighted", NEW c \in Rivals(a)
        PROVE  Precedes(Rank(a, t, TRUE), Rank(c, t, TRUE))
    <3>1. excluded = {} /\ weighted = TRUE
      BY <2>2, <2>4 DEF Reason
    <3>2. c \in Accounts \ {a} /\ Eligible(c, t)
      BY <2>2 DEF Rivals
    <3>3. QED BY <2>1, <2>2, <3>1, <3>2 DEF Candidates
  <2>5. QED BY <2>2, <2>3, <2>4 DEF Found
<1>5. QED
  BY <1>2, <1>3, <1>4 DEF Next, Tick, ReadClock, ReleaseAccount, RefreshUsage, CooldownAccount

\* Score and load of an account, in integers.
LEMMA ScoreParts ==
    ASSUME RoutingInv, NEW a \in Accounts, NEW t \in Int
    PROVE  /\ Score(a, t) = Quota(a, t) + Penalty * inflight[a]
           /\ Score(a, t) \in Int /\ inflight[a] \in Nat /\ Penalty * inflight[a] \in Nat
<1>1. inflight[a] \in Nat /\ Penalty \in Nat
  BY RoutingAssumption DEF RoutingInv
<1>2. Load(a) = Penalty * inflight[a]
  BY <1>1 DEF Load, LargerOf
<1>3. Penalty * inflight[a] \in Nat
  BY <1>1
<1>4. Quota(a, t) \in Int
  BY QuotaBounds DEF RoutingInv
<1>5. QED BY <1>1, <1>2, <1>3, <1>4 DEF Score

\* An account chosen for its usage, in quotas and loads.
LEMMA ChosenScore ==
    ASSUME RoutingInv, NEW a \in Accounts, Found(a), chosen'.reason = "usage_weighted",
           NEW b \in Rivals(a)
    PROVE  /\ b \in Accounts /\ chosen'.at \in Int
           /\ Quota(a, chosen'.at) + Penalty * inflight[a]
                 <= Quota(b, chosen'.at) + Penalty * inflight[b]
<1>1. b \in Accounts /\ chosen'.at \in Int
  BY DEF Found, Rivals, RoutingInv
<1>2. Precedes(Rank(a, chosen'.at, TRUE), Rank(b, chosen'.at, TRUE))
  BY DEF Found
<1>3. Score(a, chosen'.at) <= Score(b, chosen'.at)
  BY <1>1, <1>2, ScoreParts, ScoreComesFirst
<1>4. QED BY <1>1, <1>3, ScoreParts

\* No account absorbs unlimited work: the penalty of the requests under way outweighs any
\* difference in quota, as long as an unknown quota counts as no more than a full one.
THEOREM LoadIsBounded ==
    ASSUME Unknown <= 100
    PROVE  Spec => LoadStaysBounded
<1>1. ASSUME RoutingInv, Next, NEW a \in Accounts, Chose("usage_weighted", a), NEW b \in Rivals(a)
      PROVE  Penalty * (inflight[a] - inflight[b]) <= 200
  <2>1. Found(a) /\ chosen'.reason = "usage_weighted"
    BY <1>1, ChoiceIsFound DEF Chose
  <2>2. /\ b \in Accounts /\ chosen'.at \in Int
        /\ Quota(a, chosen'.at) + Penalty * inflight[a]
              <= Quota(b, chosen'.at) + Penalty * inflight[b]
    BY <1>1, <2>1, ChosenScore
  <2>3. Top = 100
    BY RoutingAssumption DEF Top, LargerOf
  <2>4. /\ Quota(a, chosen'.at) \in Int /\ -100 <= Quota(a, chosen'.at)
        /\ Quota(b, chosen'.at) \in Int /\ Quota(b, chosen'.at) <= 100
    BY <1>1, <2>2, <2>3, QuotaBounds DEF RoutingInv
  <2>5. inflight[a] \in Int /\ inflight[b] \in Int /\ Penalty \in Int
    BY <1>1, <2>2, RoutingAssumption DEF RoutingInv
  <2>6. ASSUME NEW p \in Int, NEW i \in Int, NEW j \in Int, NEW x \in Int, NEW y \in Int,
               -100 <= x, y <= 100, x + p * i <= y + p * j
        PROVE  p * (i - j) <= 200
    <3>1. p * (i - j) = p * i - p * j /\ p * i \in Int /\ p * j \in Int
      OBVIOUS
    <3>2. QED BY <2>6, <3>1
  <2>7. QED BY <2>2, <2>4, <2>5, <2>6
<1>2. RoutingInv /\ [Next]_vars =>
        [\A a \in Accounts : Chose("usage_weighted", a) =>
           \A b \in Rivals(a) : Penalty * (inflight[a] - inflight[b]) <= 200]_vars
  BY <1>1
<1>3. QED BY <1>2, RoutingInvariant, PTL DEF Spec, LoadStaysBounded

\* Missing or stale quota data never looks like unused capacity, as long as an unknown
\* quota counts as no less than a full one.
THEOREM UnknownIsFull ==
    ASSUME Unknown >= 100
    PROVE  Spec => UnknownIsNotUnused
<1>1. ASSUME RoutingInv, Next, NEW a \in Accounts, Chose("usage_weighted", a),
             ~Known(a, chosen'.at), NEW b \in Rivals(a), Known(b, chosen'.at),
             inflight[b] <= inflight[a]
      PROVE  \E w \in windows[b] : EffectiveUsed(w, chosen'.at) >= 100
  <2>1. Found(a) /\ chosen'.reason = "usage_weighted"
    BY <1>1, ChoiceIsFound DEF Chose
  <2>2. /\ b \in Accounts /\ chosen'.at \in Int
        /\ Quota(a, chosen'.at) + Penalty * inflight[a]
              <= Quota(b, chosen'.at) + Penalty * inflight[b]
    BY <1>1, <2>1, ChosenScore
  <2>3. /\ Quota(a, chosen'.at) \in Int /\ Unknown <= Quota(a, chosen'.at)
        /\ Quota(b, chosen'.at) \in Int
        /\ \E w \in windows[b] : Quota(b, chosen'.at) = Pressure(w, chosen'.at)
    BY <1>1, <2>2, QuotaBounds DEF RoutingInv
  <2>4. inflight[a] \in Nat /\ inflight[b] \in Nat /\ Penalty \in Nat /\ Unknown \in Nat
    BY <1>1, <2>2, RoutingAssumption DEF RoutingInv
  <2>5. ASSUME NEW p \in Nat, NEW i \in Nat, NEW j \in Nat, j <= i,
               NEW x \in Int, NEW y \in Int, 100 <= x, x + p * i <= y + p * j
        PROVE  100 <= y
    <3>1. p * i = p * j + p * (i - j) /\ p * (i - j) \in Nat /\ p * i \in Nat /\ p * j \in Nat
      BY <2>5
    <3>2. QED BY <2>5, <3>1
  <2>6. 100 <= Quota(a, chosen'.at)
    BY <2>3, <2>4
  <2>7. 100 <= Quota(b, chosen'.at)
    BY <1>1, <2>2, <2>3, <2>4, <2>5, <2>6
  <2>8. PICK w \in windows[b] : Quota(b, chosen'.at) = Pressure(w, chosen'.at)
    BY <2>3
  <2>9. IsWindow(w) /\ Kind(w, chosen'.at) # "unknown"
    BY <1>1, <2>2, <2>8 DEF RoutingInv, Known
  <2>10. Pressure(w, chosen'.at) >= 100
    BY <2>3, <2>7, <2>8
  <2>11. QED BY <2>2, <2>9, <2>10, KnownPressure
<1>2. RoutingInv /\ [Next]_vars =>
        [\A a \in Accounts : Chose("usage_weighted", a) /\ ~Known(a, chosen'.at) =>
           \A b \in Rivals(a) :
               Known(b, chosen'.at) /\ inflight[b] <= inflight[a] =>
                   \E w \in windows[b] : EffectiveUsed(w, chosen'.at) >= 100]_vars
  BY <1>1
<1>3. QED BY <1>2, RoutingInvariant, PTL DEF Spec, UnknownIsNotUnused

\* However long ago a request has read its clock, it takes no account that is cooling down
\* or exhausted when its transaction runs: time only lifts what bars an account, and a bar
\* that has come up since is seen by the transaction.
THEOREM OldClockIsSafe == Spec => OldClockTakesNoBarredAccount
<1>1. ASSUME RoutingInv, Next, NEW a \in Accounts, chosen'.account = a
      PROVE  (cooldown[a] # None => cooldown[a] <= now) /\ ~Exhausted(a, now)
  <2>1. PICK t \in 0..now : Eligible(a, t)
    BY <1>1, ChoiceIsFound DEF Found
  <2>2. now \in Nat /\ t \in Nat /\ t <= now /\ cooldown[a] \in Nat \cup {None}
    BY <1>1, <2>1 DEF RoutingInv
  <2>3. cooldown[a] # None => cooldown[a] <= now
    BY <2>1, <2>2 DEF Eligible
  <2>4. ASSUME Exhausted(a, now) PROVE FALSE
    <3>1. PICK w \in windows[a] : /\ w.used # None /\ w.used >= 100
                                  /\ w.reset \notin {None, Garbled} => w.reset > now
      BY <2>4 DEF Exhausted
    <3>2. w.reset \in Int \cup {None, Garbled}
      BY <1>1, <3>1 DEF RoutingInv, IsWindow
    <3>3. w.reset \notin {None, Garbled} => w.reset > t
      BY <2>2, <3>1, <3>2
    <3>4. QED BY <2>1, <3>1, <3>3 DEF Eligible, Exhausted
  <2>5. QED BY <2>3, <2>4
<1>2. RoutingInv /\ [Next]_vars =>
        [\A a \in Accounts : chosen'.account = a =>
           /\ cooldown[a] # None => cooldown[a] <= now
           /\ ~Exhausted(a, now)]_vars
  BY <1>1
<1>3. QED BY <1>2, RoutingInvariant, PTL DEF Spec, OldClockTakesNoBarredAccount
=============================================================================
