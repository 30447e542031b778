------------------------- MODULE AccountPool_proofs -------------------------
(* Proofs about AccountPool, for any accounts, clients and number of attempts. *)
EXTENDS AccountPool, FiniteSetTheorems, TLAPS

\* The awaits at which a request has an account.
HasAccount == Holding \cup {"sticky", "settled", "open"}

RequestOK(r) ==
    /\ r \in Request
    /\ r.phase \in HasAccount => r.account \in Accounts

TablesOK ==
    /\ status \in [Accounts -> Statuses]
    /\ barred \in SUBSET Accounts
    /\ inflight \in [Accounts -> Nat]
    /\ pin \in Accounts \cup {NoAccount}
    /\ releases \in [Accounts -> Nat]

PoolInv ==
    /\ TablesOK
    /\ requests \in [Clients -> Request]
    /\ \A c \in Clients : RequestOK(requests[c])

\* The two awaits at which the ledger does not survive a client that leaves.
LeavesSafely == LeavePoints \cap {"acquired", "settled"} = {}

Held(r, a) == IF r.account = a /\ r.phase \in Holding THEN 1 ELSE 0

\* What every step of a request, which makes r of it, does to the pool.
Balanced(c, r) ==
    \A a \in Accounts : status'[a] # "deleted" =>
        /\ status[a] # "deleted"
        /\ inflight'[a] + releases[a] + Held(requests[c], a)
             = inflight[a] + releases'[a] + Held(r, a)
Lower(c, r) ==
    requests[c].phase \notin {"idle", "open"} =>
        r = requests[c] \/ StepsLeft(r) < StepsLeft(requests[c])
\* A loop begins with no account tried, goes on with an account it has not tried, or counts
\* the one that failed among the tried and has one attempt less.
Continues(c, r) ==
    LET old == requests[c] IN
    r.phase \in Loop =>
        \/ /\ old.phase = "idle"
           /\ r.excluded = {} /\ r.attempts = ProxyAttempts /\ r.account \notin Accounts
        \/ /\ old.phase \in Loop
           /\ r.excluded = old.excluded /\ r.attempts = old.attempts
           /\ r.account = old.account \/ r.account \notin old.excluded
        \/ /\ old.phase \in Loop /\ old.account \in Accounts
           /\ r.excluded = old.excluded \cup {old.account} /\ r.attempts = old.attempts - 1
           /\ r.account \notin Accounts
EligibleTaken == \A a \in Accounts : inflight'[a] > inflight[a] => Eligible(a)
RequestBecomes(c, r) ==
    /\ requests' = [requests EXCEPT ![c] = r]
    /\ RequestOK(r)
    /\ TablesOK'
    /\ EligibleTaken
    /\ Lower(c, r)
    /\ Continues(c, r)
    /\ LeavesSafely /\ InflightExact => Balanced(c, r)

-----------------------------------------------------------------------------
\* The larger of two numbers.
LEMMA MaxOfTwo ==
    ASSUME NEW x \in Nat, NEW y \in Nat
    PROVE  Max({x, y}) \in Nat /\ Max({x, y}) >= x /\ Max({x, y}) >= y
<1>1. \E m \in {x, y} : \A n \in {x, y} : m >= n
  <2>1. CASE x >= y BY <2>1
  <2>2. CASE ~(x >= y) BY <2>2
  <2>3. QED BY <2>1, <2>2
<1>2. Max({x, y}) \in {x, y} /\ \A n \in {x, y} : Max({x, y}) >= n
  BY <1>1 DEF Max
<1>3. QED BY <1>2

\* The smaller of two numbers.
LEMMA MinOfTwo ==
    ASSUME NEW x \in Nat, NEW y \in Nat
    PROVE  /\ Min({x, y}) \in Nat /\ Min({x, y}) <= x /\ Min({x, y}) <= y
           /\ Min({x, y}) = x \/ Min({x, y}) = y
<1>1. \E m \in {x, y} : \A n \in {x, y} : m =< n
  <2>1. CASE x <= y BY <2>1
  <2>2. CASE ~(x <= y) BY <2>2
  <2>3. QED BY <2>1, <2>2
<1>2. Min({x, y}) \in {x, y} /\ \A n \in {x, y} : Min({x, y}) =< n
  BY <1>1 DEF Min
<1>3. QED BY <1>2

\* The limit of attempts.
LEMMA LimitIsNat == Max({MaxAttempts, 1}) \in Nat /\ Max({MaxAttempts, 1}) >= 1
BY MaxOfTwo, PoolAssumption

\* A request begins with no more attempts than the limit.
LEMMA AttemptsInRange == ProxyAttempts \in 0..Max({MaxAttempts, 1})
<1>1. ActiveCount \in Nat
  <2>1. {a \in Accounts : status[a] = "active"} \in SUBSET Accounts OBVIOUS
  <2>2. QED BY <2>1, FS_Subset, FS_CardinalityType, PoolAssumption DEF ActiveCount
<1>2. Min({ActiveCount, Max({MaxAttempts, 1})}) \in 0..Max({MaxAttempts, 1})
  BY <1>1, LimitIsNat, MinOfTwo
<1>3. QED BY <1>2, LimitIsNat DEF ProxyAttempts

\* How far each await is from the end.
LEMMA AwaitsValues ==
    /\ Awaits["select"] = 8 /\ Awaits["sticky"] = 7 /\ Awaits["choose"] = 6
    /\ Awaits["acquired"] = 5 /\ Awaits["leased"] = 4 /\ Awaits["settling"] = 3
    /\ Awaits["settled"] = 2 /\ Awaits["streaming"] = 1 /\ Awaits["turn"] = 1
    /\ Awaits["open"] = 0 /\ Awaits["idle"] = 0
BY DEF Awaits

\* The fields of a request.
LEMMA RequestFields ==
    ASSUME NEW r \in Request
    PROVE  /\ r.kind \in Kinds \cup {"none"} /\ r.phase \in Phases
           /\ r.account \in Accounts \cup {NoAccount} /\ r.excluded \in SUBSET Accounts
           /\ r.attempts \in Nat /\ r.attempts <= Max({MaxAttempts, 1})
           /\ r.connected \in BOOLEAN
BY LimitIsNat DEF Request

-----------------------------------------------------------------------------
(***************************************************************************)
(* The ways a request changes.                                             *)
(***************************************************************************)
Went(r, phase, a) == [r EXCEPT !.phase = phase, !.account = a]

\* It goes on to another await.
LEMMA WentOK ==
    ASSUME NEW r, RequestOK(r), NEW phase \in Phases, NEW a \in Accounts \cup {NoAccount},
           phase \in HasAccount => a \in Accounts
    PROVE  /\ RequestOK(Went(r, phase, a))
           /\ Went(r, phase, a).phase = phase /\ Went(r, phase, a).account = a
           /\ Went(r, phase, a).attempts = r.attempts
<1> DEFINE w == Went(r, phase, a)
<1>1. w \in Request BY DEF RequestOK, Request, Went
<1>2. /\ w.phase = phase /\ w.account = a /\ w.attempts = r.attempts
  BY DEF RequestOK, Request, Went
<1>3. QED BY <1>1, <1>2 DEF RequestOK

\* The awaits at which it has one.
LEMMA HoldingPhases ==
    /\ "acquired" \in Phases /\ "leased" \in Phases /\ "settled" \in Phases
    /\ "turn" \in Phases /\ "open" \in Phases
BY DEF Phases, Holding

\* It goes on with an account.
LEMMA WentWithOK ==
    ASSUME NEW r, RequestOK(r), NEW phase \in Phases, NEW a \in Accounts
    PROVE  /\ RequestOK(Went(r, phase, a))
           /\ Went(r, phase, a).phase = phase /\ Went(r, phase, a).account = a
           /\ Went(r, phase, a).attempts = r.attempts
BY WentOK

\* What it has tried stays tried.
LEMMA WentExcluded ==
    ASSUME NEW r \in Request, NEW phase, NEW a
    PROVE  Went(r, phase, a).excluded = r.excluded
BY DEF Request, Went

\* It ends.
LEMMA NoRequestOK ==
    /\ RequestOK(NoRequest)
    /\ NoRequest.phase = "idle" /\ NoRequest.attempts = 0
    /\ StepsLeft(NoRequest) = 0
<1>1. NoRequest \in Request BY LimitIsNat DEF NoRequest, Request, Phases
<1>2. NoRequest.phase = "idle" /\ NoRequest.attempts = 0 BY DEF NoRequest
<1>3. StepsLeft(NoRequest) = 0 BY <1>2, AwaitsValues DEF StepsLeft
<1>4. QED BY <1>1, <1>2, <1>3 DEF RequestOK, HasAccount, Holding

\* It has failed on one account and tries the next, or gives up.
LEMMA AfterFailureOK ==
    ASSUME NEW r, RequestOK(r), r.phase \in {"leased", "settled"}
    PROVE  /\ RequestOK(AfterFailure(r))
           /\ AfterFailure(r).phase \in {"idle", "select"}
           /\ AfterFailure(r).phase = "select" =>
                /\ AfterFailure(r).excluded = r.excluded \cup {r.account}
                /\ AfterFailure(r).attempts = r.attempts - 1
                /\ AfterFailure(r).account = NoAccount
           /\ StepsLeft(AfterFailure(r)) < StepsLeft(r)
           /\ AfterFailure(r).phase = "idle" => r.attempts <= 1
<1> DEFINE f == AfterFailure(r)
<1>1. r \in Request /\ r.account \in Accounts BY DEF RequestOK, HasAccount, Holding
<1>2. StepsLeft(r) \in Int /\ StepsLeft(r) >= 10 * r.attempts + 2 /\ r.attempts \in Nat
  BY <1>1, RequestFields, AwaitsValues DEF StepsLeft
<1>3. CASE r.attempts > 1
  <2> DEFINE retry == [r EXCEPT !.excluded = @ \cup {r.account}, !.attempts = @ - 1,
                                !.account = NoAccount, !.phase = "select"]
  <2>1. f = retry BY <1>3 DEF AfterFailure
  <2>2. retry \in Request
    <3>1. r.attempts - 1 \in 0..Max({MaxAttempts, 1})
      <4> DEFINE m == Max({MaxAttempts, 1})
      <4>1. m \in Nat BY LimitIsNat
      <4>2. r.attempts \in Nat /\ r.attempts <= m BY <1>1, RequestFields
      <4> HIDE DEF m
      <4>3. r.attempts - 1 \in 0..m BY <1>3, <4>1, <4>2
      <4>4. QED BY <4>3 DEF m
    <3>2. r.excluded \cup {r.account} \in SUBSET Accounts BY <1>1, RequestFields
    <3>3. "select" \in Phases BY DEF Phases
    <3>4. QED BY <1>1, <3>1, <3>2, <3>3 DEF Request
  <2>3. /\ retry.phase = "select" /\ retry.account = NoAccount
        /\ retry.attempts = r.attempts - 1
        /\ retry.excluded = r.excluded \cup {r.account}
    BY <1>1 DEF Request
  <2>4. RequestOK(retry) BY <2>2, <2>3 DEF RequestOK, HasAccount, Holding
  <2>5. StepsLeft(retry) = 10 * (r.attempts - 1) + 8 BY <2>3, AwaitsValues DEF StepsLeft
  <2>6. QED BY <1>2, <2>1, <2>3, <2>4, <2>5
<1>4. CASE ~(r.attempts > 1)
  <2>1. f = NoRequest BY <1>4 DEF AfterFailure
  <2>2. QED BY <1>2, <1>4, <2>1, NoRequestOK
<1>5. QED BY <1>3, <1>4

\* It leaves its loop with a stream or as a bridge.
Left(r, phase) == [NoRequest EXCEPT !.kind = r.kind, !.phase = phase, !.account = r.account]

\* What it is then.
LEMMA LeftOK ==
    ASSUME NEW r, RequestOK(r), r.phase \in HasAccount, NEW phase \in {"streaming", "open"}
    PROVE  /\ RequestOK(Left(r, phase))
           /\ Left(r, phase).phase = phase
           /\ Left(r, phase).account = r.account
           /\ Left(r, phase).attempts = 0
<1> DEFINE l == Left(r, phase)
<1>1. r.account \in Accounts /\ r.kind \in Kinds \cup {"none"}
  BY RequestFields DEF RequestOK
<1>2. NoRequest \in Request BY LimitIsNat DEF NoRequest, Request, Phases
<1>3. phase \in Phases BY DEF Phases, Holding
<1>4. l \in Request BY <1>1, <1>2, <1>3 DEF Left, Request
<1>5. l.phase = phase /\ l.account = r.account /\ l.attempts = NoRequest.attempts
  BY <1>2 DEF Left, Request
<1>6. NoRequest.attempts = 0 BY DEF NoRequest
<1>7. QED BY <1>1, <1>4, <1>5, <1>6 DEF RequestOK

-----------------------------------------------------------------------------
(***************************************************************************)
(* The count of holders.                                                   *)
(***************************************************************************)
\* There are finitely many of them.
LEMMA HoldersFinite ==
    ASSUME NEW a
    PROVE  IsFiniteSet(Holders(a)) /\ Cardinality(Holders(a)) \in Nat
<1>1. Holders(a) \in SUBSET Clients BY DEF Holders
<1>2. QED BY <1>1, FS_Subset, FS_CardinalityType, PoolAssumption

\* Who holds an account is counted for it.
LEMMA HolderCounted ==
    ASSUME NEW a, NEW c \in Holders(a)
    PROVE  Cardinality(Holders(a)) >= 1
BY HoldersFinite, FS_EmptySet

\* When one request changes, the holders of an account change by that request.
LEMMA HoldersChange ==
    ASSUME requests \in [Clients -> Request], NEW c \in Clients, NEW r, NEW a,
           requests' = [requests EXCEPT ![c] = r]
    PROVE  Cardinality(Holders(a)') + Held(requests[c], a) = Cardinality(Holders(a)) + Held(r, a)
<1> DEFINE others == Holders(a) \ {c}
<1>1. IsFiniteSet(others) /\ Cardinality(others) \in Nat
  BY HoldersFinite, FS_RemoveElement, FS_CardinalityType
<1>2. Cardinality(Holders(a)) = Cardinality(others) + Held(requests[c], a)
  <2>1. CASE c \in Holders(a)
    <3>1. Held(requests[c], a) = 1 BY <2>1 DEF Holders, Held
    <3>2. Cardinality(others) = Cardinality(Holders(a)) - 1
      BY <2>1, HoldersFinite, FS_RemoveElement
    <3>3. Cardinality(Holders(a)) \in Nat BY HoldersFinite
    <3>4. QED BY <3>1, <3>2, <3>3
  <2>2. CASE c \notin Holders(a)
    <3>1. Held(requests[c], a) = 0 BY <2>2 DEF Holders, Held
    <3>2. QED BY <2>2, <3>1, HoldersFinite, FS_RemoveElement
  <2>3. QED BY <2>1, <2>2
<1>3. Cardinality(Holders(a)') = Cardinality(others) + Held(r, a)
  <2>1. requests'[c] = r /\ \A d \in Clients : d # c => requests'[d] = requests[d] OBVIOUS
  <2>2. CASE r.account = a /\ r.phase \in Holding
    <3>1. Holders(a)' = others \cup {c} BY <2>1, <2>2 DEF Holders
    <3>2. QED BY <1>1, <2>2, <3>1, FS_AddElement DEF Held
  <2>3. CASE ~(r.account = a /\ r.phase \in Holding)
    <3>1. Holders(a)' = others BY <2>1, <2>3 DEF Holders
    <3>2. QED BY <1>1, <2>3, <3>1 DEF Held
  <2>4. QED BY <2>2, <2>3
<1>4. Held(r, a) \in Int /\ Held(requests[c], a) \in Int BY DEF Held
<1>5. QED BY <1>1, <1>2, <1>3, <1>4

-----------------------------------------------------------------------------
(***************************************************************************)
(* What the statements do.                                                 *)
(***************************************************************************)
\* The UPDATE that acquires an account.
LEMMA AcquiredOK ==
    ASSUME TablesOK, NEW a \in Accounts, Eligible(a), inflight' = Acquired(a)
    PROVE  /\ inflight' \in [Accounts -> Nat]
           /\ inflight'[a] = inflight[a] + 1
           /\ \A b \in Accounts \ {a} : inflight'[b] = inflight[b]
           /\ EligibleTaken
BY DEF TablesOK, Acquired, EligibleTaken

\* The UPDATE that releases one.
LEMMA ReleasedOK ==
    ASSUME TablesOK, NEW a \in Accounts, inflight' = Released(a)
    PROVE  /\ inflight' \in [Accounts -> Nat]
           /\ status[a] # "deleted" /\ inflight[a] >= 1 => inflight'[a] = inflight[a] - 1
           /\ \A b \in Accounts \ {a} : inflight'[b] = inflight[b]
           /\ EligibleTaken
<1>1. inflight[a] \in Nat /\ inflight \in [Accounts -> Nat] BY DEF TablesOK
<1>2. inflight'[a] = IF status[a] = "deleted" \/ inflight[a] = 0 THEN inflight[a] ELSE inflight[a] - 1
  BY <1>1 DEF Released
<1>3. inflight'[a] \in Nat /\ inflight'[a] <= inflight[a] BY <1>1, <1>2
<1>4. inflight' \in [Accounts -> Nat] /\ \A b \in Accounts \ {a} : inflight'[b] = inflight[b]
  BY <1>1, <1>2, <1>3 DEF Released
<1>5. EligibleTaken BY <1>1, <1>3, <1>4 DEF EligibleTaken
<1>6. QED BY <1>1, <1>2, <1>4, <1>5

\* A release is left to a task.
LEMMA SpawnedOK ==
    ASSUME TablesOK, NEW a \in Accounts, SpawnRelease(a)
    PROVE  /\ releases' \in [Accounts -> Nat]
           /\ releases'[a] = releases[a] + 1
           /\ \A b \in Accounts \ {a} : releases'[b] = releases[b]
BY DEF TablesOK, SpawnRelease

\* An account is given up, cooled down or left alone; a deleted one stays deleted.
LEMMA OutcomeOK ==
    ASSUME TablesOK, NEW a \in Accounts,
           MarkAuthFailed(a) \/ CooldownAccount(a) \/ UNCHANGED <<status, barred>>
    PROVE  /\ status' \in [Accounts -> Statuses] /\ barred' \in SUBSET Accounts
           /\ \A b \in Accounts : status'[b] # "deleted" => status[b] # "deleted"
<1>1. CASE MarkAuthFailed(a) BY <1>1 DEF TablesOK, MarkAuthFailed, Statuses
<1>2. CASE CooldownAccount(a) BY <1>2 DEF TablesOK, CooldownAccount
<1>3. CASE UNCHANGED <<status, barred>> BY <1>3 DEF TablesOK
<1>4. QED BY <1>1, <1>2, <1>3

\* A bind leads to an account or changes nothing.
LEMMA BoundOK ==
    ASSUME TablesOK, NEW a \in Accounts, BindSession(a)
    PROVE  pin' \in Accounts \cup {NoAccount}
BY DEF TablesOK, BindSession

\* The ledger has counted whoever holds an account.
LEMMA HolderInflight ==
    ASSUME PoolInv, InflightExact, NEW c \in Clients, requests[c].phase \in Holding,
           status[requests[c].account] # "deleted"
    PROVE  inflight[requests[c].account] >= 1
<1> DEFINE a == requests[c].account
<1>1. a \in Accounts BY DEF PoolInv, RequestOK, HasAccount
<1>2. c \in Holders(a) BY DEF Holders
<1>3. Cardinality(Holders(a)) >= 1 BY <1>2, HolderCounted
<1>4. Cardinality(Holders(a)) \in Nat BY HoldersFinite
<1>5. releases[a] \in Nat BY <1>1 DEF PoolInv, TablesOK
<1>6. inflight[a] = Cardinality(Holders(a)) + releases[a] BY <1>1 DEF InflightExact
<1>7. QED BY <1>3, <1>4, <1>5, <1>6

-----------------------------------------------------------------------------
(***************************************************************************)
(* What follows for the pool when a request becomes another.               *)
(***************************************************************************)
\* The invariant holds again, an account that was acquired was eligible, and the request has
\* less before it.
LEMMA BecomesInv ==
    ASSUME PoolInv, NEW c \in Clients, NEW r, RequestBecomes(c, r)
    PROVE  /\ PoolInv'
           /\ EligibleTaken
           /\ \A d \in Clients :
                requests[d].phase \notin {"idle", "open"} /\ requests'[d] # requests[d]
                  => StepsLeft(requests'[d]) < StepsLeft(requests[d])
<1>1. requests' = [requests EXCEPT ![c] = r] /\ RequestOK(r) /\ TablesOK' /\ EligibleTaken
  BY DEF RequestBecomes
<1>2. requests \in [Clients -> Request] /\ \A d \in Clients : RequestOK(requests[d])
  BY DEF PoolInv
<1>3. r \in Request BY <1>1 DEF RequestOK
<1>4. requests' \in [Clients -> Request] BY <1>1, <1>2, <1>3
<1>5. requests'[c] = r /\ \A d \in Clients : d # c => requests'[d] = requests[d]
  BY <1>1, <1>2
<1>6. \A d \in Clients : RequestOK(requests'[d]) BY <1>1, <1>2, <1>5
<1>7. PoolInv' BY <1>1, <1>4, <1>6 DEF PoolInv, RequestOK
<1>8. ASSUME NEW d \in Clients, requests[d].phase \notin {"idle", "open"},
             requests'[d] # requests[d]
      PROVE  StepsLeft(requests'[d]) < StepsLeft(requests[d])
  <2>1. d = c /\ requests'[d] = r BY <1>5, <1>8
  <2>2. Lower(c, r) BY DEF RequestBecomes
  <2>3. QED BY <1>8, <2>1, <2>2 DEF Lower
<1>9. QED BY <1>1, <1>7, <1>8

\* The ledger balances again.
LEMMA BecomesExact ==
    ASSUME PoolInv, InflightExact, LeavesSafely, NEW c \in Clients, NEW r, RequestBecomes(c, r)
    PROVE  InflightExact'
<1>1. requests' = [requests EXCEPT ![c] = r] /\ Balanced(c, r) /\ TablesOK'
  BY DEF RequestBecomes
<1>2. SUFFICES ASSUME NEW a \in Accounts, status'[a] # "deleted"
               PROVE  inflight'[a] = Cardinality(Holders(a)') + releases'[a]
  BY DEF InflightExact
<1>3. /\ status[a] # "deleted"
      /\ inflight'[a] + releases[a] + Held(requests[c], a) = inflight[a] + releases'[a] + Held(r, a)
  BY <1>1, <1>2 DEF Balanced
<1>4. inflight[a] = Cardinality(Holders(a)) + releases[a] BY <1>3 DEF InflightExact
<1>5. Cardinality(Holders(a)') + Held(requests[c], a) = Cardinality(Holders(a)) + Held(r, a)
  BY <1>1, HoldersChange DEF PoolInv
<1>6. /\ inflight[a] \in Nat /\ inflight'[a] \in Nat /\ releases[a] \in Nat /\ releases'[a] \in Nat
  BY <1>1 DEF PoolInv, TablesOK
<1>7. Held(r, a) \in Int /\ Held(requests[c], a) \in Int BY DEF Held
<1>8. Cardinality(Holders(a)) \in Nat BY HoldersFinite
<1>9. Cardinality(Holders(a)') \in Nat
  <2>1. Holders(a)' \in SUBSET Clients BY DEF Holders
  <2>2. QED BY <2>1, FS_Subset, FS_CardinalityType, PoolAssumption
<1>10. QED BY <1>3, <1>4, <1>5, <1>6, <1>7, <1>8, <1>9

-----------------------------------------------------------------------------
(***************************************************************************)
(* The steps of a request.                                                 *)
(***************************************************************************)

\* A request arrives.
LEMMA ArriveOK ==
    ASSUME PoolInv, NEW c \in Clients, Arrive(c)
    PROVE  \E r : RequestBecomes(c, r)
<1>1. PICK kind \in KindsOf[c] :
          requests' = [requests EXCEPT
                         ![c] = [NoRequest EXCEPT !.kind = kind, !.phase = "select",
                                                  !.attempts = ProxyAttempts]]
  BY DEF Arrive
<1> DEFINE r == [NoRequest EXCEPT !.kind = kind, !.phase = "select", !.attempts = ProxyAttempts]
<1>2. requests' = [requests EXCEPT ![c] = r] BY <1>1
<1>3. kind \in Kinds BY PoolAssumption
<1>4. NoRequest \in Request BY LimitIsNat DEF NoRequest, Request, Phases
<1>5. r \in Request BY <1>3, <1>4, AttemptsInRange DEF Request, Phases
<1>6. r.phase = "select" /\ r.excluded = {} /\ r.attempts = ProxyAttempts /\ r.account = NoAccount
  BY DEF NoRequest
<1>7. RequestOK(r) BY <1>5, <1>6 DEF RequestOK, HasAccount, Holding
<1>8. TablesOK' BY DEF PoolInv, TablesOK, Arrive
<1>9. requests[c].phase = "idle" BY DEF Arrive, InPhase
<1> HIDE DEF r
<1>10. Lower(c, r) BY <1>9 DEF Lower
<1>11. Balanced(c, r)
  <2>1. UNCHANGED <<status, inflight, releases>> BY DEF Arrive
  <2>2. \A b \in Accounts : Held(requests[c], b) = Held(r, b) BY <1>6, <1>9 DEF Held, Holding
  <2>3. QED BY <2>1, <2>2 DEF Balanced
<1>12. EligibleTaken
  <2>1. UNCHANGED inflight BY DEF Arrive
  <2>2. QED BY <2>1 DEF PoolInv, TablesOK, EligibleTaken
<1>c. Continues(c, r) BY <1>2, <1>6, <1>9, PoolAssumption DEF Continues, Loop
<1>13. QED BY <1>c, <1>2, <1>7, <1>8, <1>10, <1>11, <1>12 DEF RequestBecomes

\* The lookup finds a pinned account.
LEMMA PinFoundOK ==
    ASSUME PoolInv, NEW c \in Clients, LookUpPin(c), pin \in Untried(requests[c]), GoTo(c, "sticky", pin)
    PROVE  \E r : RequestBecomes(c, r)
<1> DEFINE old == requests[c]
           a == old.account
           r == Went(old, "sticky", pin)
<1>1. TablesOK /\ RequestOK(old) /\ requests \in [Clients -> Request] /\ old \in Request
  BY DEF PoolInv, RequestOK
<1>2. old.phase = "select" /\ pin \in Accounts /\ pin \notin old.excluded
  BY DEF LookUpPin, InPhase, Untried
<1>3. requests' = [requests EXCEPT ![c] = r]
  BY <1>1 DEF LookUpPin, GoTo, Went
<1>4. RequestOK(r) /\ r.phase = "sticky" /\ r.account = pin /\ r.attempts = old.attempts
  BY <1>1, <1>2, WentOK DEF Phases, HasAccount, Holding
<1>5. TablesOK'
  BY <1>1 DEF LookUpPin, TablesOK
<1>6. EligibleTaken
  <2>1. UNCHANGED inflight BY DEF LookUpPin
  <2>2. QED BY <1>1, <2>1 DEF TablesOK, EligibleTaken
<1>e. r.excluded = old.excluded BY <1>1, WentExcluded
<1> HIDE DEF r
<1>7. Lower(c, r)
  BY <1>1, <1>2, <1>4, RequestFields, AwaitsValues DEF Lower, StepsLeft
<1>8. ASSUME LeavesSafely, InflightExact PROVE Balanced(c, r)
  <2>1. UNCHANGED <<status, inflight, releases>> BY DEF LookUpPin
  <2>2. \A b \in Accounts : Held(old, b) = Held(r, b) BY <1>2, <1>4 DEF Held, Holding
  <2>3. QED BY <2>1, <2>2 DEF Balanced
<1>c. Continues(c, r) BY <1>1, <1>2, <1>4, <1>e, PoolAssumption DEF Continues, Loop
<1>9. QED BY <1>c, <1>3, <1>4, <1>5, <1>6, <1>7, <1>8 DEF RequestBecomes

\* The lookup finds none that can be used.
LEMMA PinMissedOK ==
    ASSUME PoolInv, NEW c \in Clients, LookUpPin(c), GoTo(c, "choose", NoAccount)
    PROVE  \E r : RequestBecomes(c, r)
<1> DEFINE old == requests[c]
           a == old.account
           r == Went(old, "choose", NoAccount)
<1>1. TablesOK /\ RequestOK(old) /\ requests \in [Clients -> Request] /\ old \in Request
  BY DEF PoolInv, RequestOK
<1>2. old.phase = "select" BY DEF LookUpPin, InPhase
<1>3. requests' = [requests EXCEPT ![c] = r]
  BY <1>1 DEF LookUpPin, GoTo, Went
<1>4. RequestOK(r) /\ r.phase = "choose" /\ r.account = NoAccount /\ r.attempts = old.attempts
  BY <1>1, <1>2, WentOK DEF Phases, HasAccount, Holding
<1>5. TablesOK'
  BY <1>1 DEF LookUpPin, TablesOK
<1>6. EligibleTaken
  <2>1. UNCHANGED inflight BY DEF LookUpPin
  <2>2. QED BY <1>1, <2>1 DEF TablesOK, EligibleTaken
<1>e. r.excluded = old.excluded BY <1>1, WentExcluded
<1> HIDE DEF r
<1>7. Lower(c, r)
  BY <1>1, <1>2, <1>4, RequestFields, AwaitsValues DEF Lower, StepsLeft
<1>8. ASSUME LeavesSafely, InflightExact PROVE Balanced(c, r)
  <2>1. UNCHANGED <<status, inflight, releases>> BY DEF LookUpPin
  <2>2. \A b \in Accounts : Held(old, b) = Held(r, b) BY <1>2, <1>4 DEF Held, Holding
  <2>3. QED BY <2>1, <2>2 DEF Balanced
<1>c. Continues(c, r) BY <1>1, <1>2, <1>4, <1>e, RequestFields, PoolAssumption DEF Continues, Loop
<1>9. QED BY <1>c, <1>3, <1>4, <1>5, <1>6, <1>7, <1>8 DEF RequestBecomes

\* The lookup as a whole.
LEMMA LookUpPinOK ==
    ASSUME PoolInv, NEW c \in Clients, LookUpPin(c)
    PROVE  \E r : RequestBecomes(c, r)
<1>1. CASE pin \in Untried(requests[c]) /\ GoTo(c, "sticky", pin) BY <1>1, PinFoundOK
<1>2. CASE GoTo(c, "choose", NoAccount) BY <1>2, PinMissedOK
<1>3. QED BY <1>1, <1>2 DEF LookUpPin

\* The pinned account is still there.
LEMMA StickyTakenOK ==
    ASSUME PoolInv, NEW c \in Clients, AcquireSticky(c), AcquirableNow(requests[c].account)
    PROVE  \E r : RequestBecomes(c, r)
<1> DEFINE old == requests[c]
           a == old.account
           r == Went(old, "acquired", a)
<1>1. TablesOK /\ RequestOK(old) /\ requests \in [Clients -> Request] /\ old \in Request
  BY DEF PoolInv, RequestOK
<1>2. old.phase = "sticky" /\ a \in Accounts /\ Eligible(a) /\ inflight' = Acquired(a)
  BY <1>1 DEF AcquireSticky, InPhase, RequestOK, HasAccount, AcquirableNow
<1>3. requests' = [requests EXCEPT ![c] = r]
  BY <1>1 DEF AcquireSticky, GoTo, Went
<1>4. RequestOK(r) /\ r.phase = "acquired" /\ r.account = a /\ r.attempts = old.attempts
  <2>1. RequestOK(old) /\ a \in Accounts BY <1>1, <1>2
  <2> HIDE DEF a, old
  <2>2. QED BY <2>1, WentWithOK, HoldingPhases
<1>5. TablesOK'
  <2>1. inflight' \in [Accounts -> Nat] BY <1>1, <1>2, AcquiredOK
  <2>2. QED BY <1>1, <2>1 DEF AcquireSticky, TablesOK
<1>6. EligibleTaken
  BY <1>1, <1>2, AcquiredOK
<1>e. r.excluded = old.excluded BY <1>1, WentExcluded
<1> HIDE DEF r
<1>7. Lower(c, r)
  BY <1>1, <1>2, <1>4, RequestFields, AwaitsValues DEF Lower, StepsLeft
<1>8. ASSUME LeavesSafely, InflightExact PROVE Balanced(c, r)
  <2>1. UNCHANGED <<status, releases>> BY DEF AcquireSticky
  <2>2. /\ inflight'[a] = inflight[a] + 1
        /\ \A b \in Accounts \ {a} : inflight'[b] = inflight[b]
    BY <1>1, <1>2, AcquiredOK
  <2>3. /\ \A b \in Accounts : Held(old, b) = 0 /\ Held(r, b) = IF b = a THEN 1 ELSE 0
    BY <1>2, <1>4 DEF Held, Holding
  <2>4. QED BY <1>1, <1>2, <2>1, <2>2, <2>3 DEF Balanced, TablesOK
<1>c. Continues(c, r) BY <1>1, <1>2, <1>4, <1>e, PoolAssumption DEF Continues, Loop
<1>9. QED BY <1>c, <1>3, <1>4, <1>5, <1>6, <1>7, <1>8 DEF RequestBecomes

\* The pinned account has become unavailable.
LEMMA StickyMissedOK ==
    ASSUME PoolInv, NEW c \in Clients, AcquireSticky(c), ~AcquirableNow(requests[c].account)
    PROVE  \E r : RequestBecomes(c, r)
<1> DEFINE old == requests[c]
           a == old.account
           r == Went(old, "choose", NoAccount)
<1>1. TablesOK /\ RequestOK(old) /\ requests \in [Clients -> Request] /\ old \in Request
  BY DEF PoolInv, RequestOK
<1>2. old.phase = "sticky" BY DEF AcquireSticky, InPhase
<1>3. requests' = [requests EXCEPT ![c] = r]
  BY <1>1 DEF AcquireSticky, AfterStickyMiss, GoTo, Went
<1>4. RequestOK(r) /\ r.phase = "choose" /\ r.account = NoAccount /\ r.attempts = old.attempts
  BY <1>1, <1>2, WentOK DEF Phases, HasAccount, Holding
<1>5. TablesOK'
  BY <1>1 DEF AcquireSticky, TablesOK
<1>6. EligibleTaken
  <2>1. UNCHANGED inflight BY DEF AcquireSticky
  <2>2. QED BY <1>1, <2>1 DEF TablesOK, EligibleTaken
<1>e. r.excluded = old.excluded BY <1>1, WentExcluded
<1> HIDE DEF r
<1>7. Lower(c, r)
  BY <1>1, <1>2, <1>4, RequestFields, AwaitsValues DEF Lower, StepsLeft
<1>8. ASSUME LeavesSafely, InflightExact PROVE Balanced(c, r)
  <2>1. UNCHANGED <<status, inflight, releases>> BY DEF AcquireSticky
  <2>2. \A b \in Accounts : Held(old, b) = Held(r, b) BY <1>2, <1>4 DEF Held, Holding
  <2>3. QED BY <2>1, <2>2 DEF Balanced
<1>c. Continues(c, r) BY <1>1, <1>2, <1>4, <1>e, RequestFields, PoolAssumption DEF Continues, Loop
<1>9. QED BY <1>c, <1>3, <1>4, <1>5, <1>6, <1>7, <1>8 DEF RequestBecomes

\* Selection takes an eligible account.
LEMMA SmartTakenOK ==
    ASSUME PoolInv, NEW c \in Clients, AcquireSmart(c)
    PROVE  \E r : RequestBecomes(c, r)
<1> DEFINE old == requests[c]
<1>1. TablesOK /\ RequestOK(old) /\ requests \in [Clients -> Request] /\ old \in Request
  BY DEF PoolInv, RequestOK
<1>2. PICK a \in Accounts : /\ a \notin old.excluded
                            /\ Eligible(a) /\ inflight' = Acquired(a) /\ GoTo(c, "acquired", a)
  BY DEF AcquireSmart, Untried
<1> DEFINE r == Went(old, "acquired", a)
<1>3. old.phase = "choose" BY DEF AcquireSmart, InPhase
<1>4. requests' = [requests EXCEPT ![c] = r] BY <1>1, <1>2 DEF GoTo, Went
<1>5. RequestOK(r) /\ r.phase = "acquired" /\ r.account = a /\ r.attempts = old.attempts
  BY <1>1, <1>3, WentOK DEF Phases, HasAccount, Holding
<1>6. /\ inflight' \in [Accounts -> Nat] /\ inflight'[a] = inflight[a] + 1
      /\ \A b \in Accounts \ {a} : inflight'[b] = inflight[b]
      /\ EligibleTaken
  BY <1>1, <1>2, AcquiredOK
<1>7. UNCHANGED <<status, barred, pin, releases>> BY DEF AcquireSmart
<1>8. TablesOK' BY <1>1, <1>6, <1>7 DEF TablesOK
<1>e. r.excluded = old.excluded BY <1>1, WentExcluded
<1> HIDE DEF r
<1>9. Lower(c, r) BY <1>1, <1>3, <1>5, RequestFields, AwaitsValues DEF Lower, StepsLeft
<1>10. Balanced(c, r)
  <2>1. \A b \in Accounts : Held(old, b) = 0 /\ Held(r, b) = IF b = a THEN 1 ELSE 0
    BY <1>3, <1>5 DEF Held, Holding
  <2>2. QED BY <1>1, <1>6, <1>7, <2>1 DEF Balanced, TablesOK
<1>c. Continues(c, r) BY <1>1, <1>2, <1>3, <1>5, <1>e, PoolAssumption DEF Continues, Loop
<1>11. QED BY <1>c, <1>4, <1>5, <1>6, <1>8, <1>9, <1>10 DEF RequestBecomes

\* No account is left: the request ends with what it has.
LEMMA NoneEligibleOK ==
    ASSUME PoolInv, NEW c \in Clients, NoneEligible(c)
    PROVE  \E r : RequestBecomes(c, r)
<1> DEFINE old == requests[c]
           a == old.account
           r == NoRequest
<1>1. TablesOK /\ RequestOK(old) /\ requests \in [Clients -> Request] /\ old \in Request
  BY DEF PoolInv, RequestOK
<1>2. old.phase = "choose" BY DEF NoneEligible, InPhase
<1>3. requests' = [requests EXCEPT ![c] = r]
  BY <1>1 DEF NoneEligible, End
<1>4. RequestOK(r) /\ r.phase = "idle" /\ r.attempts = 0
  BY NoRequestOK
<1>5. TablesOK'
  BY <1>1 DEF NoneEligible, TablesOK
<1>6. EligibleTaken
  <2>1. UNCHANGED inflight BY DEF NoneEligible
  <2>2. QED BY <1>1, <2>1 DEF TablesOK, EligibleTaken
<1> HIDE DEF r
<1>7. Lower(c, r)
  BY <1>1, <1>2, <1>4, RequestFields, AwaitsValues DEF Lower, StepsLeft
<1>8. ASSUME LeavesSafely, InflightExact PROVE Balanced(c, r)
  <2>1. UNCHANGED <<status, inflight, releases>> BY DEF NoneEligible
  <2>2. \A b \in Accounts : Held(old, b) = Held(r, b) BY <1>2, <1>4 DEF Held, Holding
  <2>3. QED BY <2>1, <2>2 DEF Balanced
<1>c. Continues(c, r) BY <1>1, <1>2, <1>4, PoolAssumption DEF Continues, Loop
<1>9. QED BY <1>c, <1>3, <1>4, <1>5, <1>6, <1>7, <1>8 DEF RequestBecomes

\* The account is read, and the lease made.
LEMMA ReadAccountOK ==
    ASSUME PoolInv, NEW c \in Clients, ReadAccount(c)
    PROVE  \E r : RequestBecomes(c, r)
<1> DEFINE old == requests[c]
           a == old.account
           r == Went(old, "leased", a)
<1>1. TablesOK /\ RequestOK(old) /\ requests \in [Clients -> Request] /\ old \in Request
  BY DEF PoolInv, RequestOK
<1>2. old.phase = "acquired" /\ a \in Accounts
  BY <1>1 DEF ReadAccount, InPhase, RequestOK, HasAccount, Holding
<1>3. requests' = [requests EXCEPT ![c] = r]
  BY <1>1 DEF ReadAccount, GoTo, Went
<1>4. RequestOK(r) /\ r.phase = "leased" /\ r.account = a /\ r.attempts = old.attempts
  <2>1. RequestOK(old) /\ a \in Accounts BY <1>1, <1>2
  <2> HIDE DEF a, old
  <2>2. QED BY <2>1, WentWithOK, HoldingPhases
<1>5. TablesOK'
  BY <1>1 DEF ReadAccount, TablesOK
<1>6. EligibleTaken
  <2>1. UNCHANGED inflight BY DEF ReadAccount
  <2>2. QED BY <1>1, <2>1 DEF TablesOK, EligibleTaken
<1>e. r.excluded = old.excluded BY <1>1, WentExcluded
<1> HIDE DEF r
<1>7. Lower(c, r)
  BY <1>1, <1>2, <1>4, RequestFields, AwaitsValues DEF Lower, StepsLeft
<1>8. ASSUME LeavesSafely, InflightExact PROVE Balanced(c, r)
  <2>1. UNCHANGED <<status, inflight, releases>> BY DEF ReadAccount
  <2>2. \A b \in Accounts : Held(old, b) = Held(r, b) BY <1>2, <1>4 DEF Held, Holding
  <2>3. QED BY <2>1, <2>2 DEF Balanced
<1>c. Continues(c, r) BY <1>1, <1>2, <1>4, <1>e, PoolAssumption DEF Continues, Loop
<1>9. QED BY <1>c, <1>3, <1>4, <1>5, <1>6, <1>7, <1>8 DEF RequestBecomes

\* It cannot be read and is released.
LEMMA ReadAccountFailsOK ==
    ASSUME PoolInv, NEW c \in Clients, ReadAccountFails(c)
    PROVE  \E r : RequestBecomes(c, r)
<1> DEFINE old == requests[c]
           a == old.account
           r == NoRequest
<1>1. TablesOK /\ RequestOK(old) /\ requests \in [Clients -> Request] /\ old \in Request
  BY DEF PoolInv, RequestOK
<1>2. old.phase = "acquired" /\ a \in Accounts /\ inflight' = Released(a)
  BY <1>1 DEF ReadAccountFails, InPhase, RequestOK, HasAccount, Holding
<1>3. requests' = [requests EXCEPT ![c] = r]
  BY <1>1 DEF ReadAccountFails, End
<1>4. RequestOK(r) /\ r.phase = "idle" /\ r.attempts = 0
  BY NoRequestOK
<1>5. TablesOK'
  <2>1. inflight' \in [Accounts -> Nat] BY <1>1, <1>2, ReleasedOK
  <2>2. QED BY <1>1, <2>1 DEF ReadAccountFails, TablesOK
<1>6. EligibleTaken
  BY <1>1, <1>2, ReleasedOK
<1> HIDE DEF r
<1>7. Lower(c, r)
  BY <1>1, <1>2, <1>4, RequestFields, AwaitsValues DEF Lower, StepsLeft
<1>8. ASSUME LeavesSafely, InflightExact PROVE Balanced(c, r)
  <2>1. UNCHANGED <<status, releases>> BY DEF ReadAccountFails
  <2>2. status[a] # "deleted" => inflight'[a] = inflight[a] - 1
    BY <1>1, <1>2, <1>8, HolderInflight, ReleasedOK DEF Holding
  <2>3. \A b \in Accounts \ {a} : inflight'[b] = inflight[b] BY <1>1, <1>2, ReleasedOK
  <2>4. \A b \in Accounts : Held(r, b) = 0 /\ Held(old, b) = IF b = a THEN 1 ELSE 0
    BY <1>2, <1>4 DEF Held, Holding
  <2>5. QED BY <1>1, <1>2, <2>1, <2>2, <2>3, <2>4 DEF Balanced, TablesOK
<1>c. Continues(c, r) BY <1>1, <1>2, <1>4, PoolAssumption DEF Continues, Loop
<1>9. QED BY <1>c, <1>3, <1>4, <1>5, <1>6, <1>7, <1>8 DEF RequestBecomes

\* An attempt fails; the account is returned and the next one tried.
LEMMA AttemptFailsOK ==
    ASSUME PoolInv, NEW c \in Clients, AttemptFails(c)
    PROVE  \E r : RequestBecomes(c, r)
<1> DEFINE old == requests[c]
           a == old.account
<1>1. TablesOK /\ RequestOK(old) /\ requests \in [Clients -> Request] /\ old \in Request
  BY DEF PoolInv, RequestOK
<1>2. old.phase = "leased" /\ a \in Accounts /\ SpawnRelease(a)
  BY <1>1 DEF AttemptFails, InPhase, RequestOK, HasAccount, Holding
<1>3. /\ MarkAuthFailed(a) \/ CooldownAccount(a) \/ UNCHANGED <<status, barred>>
      /\ requests' = [requests EXCEPT ![c] = AfterFailure(@)]
  BY DEF AttemptFails
<1> DEFINE r == AfterFailure(old)
<1>4. requests' = [requests EXCEPT ![c] = r] BY <1>1, <1>3
<1>5. /\ RequestOK(r) /\ r.phase \in {"idle", "select"} /\ StepsLeft(r) < StepsLeft(old)
      /\ r.phase = "select" => /\ r.excluded = old.excluded \cup {a}
                               /\ r.attempts = old.attempts - 1
                               /\ r.account = NoAccount
  BY <1>1, <1>2, AfterFailureOK
<1>6. /\ releases' \in [Accounts -> Nat] /\ releases'[a] = releases[a] + 1
      /\ \A b \in Accounts \ {a} : releases'[b] = releases[b]
  BY <1>1, <1>2, SpawnedOK
<1>7. /\ status' \in [Accounts -> Statuses] /\ barred' \in SUBSET Accounts
      /\ \A b \in Accounts : status'[b] # "deleted" => status[b] # "deleted"
  BY <1>1, <1>2, <1>3, OutcomeOK
<1>8. UNCHANGED <<inflight, pin>> BY DEF AttemptFails
<1>9. TablesOK' BY <1>1, <1>6, <1>7, <1>8 DEF TablesOK
<1>10. EligibleTaken BY <1>1, <1>8 DEF TablesOK, EligibleTaken
<1> HIDE DEF r
<1>11. Lower(c, r) BY <1>5 DEF Lower
<1>12. Balanced(c, r)
  <2>1. \A b \in Accounts : Held(r, b) = 0 /\ Held(old, b) = IF b = a THEN 1 ELSE 0
    BY <1>2, <1>5 DEF Held, Holding
  <2>2. QED BY <1>1, <1>2, <1>6, <1>7, <1>8, <2>1 DEF Balanced, TablesOK
<1>c. Continues(c, r) BY <1>1, <1>2, <1>5, PoolAssumption DEF Continues, Loop
<1>13. QED BY <1>c, <1>4, <1>5, <1>9, <1>10, <1>11, <1>12 DEF RequestBecomes

\* An error of the client is passed on to it.
LEMMA RefusedOK ==
    ASSUME PoolInv, NEW c \in Clients, Refused(c)
    PROVE  \E r : RequestBecomes(c, r)
<1> DEFINE old == requests[c]
           a == old.account
           r == NoRequest
<1>1. TablesOK /\ RequestOK(old) /\ requests \in [Clients -> Request] /\ old \in Request
  BY DEF PoolInv, RequestOK
<1>2. old.phase = "leased" /\ a \in Accounts /\ SpawnRelease(a)
  BY <1>1 DEF Refused, InPhase, RequestOK, HasAccount, Holding
<1>3. requests' = [requests EXCEPT ![c] = r]
  BY <1>1 DEF Refused, End
<1>4. RequestOK(r) /\ r.phase = "idle" /\ r.attempts = 0
  BY NoRequestOK
<1>5. TablesOK'
  <2>1. releases' \in [Accounts -> Nat] BY <1>1, <1>2, SpawnedOK
  <2>2. QED BY <1>1, <2>1 DEF Refused, TablesOK
<1>6. EligibleTaken
  <2>1. UNCHANGED inflight BY DEF Refused
  <2>2. QED BY <1>1, <2>1 DEF TablesOK, EligibleTaken
<1> HIDE DEF r
<1>7. Lower(c, r)
  BY <1>1, <1>2, <1>4, RequestFields, AwaitsValues DEF Lower, StepsLeft
<1>8. ASSUME LeavesSafely, InflightExact PROVE Balanced(c, r)
  <2>1. \A b \in Accounts : status'[b] # "deleted" => status[b] # "deleted"
    BY DEF Refused
  <2>2. releases'[a] = releases[a] + 1 /\ \A b \in Accounts \ {a} : releases'[b] = releases[b]
    BY <1>1, <1>2, SpawnedOK
  <2>3. UNCHANGED inflight BY DEF Refused
  <2>4. \A b \in Accounts : Held(r, b) = 0 /\ Held(old, b) = IF b = a THEN 1 ELSE 0
    BY <1>2, <1>4 DEF Held, Holding
  <2>5. QED BY <1>1, <1>2, <2>1, <2>2, <2>3, <2>4 DEF Balanced, TablesOK
<1>c. Continues(c, r) BY <1>1, <1>2, <1>4, PoolAssumption DEF Continues, Loop
<1>9. QED BY <1>c, <1>3, <1>4, <1>5, <1>6, <1>7, <1>8 DEF RequestBecomes

\* The response is passed on as a stream.
LEMMA StreamOK ==
    ASSUME PoolInv, NEW c \in Clients, Stream(c)
    PROVE  \E r : RequestBecomes(c, r)
<1> DEFINE old == requests[c]
           a == old.account
           r == Left(old, "streaming")
<1>1. TablesOK /\ RequestOK(old) /\ requests \in [Clients -> Request] /\ old \in Request
  BY DEF PoolInv, RequestOK
<1>2. old.phase = "leased" /\ a \in Accounts
  BY <1>1 DEF Stream, InPhase, RequestOK, HasAccount, Holding
<1>3. requests' = [requests EXCEPT ![c] = r]
  BY <1>1 DEF Stream, LeaveLoop, Left
<1>4. RequestOK(r) /\ r.phase = "streaming" /\ r.account = a /\ r.attempts = 0
  BY <1>1, <1>2, LeftOK DEF HasAccount, Holding
<1>5. TablesOK'
  <2>1. pin' \in Accounts \cup {NoAccount} BY <1>1, <1>2, BoundOK DEF Stream, TablesOK
  <2>2. QED BY <1>1, <2>1 DEF Stream, TablesOK
<1>6. EligibleTaken
  <2>1. UNCHANGED inflight BY DEF Stream
  <2>2. QED BY <1>1, <2>1 DEF TablesOK, EligibleTaken
<1> HIDE DEF r
<1>7. Lower(c, r)
  BY <1>1, <1>2, <1>4, RequestFields, AwaitsValues DEF Lower, StepsLeft
<1>8. ASSUME LeavesSafely, InflightExact PROVE Balanced(c, r)
  <2>1. UNCHANGED <<status, inflight, releases>> BY DEF Stream
  <2>2. \A b \in Accounts : Held(old, b) = Held(r, b) BY <1>2, <1>4 DEF Held, Holding
  <2>3. QED BY <2>1, <2>2 DEF Balanced
<1>c. Continues(c, r) BY <1>1, <1>2, <1>4, PoolAssumption DEF Continues, Loop
<1>9. QED BY <1>c, <1>3, <1>4, <1>5, <1>6, <1>7, <1>8 DEF RequestBecomes

\* The stream ends and its lease is released.
LEMMA StreamEndsOK ==
    ASSUME PoolInv, NEW c \in Clients, StreamEnds(c)
    PROVE  \E r : RequestBecomes(c, r)
<1> DEFINE old == requests[c]
           a == old.account
           r == NoRequest
<1>1. TablesOK /\ RequestOK(old) /\ requests \in [Clients -> Request] /\ old \in Request
  BY DEF PoolInv, RequestOK
<1>2. old.phase = "streaming" /\ a \in Accounts /\ SpawnRelease(a)
  BY <1>1 DEF StreamEnds, InPhase, RequestOK, HasAccount, Holding
<1>3. requests' = [requests EXCEPT ![c] = r]
  BY <1>1 DEF StreamEnds, End
<1>4. RequestOK(r) /\ r.phase = "idle" /\ r.attempts = 0
  BY NoRequestOK
<1>5. TablesOK'
  <2>1. releases' \in [Accounts -> Nat] BY <1>1, <1>2, SpawnedOK
  <2>2. QED BY <1>1, <2>1 DEF StreamEnds, TablesOK
<1>6. EligibleTaken
  <2>1. UNCHANGED inflight BY DEF StreamEnds
  <2>2. QED BY <1>1, <2>1 DEF TablesOK, EligibleTaken
<1> HIDE DEF r
<1>7. Lower(c, r)
  BY <1>1, <1>2, <1>4, RequestFields, AwaitsValues DEF Lower, StepsLeft
<1>8. ASSUME LeavesSafely, InflightExact PROVE Balanced(c, r)
  <2>1. \A b \in Accounts : status'[b] # "deleted" => status[b] # "deleted"
    BY DEF StreamEnds
  <2>2. releases'[a] = releases[a] + 1 /\ \A b \in Accounts \ {a} : releases'[b] = releases[b]
    BY <1>1, <1>2, SpawnedOK
  <2>3. UNCHANGED inflight BY DEF StreamEnds
  <2>4. \A b \in Accounts : Held(r, b) = 0 /\ Held(old, b) = IF b = a THEN 1 ELSE 0
    BY <1>2, <1>4 DEF Held, Holding
  <2>5. QED BY <1>1, <1>2, <2>1, <2>2, <2>3, <2>4 DEF Balanced, TablesOK
<1>c. Continues(c, r) BY <1>1, <1>2, <1>4, PoolAssumption DEF Continues, Loop
<1>9. QED BY <1>c, <1>3, <1>4, <1>5, <1>6, <1>7, <1>8 DEF RequestBecomes

\* A handshake succeeds or fails.
LEMMA HandshakeOK ==
    ASSUME PoolInv, NEW c \in Clients, Handshake(c)
    PROVE  \E r : RequestBecomes(c, r)
<1> DEFINE old == requests[c]
           a == old.account
<1>1. TablesOK /\ RequestOK(old) /\ requests \in [Clients -> Request] /\ old \in Request
  BY DEF PoolInv, RequestOK
<1>2. old.phase = "leased" /\ a \in Accounts
  BY <1>1 DEF Handshake, InPhase, RequestOK, HasAccount, Holding
<1>3. PICK connected \in BOOLEAN :
          /\ MarkAuthFailed(a) \/ CooldownAccount(a) \/ UNCHANGED <<status, barred>>
          /\ requests' = [requests EXCEPT ![c].phase = "settling", ![c].connected = connected]
  BY DEF Handshake
<1> DEFINE r == [old EXCEPT !.phase = "settling", !.connected = connected]
<1>4. requests' = [requests EXCEPT ![c] = r] BY <1>1, <1>3
<1>5. r \in Request BY <1>1 DEF Request, Phases, Holding
<1>6. /\ r.phase = "settling" /\ r.account = a /\ r.attempts = old.attempts
      /\ r.excluded = old.excluded
  BY <1>1 DEF Request
<1>7. RequestOK(r) BY <1>1, <1>2, <1>5, <1>6 DEF RequestOK, Loop
<1>8. /\ status' \in [Accounts -> Statuses] /\ barred' \in SUBSET Accounts
      /\ \A b \in Accounts : status'[b] # "deleted" => status[b] # "deleted"
  BY <1>1, <1>2, <1>3, OutcomeOK
<1>9. UNCHANGED <<inflight, pin, releases>> BY DEF Handshake
<1>10. TablesOK' BY <1>1, <1>8, <1>9 DEF TablesOK
<1>11. EligibleTaken BY <1>1, <1>9 DEF TablesOK, EligibleTaken
<1> HIDE DEF r
<1>12. Lower(c, r) BY <1>1, <1>2, <1>6, RequestFields, AwaitsValues DEF Lower, StepsLeft
<1>13. Balanced(c, r)
  <2>1. \A b \in Accounts : Held(r, b) = Held(old, b) BY <1>2, <1>6 DEF Held, Holding
  <2>2. QED BY <1>8, <1>9, <2>1 DEF Balanced
<1>c. Continues(c, r) BY <1>1, <1>2, <1>6, PoolAssumption DEF Continues, Loop
<1>14. QED BY <1>c, <1>4, <1>7, <1>10, <1>11, <1>12, <1>13 DEF RequestBecomes

\* The reservation of a handshake is released.
LEMMA ReleaseReservationOK ==
    ASSUME PoolInv, NEW c \in Clients, ReleaseReservation(c)
    PROVE  \E r : RequestBecomes(c, r)
<1> DEFINE old == requests[c]
           a == old.account
           r == Went(old, "settled", a)
<1>1. TablesOK /\ RequestOK(old) /\ requests \in [Clients -> Request] /\ old \in Request
  BY DEF PoolInv, RequestOK
<1>2. old.phase = "settling" /\ a \in Accounts /\ inflight' = Released(a)
  BY <1>1 DEF ReleaseReservation, InPhase, RequestOK, HasAccount, Holding, ReservationReleased
<1>3. requests' = [requests EXCEPT ![c] = r]
  BY <1>1 DEF ReleaseReservation, GoTo, Went
<1>4. RequestOK(r) /\ r.phase = "settled" /\ r.account = a /\ r.attempts = old.attempts
  <2>1. RequestOK(old) /\ a \in Accounts BY <1>1, <1>2
  <2> HIDE DEF a, old
  <2>2. QED BY <2>1, WentWithOK, HoldingPhases
<1>5. TablesOK'
  <2>1. inflight' \in [Accounts -> Nat] BY <1>1, <1>2, ReleasedOK
  <2>2. QED BY <1>1, <2>1 DEF ReleaseReservation, TablesOK
<1>6. EligibleTaken
  BY <1>1, <1>2, ReleasedOK
<1>e. r.excluded = old.excluded BY <1>1, WentExcluded
<1> HIDE DEF r
<1>7. Lower(c, r)
  BY <1>1, <1>2, <1>4, RequestFields, AwaitsValues DEF Lower, StepsLeft
<1>8. ASSUME LeavesSafely, InflightExact PROVE Balanced(c, r)
  <2>1. UNCHANGED <<status, releases>> BY DEF ReleaseReservation
  <2>2. status[a] # "deleted" => inflight'[a] = inflight[a] - 1
    BY <1>1, <1>2, <1>8, HolderInflight, ReleasedOK DEF Holding
  <2>3. \A b \in Accounts \ {a} : inflight'[b] = inflight[b] BY <1>1, <1>2, ReleasedOK
  <2>4. \A b \in Accounts : Held(r, b) = 0 /\ Held(old, b) = IF b = a THEN 1 ELSE 0
    BY <1>2, <1>4 DEF Held, Holding
  <2>5. QED BY <1>1, <1>2, <2>1, <2>2, <2>3, <2>4 DEF Balanced, TablesOK
<1>c. Continues(c, r) BY <1>1, <1>2, <1>4, <1>e, PoolAssumption DEF Continues, Loop
<1>9. QED BY <1>c, <1>3, <1>4, <1>5, <1>6, <1>7, <1>8 DEF RequestBecomes

\* The connection becomes a bridge.
LEMMA BridgeOpensOK ==
    ASSUME PoolInv, NEW c \in Clients, ReservationSettled(c), requests[c].connected
    PROVE  \E r : RequestBecomes(c, r)
<1> DEFINE old == requests[c]
           a == old.account
           r == Left(old, "open")
<1>1. TablesOK /\ RequestOK(old) /\ requests \in [Clients -> Request] /\ old \in Request
  BY DEF PoolInv, RequestOK
<1>2. old.phase = "settled" /\ a \in Accounts
  BY <1>1 DEF ReservationSettled, InPhase, RequestOK, HasAccount, Holding
<1>3. requests' = [requests EXCEPT ![c] = r]
  BY <1>1 DEF ReservationSettled, LeaveLoop, Left
<1>4. RequestOK(r) /\ r.phase = "open" /\ r.account = a /\ r.attempts = 0
  BY <1>1, <1>2, LeftOK DEF HasAccount, Holding
<1>5. TablesOK'
  <2>1. pin' \in Accounts \cup {NoAccount} BY <1>1, <1>2, BoundOK DEF ReservationSettled
  <2>2. QED BY <1>1, <2>1 DEF ReservationSettled, TablesOK
<1>6. EligibleTaken
  <2>1. UNCHANGED inflight BY DEF ReservationSettled
  <2>2. QED BY <1>1, <2>1 DEF TablesOK, EligibleTaken
<1> HIDE DEF r
<1>7. Lower(c, r)
  BY <1>1, <1>2, <1>4, RequestFields, AwaitsValues DEF Lower, StepsLeft
<1>8. ASSUME LeavesSafely, InflightExact PROVE Balanced(c, r)
  <2>1. UNCHANGED <<status, inflight, releases>> BY DEF ReservationSettled
  <2>2. \A b \in Accounts : Held(old, b) = Held(r, b) BY <1>2, <1>4 DEF Held, Holding
  <2>3. QED BY <2>1, <2>2 DEF Balanced
<1>c. Continues(c, r) BY <1>1, <1>2, <1>4, PoolAssumption DEF Continues, Loop
<1>9. QED BY <1>c, <1>3, <1>4, <1>5, <1>6, <1>7, <1>8 DEF RequestBecomes

\* The handshake has failed and the next account is tried.
LEMMA HandshakeFailedOK ==
    ASSUME PoolInv, NEW c \in Clients, ReservationSettled(c), ~requests[c].connected
    PROVE  \E r : RequestBecomes(c, r)
<1> DEFINE old == requests[c]
           a == old.account
           r == AfterFailure(old)
<1>1. TablesOK /\ RequestOK(old) /\ requests \in [Clients -> Request] /\ old \in Request
  BY DEF PoolInv, RequestOK
<1>2. old.phase = "settled" /\ a \in Accounts
  BY <1>1 DEF ReservationSettled, InPhase, RequestOK, HasAccount, Holding
<1>3. requests' = [requests EXCEPT ![c] = r]
  BY <1>1 DEF ReservationSettled
<1>4. /\ RequestOK(r) /\ r.phase \in {"idle", "select"} /\ StepsLeft(r) < StepsLeft(old)
      /\ r.phase = "select" => /\ r.excluded = old.excluded \cup {a}
                               /\ r.attempts = old.attempts - 1
                               /\ r.account = NoAccount
  BY <1>1, <1>2, AfterFailureOK
<1>5. TablesOK'
  BY <1>1 DEF ReservationSettled, TablesOK
<1>6. EligibleTaken
  <2>1. UNCHANGED inflight BY DEF ReservationSettled
  <2>2. QED BY <1>1, <2>1 DEF TablesOK, EligibleTaken
<1> HIDE DEF r
<1>7. Lower(c, r)
  BY <1>4 DEF Lower
<1>8. ASSUME LeavesSafely, InflightExact PROVE Balanced(c, r)
  <2>1. UNCHANGED <<status, inflight, releases>> BY DEF ReservationSettled
  <2>2. \A b \in Accounts : Held(old, b) = Held(r, b) BY <1>2, <1>4 DEF Held, Holding
  <2>3. QED BY <2>1, <2>2 DEF Balanced
<1>c. Continues(c, r) BY <1>1, <1>2, <1>4, PoolAssumption DEF Continues, Loop
<1>9. QED BY <1>c, <1>3, <1>4, <1>5, <1>6, <1>7, <1>8 DEF RequestBecomes

\* A turn acquires the account of its bridge.
LEMMA TurnStartsOK ==
    ASSUME PoolInv, NEW c \in Clients, StartTurn(c), AcquirableNow(requests[c].account)
    PROVE  \E r : RequestBecomes(c, r)
<1> DEFINE old == requests[c]
           a == old.account
           r == Went(old, "turn", a)
<1>1. TablesOK /\ RequestOK(old) /\ requests \in [Clients -> Request] /\ old \in Request
  BY DEF PoolInv, RequestOK
<1>2. old.phase = "open" /\ a \in Accounts /\ Eligible(a) /\ inflight' = Acquired(a)
  BY <1>1 DEF StartTurn, InPhase, RequestOK, HasAccount, AcquirableNow
<1>3. requests' = [requests EXCEPT ![c] = r]
  BY <1>1 DEF StartTurn, GoTo, Went
<1>4. RequestOK(r) /\ r.phase = "turn" /\ r.account = a /\ r.attempts = old.attempts
  <2>1. RequestOK(old) /\ a \in Accounts BY <1>1, <1>2
  <2> HIDE DEF a, old
  <2>2. QED BY <2>1, WentWithOK, HoldingPhases
<1>5. TablesOK'
  <2>1. inflight' \in [Accounts -> Nat] BY <1>1, <1>2, AcquiredOK
  <2>2. QED BY <1>1, <2>1 DEF StartTurn, TablesOK
<1>6. EligibleTaken
  BY <1>1, <1>2, AcquiredOK
<1>e. r.excluded = old.excluded BY <1>1, WentExcluded
<1> HIDE DEF r
<1>7. Lower(c, r)
  BY <1>2 DEF Lower
<1>8. ASSUME LeavesSafely, InflightExact PROVE Balanced(c, r)
  <2>1. UNCHANGED <<status, releases>> BY DEF StartTurn
  <2>2. /\ inflight'[a] = inflight[a] + 1
        /\ \A b \in Accounts \ {a} : inflight'[b] = inflight[b]
    BY <1>1, <1>2, AcquiredOK
  <2>3. /\ \A b \in Accounts : Held(old, b) = 0 /\ Held(r, b) = IF b = a THEN 1 ELSE 0
    BY <1>2, <1>4 DEF Held, Holding
  <2>4. QED BY <1>1, <1>2, <2>1, <2>2, <2>3 DEF Balanced, TablesOK
<1>c. Continues(c, r) BY <1>1, <1>2, <1>4, <1>e, PoolAssumption DEF Continues, Loop
<1>9. QED BY <1>c, <1>3, <1>4, <1>5, <1>6, <1>7, <1>8 DEF RequestBecomes

\* The account of the bridge is not eligible any more.
LEMMA TurnRefusedOK ==
    ASSUME PoolInv, NEW c \in Clients, StartTurn(c), ~AcquirableNow(requests[c].account)
    PROVE  \E r : RequestBecomes(c, r)
<1> DEFINE old == requests[c]
           a == old.account
           r == NoRequest
<1>1. TablesOK /\ RequestOK(old) /\ requests \in [Clients -> Request] /\ old \in Request
  BY DEF PoolInv, RequestOK
<1>2. old.phase = "open" BY <1>1 DEF StartTurn, InPhase, RequestOK
<1>3. requests' = [requests EXCEPT ![c] = r]
  BY <1>1 DEF StartTurn, End
<1>4. RequestOK(r) /\ r.phase = "idle" /\ r.attempts = 0
  BY NoRequestOK
<1>5. TablesOK'
  BY <1>1 DEF StartTurn, TablesOK
<1>6. EligibleTaken
  <2>1. UNCHANGED inflight BY DEF StartTurn
  <2>2. QED BY <1>1, <2>1 DEF TablesOK, EligibleTaken
<1> HIDE DEF r
<1>7. Lower(c, r)
  BY <1>2 DEF Lower
<1>8. ASSUME LeavesSafely, InflightExact PROVE Balanced(c, r)
  <2>1. UNCHANGED <<status, inflight, releases>> BY DEF StartTurn
  <2>2. \A b \in Accounts : Held(old, b) = Held(r, b) BY <1>2, <1>4 DEF Held, Holding
  <2>3. QED BY <2>1, <2>2 DEF Balanced
<1>c. Continues(c, r) BY <1>1, <1>2, <1>4, PoolAssumption DEF Continues, Loop
<1>9. QED BY <1>c, <1>3, <1>4, <1>5, <1>6, <1>7, <1>8 DEF RequestBecomes

\* A turn ends and the bridge stays.
LEMMA EndTurnOK ==
    ASSUME PoolInv, NEW c \in Clients, EndTurn(c)
    PROVE  \E r : RequestBecomes(c, r)
<1> DEFINE old == requests[c]
           a == old.account
           r == Went(old, "open", a)
<1>1. TablesOK /\ RequestOK(old) /\ requests \in [Clients -> Request] /\ old \in Request
  BY DEF PoolInv, RequestOK
<1>2. old.phase = "turn" /\ a \in Accounts /\ inflight' = Released(a)
  BY <1>1 DEF EndTurn, InPhase, RequestOK, HasAccount, Holding
<1>3. requests' = [requests EXCEPT ![c] = r]
  BY <1>1 DEF EndTurn, GoTo, Went
<1>4. RequestOK(r) /\ r.phase = "open" /\ r.account = a /\ r.attempts = old.attempts
  <2>1. RequestOK(old) /\ a \in Accounts BY <1>1, <1>2
  <2> HIDE DEF a, old
  <2>2. QED BY <2>1, WentWithOK, HoldingPhases
<1>5. TablesOK'
  <2>1. inflight' \in [Accounts -> Nat] BY <1>1, <1>2, ReleasedOK
  <2>2. pin' \in Accounts \cup {NoAccount} BY <1>1, <1>2, BoundOK DEF EndTurn
  <2>3. QED BY <1>1, <1>2, <2>1, <2>2 DEF EndTurn, TablesOK
<1>6. EligibleTaken
  BY <1>1, <1>2, ReleasedOK
<1>e. r.excluded = old.excluded BY <1>1, WentExcluded
<1> HIDE DEF r
<1>7. Lower(c, r)
  BY <1>1, <1>2, <1>4, RequestFields, AwaitsValues DEF Lower, StepsLeft
<1>8. ASSUME LeavesSafely, InflightExact PROVE Balanced(c, r)
  <2>1. UNCHANGED <<status, releases>> BY DEF EndTurn
  <2>2. status[a] # "deleted" => inflight'[a] = inflight[a] - 1
    BY <1>1, <1>2, <1>8, HolderInflight, ReleasedOK DEF Holding
  <2>3. \A b \in Accounts \ {a} : inflight'[b] = inflight[b] BY <1>1, <1>2, ReleasedOK
  <2>4. \A b \in Accounts : Held(r, b) = 0 /\ Held(old, b) = IF b = a THEN 1 ELSE 0
    BY <1>2, <1>4 DEF Held, Holding
  <2>5. QED BY <1>1, <1>2, <2>1, <2>2, <2>3, <2>4 DEF Balanced, TablesOK
<1>c. Continues(c, r) BY <1>1, <1>2, <1>4, <1>e, PoolAssumption DEF Continues, Loop
<1>9. QED BY <1>c, <1>3, <1>4, <1>5, <1>6, <1>7, <1>8 DEF RequestBecomes

\* A turn ends with its bridge.
LEMMA BreakTurnOK ==
    ASSUME PoolInv, NEW c \in Clients, BreakTurn(c)
    PROVE  \E r : RequestBecomes(c, r)
<1> DEFINE old == requests[c]
           a == old.account
           r == NoRequest
<1>1. TablesOK /\ RequestOK(old) /\ requests \in [Clients -> Request] /\ old \in Request
  BY DEF PoolInv, RequestOK
<1>2. /\ old.phase = "turn" /\ a \in Accounts /\ inflight' = Released(a)
      /\ MarkAuthFailed(a) \/ CooldownAccount(a) \/ UNCHANGED <<status, barred>>
  BY <1>1 DEF BreakTurn, InPhase, RequestOK, HasAccount, Holding
<1>3. requests' = [requests EXCEPT ![c] = r]
  BY <1>1 DEF BreakTurn, End
<1>4. RequestOK(r) /\ r.phase = "idle" /\ r.attempts = 0
  BY NoRequestOK
<1>5. TablesOK'
  <2>1. inflight' \in [Accounts -> Nat] BY <1>1, <1>2, ReleasedOK
  <2>2. pin' \in Accounts \cup {NoAccount} BY <1>1, <1>2, BoundOK DEF BreakTurn
  <2>3. status' \in [Accounts -> Statuses] /\ barred' \in SUBSET Accounts
    BY <1>1, <1>2, OutcomeOK
  <2>4. UNCHANGED releases BY DEF BreakTurn
  <2>5. QED BY <1>1, <2>1, <2>2, <2>3, <2>4 DEF TablesOK
<1>6. EligibleTaken
  BY <1>1, <1>2, ReleasedOK
<1> HIDE DEF r
<1>7. Lower(c, r)
  BY <1>1, <1>2, <1>4, RequestFields, AwaitsValues DEF Lower, StepsLeft
<1>8. ASSUME LeavesSafely, InflightExact PROVE Balanced(c, r)
  <2>1. /\ \A x \in Accounts : status'[x] # "deleted" => status[x] # "deleted"
        /\ UNCHANGED releases
    BY <1>1, <1>2, OutcomeOK DEF BreakTurn
  <2>2. status[a] # "deleted" => inflight'[a] = inflight[a] - 1
    BY <1>1, <1>2, <1>8, HolderInflight, ReleasedOK DEF Holding
  <2>3. \A b \in Accounts \ {a} : inflight'[b] = inflight[b] BY <1>1, <1>2, ReleasedOK
  <2>4. \A b \in Accounts : Held(r, b) = 0 /\ Held(old, b) = IF b = a THEN 1 ELSE 0
    BY <1>2, <1>4 DEF Held, Holding
  <2>5. QED BY <1>1, <1>2, <2>1, <2>2, <2>3, <2>4 DEF Balanced, TablesOK
<1>c. Continues(c, r) BY <1>1, <1>2, <1>4, PoolAssumption DEF Continues, Loop
<1>9. QED BY <1>c, <1>3, <1>4, <1>5, <1>6, <1>7, <1>8 DEF RequestBecomes

\* A bridge without a turn is closed.
LEMMA CloseBridgeOK ==
    ASSUME PoolInv, NEW c \in Clients, CloseBridge(c)
    PROVE  \E r : RequestBecomes(c, r)
<1> DEFINE old == requests[c]
           a == old.account
           r == NoRequest
<1>1. TablesOK /\ RequestOK(old) /\ requests \in [Clients -> Request] /\ old \in Request
  BY DEF PoolInv, RequestOK
<1>2. old.phase = "open" BY DEF CloseBridge, InPhase
<1>3. requests' = [requests EXCEPT ![c] = r]
  BY <1>1 DEF CloseBridge, End
<1>4. RequestOK(r) /\ r.phase = "idle" /\ r.attempts = 0
  BY NoRequestOK
<1>5. TablesOK'
  BY <1>1 DEF CloseBridge, TablesOK
<1>6. EligibleTaken
  <2>1. UNCHANGED inflight BY DEF CloseBridge
  <2>2. QED BY <1>1, <2>1 DEF TablesOK, EligibleTaken
<1> HIDE DEF r
<1>7. Lower(c, r)
  BY <1>2 DEF Lower
<1>8. ASSUME LeavesSafely, InflightExact PROVE Balanced(c, r)
  <2>1. UNCHANGED <<status, inflight, releases>> BY DEF CloseBridge
  <2>2. \A b \in Accounts : Held(old, b) = Held(r, b) BY <1>2, <1>4 DEF Held, Holding
  <2>3. QED BY <2>1, <2>2 DEF Balanced
<1>c. Continues(c, r) BY <1>1, <1>2, <1>4, PoolAssumption DEF Continues, Loop
<1>9. QED BY <1>c, <1>3, <1>4, <1>5, <1>6, <1>7, <1>8 DEF RequestBecomes

\* A client leaves a request that has a lease or a reservation.
LEMMA LeaveHoldingOK ==
    ASSUME PoolInv, NEW c \in Clients, Leave(c), requests[c].phase \in {"leased", "settling", "settled", "streaming"}
    PROVE  \E r : RequestBecomes(c, r)
<1> DEFINE old == requests[c]
           a == old.account
           r == NoRequest
<1>1. TablesOK /\ RequestOK(old) /\ requests \in [Clients -> Request] /\ old \in Request
  BY DEF PoolInv, RequestOK
<1>2. old.phase \in {"leased", "settling", "settled", "streaming"} /\ a \in Accounts /\ SpawnRelease(a)
  BY <1>1 DEF Leave, RequestOK, HasAccount, Holding
<1>3. requests' = [requests EXCEPT ![c] = r]
  BY <1>1 DEF Leave, End
<1>4. RequestOK(r) /\ r.phase = "idle" /\ r.attempts = 0
  BY NoRequestOK
<1>5. TablesOK'
  <2>1. releases' \in [Accounts -> Nat] BY <1>1, <1>2, SpawnedOK
  <2>2. QED BY <1>1, <2>1 DEF Leave, TablesOK
<1>6. EligibleTaken
  <2>1. UNCHANGED inflight BY DEF Leave
  <2>2. QED BY <1>1, <2>1 DEF TablesOK, EligibleTaken
<1> HIDE DEF r
<1>7. Lower(c, r)
  BY <1>1, <1>2, <1>4, RequestFields, AwaitsValues DEF Lower, StepsLeft
<1>8. ASSUME LeavesSafely, InflightExact PROVE Balanced(c, r)
  <2>1. \A b \in Accounts : status'[b] # "deleted" => status[b] # "deleted"
    BY DEF Leave
  <2>2. releases'[a] = releases[a] + 1 /\ \A b \in Accounts \ {a} : releases'[b] = releases[b]
    BY <1>1, <1>2, SpawnedOK
  <2>3. UNCHANGED inflight BY DEF Leave
  <2>4. \A b \in Accounts : Held(r, b) = 0 /\ Held(old, b) = IF b = a THEN 1 ELSE 0
    BY <1>2, <1>4, <1>8 DEF Leave, LeavesSafely, Held, Holding
  <2>5. QED BY <1>1, <1>2, <2>1, <2>2, <2>3, <2>4 DEF Balanced, TablesOK
<1>c. Continues(c, r) BY <1>1, <1>2, <1>4, PoolAssumption DEF Continues, Loop
<1>9. QED BY <1>c, <1>3, <1>4, <1>5, <1>6, <1>7, <1>8 DEF RequestBecomes

\* A client leaves a request that has none.
LEMMA LeaveWaitingOK ==
    ASSUME PoolInv, NEW c \in Clients, Leave(c), requests[c].phase \notin {"leased", "settling", "settled", "streaming"}
    PROVE  \E r : RequestBecomes(c, r)
<1> DEFINE old == requests[c]
           a == old.account
           r == NoRequest
<1>1. TablesOK /\ RequestOK(old) /\ requests \in [Clients -> Request] /\ old \in Request
  BY DEF PoolInv, RequestOK
<1>2. old.phase \in {"select", "sticky", "choose", "acquired"} /\ UNCHANGED releases
  BY <1>1 DEF Leave, RequestOK, Request, Phases, Holding
<1>3. requests' = [requests EXCEPT ![c] = r]
  BY <1>1 DEF Leave, End
<1>4. RequestOK(r) /\ r.phase = "idle" /\ r.attempts = 0
  BY NoRequestOK
<1>5. TablesOK'
  BY <1>1 DEF Leave, TablesOK
<1>6. EligibleTaken
  <2>1. UNCHANGED inflight BY DEF Leave
  <2>2. QED BY <1>1, <2>1 DEF TablesOK, EligibleTaken
<1> HIDE DEF r
<1>7. Lower(c, r)
  BY <1>1, <1>2, <1>4, RequestFields, AwaitsValues DEF Lower, StepsLeft
<1>8. ASSUME LeavesSafely, InflightExact PROVE Balanced(c, r)
  <2>1. UNCHANGED <<status, inflight, releases>> BY <1>2 DEF Leave
  <2>2. \A b \in Accounts : Held(old, b) = Held(r, b) BY <1>2, <1>4, <1>8 DEF Leave, LeavesSafely, Held, Holding
  <2>3. QED BY <2>1, <2>2 DEF Balanced
<1>c. Continues(c, r) BY <1>1, <1>2, <1>4, PoolAssumption DEF Continues, Loop
<1>9. QED BY <1>c, <1>3, <1>4, <1>5, <1>6, <1>7, <1>8 DEF RequestBecomes

\* Every step of a client's request is one of these.
LEMMA ClientStepsOK ==
    ASSUME PoolInv, NEW c \in Clients, RequestStep(c) \/ ClientStep(c)
    PROVE  \E r : RequestBecomes(c, r)
<1>1. CASE SelectionStep(c)
  <2>1. CASE AcquireSticky(c) BY <2>1, StickyTakenOK, StickyMissedOK
  <2>2. QED BY <1>1, <2>1, LookUpPinOK, SmartTakenOK, NoneEligibleOK, ReadAccountOK,
               ReadAccountFailsOK DEF SelectionStep
<1>2. CASE HttpStep(c)
  BY <1>2, AttemptFailsOK, RefusedOK, StreamOK, StreamEndsOK DEF HttpStep
<1>3. CASE ConnectStep(c)
  <2>1. CASE ReservationSettled(c) BY <2>1, BridgeOpensOK, HandshakeFailedOK
  <2>2. QED BY <1>3, <2>1, HandshakeOK, ReleaseReservationOK DEF ConnectStep
<1>4. CASE TurnStep(c) BY <1>4, EndTurnOK, BreakTurnOK DEF TurnStep
<1>5. CASE ClientStep(c)
  <2>1. CASE StartTurn(c) BY <2>1, TurnStartsOK, TurnRefusedOK
  <2>2. CASE Leave(c) BY <2>2, LeaveHoldingOK, LeaveWaitingOK
  <2>3. QED BY <1>5, <2>1, <2>2, ArriveOK, CloseBridgeOK DEF ClientStep
<1>6. QED BY <1>1, <1>2, <1>3, <1>4, <1>5 DEF RequestStep

-----------------------------------------------------------------------------
(***************************************************************************)
(* The steps that leave requests alone, and the restart.                   *)
(***************************************************************************)
OtherStep == (\E a \in Accounts : RunRelease(a) \/ AccountStep(a)) \/ UNCHANGED vars

\* They keep the types, and acquire nothing.
LEMMA OtherTables ==
    ASSUME PoolInv, OtherStep
    PROVE  TablesOK' /\ EligibleTaken /\ UNCHANGED requests
<1>1. TablesOK BY DEF PoolInv
<1>2. ASSUME NEW a \in Accounts, RunRelease(a)
      PROVE  TablesOK' /\ EligibleTaken /\ UNCHANGED requests
  <2>1. inflight' \in [Accounts -> Nat] /\ EligibleTaken BY <1>1, <1>2, ReleasedOK DEF RunRelease
  <2>2. releases' \in [Accounts -> Nat] BY <1>1, <1>2 DEF RunRelease, TablesOK
  <2>3. QED BY <1>1, <1>2, <2>1, <2>2 DEF RunRelease, TablesOK
<1>3. ASSUME NEW a \in Accounts, AccountStep(a)
      PROVE  TablesOK' /\ EligibleTaken /\ UNCHANGED requests
  <2>1. CASE \E new \in Statuses : SetStatus(a, new)
    BY <1>1, <2>1 DEF SetStatus, TablesOK, EligibleTaken
  <2>2. CASE DeleteAccount(a)
    BY <1>1, <2>2 DEF DeleteAccount, TablesOK, EligibleTaken, Statuses
  <2>3. CASE Bar(a) \/ Unbar(a) BY <1>1, <2>3 DEF Bar, Unbar, TablesOK, EligibleTaken
  <2>4. QED BY <1>3, <2>1, <2>2, <2>3 DEF AccountStep
<1>4. CASE UNCHANGED vars BY <1>1, <1>4 DEF vars, TablesOK, EligibleTaken
<1>5. QED BY <1>2, <1>3, <1>4 DEF OtherStep

\* They keep the invariant.
LEMMA OtherInv ==
    ASSUME PoolInv, OtherStep
    PROVE  PoolInv'
BY OtherTables DEF PoolInv, RequestOK

\* They keep the ledger: a release that runs was counted, and what is deleted does not
\* count.
LEMMA OtherExact ==
    ASSUME PoolInv, OtherStep, InflightExact
    PROVE  InflightExact'
<1>1. TablesOK BY DEF PoolInv
<1>2. \A a : Holders(a)' = Holders(a) BY OtherTables DEF Holders
<1>3. SUFFICES ASSUME NEW b \in Accounts, status'[b] # "deleted"
               PROVE  inflight'[b] = Cardinality(Holders(b)) + releases'[b]
  BY <1>2 DEF InflightExact
<1>4. Cardinality(Holders(b)) \in Nat BY HoldersFinite
<1>5. ASSUME NEW a \in Accounts, RunRelease(a)
      PROVE  inflight'[b] = Cardinality(Holders(b)) + releases'[b]
  <2>1. inflight[b] = Cardinality(Holders(b)) + releases[b]
    BY <1>3, <1>5 DEF RunRelease, InflightExact
  <2>2. inflight[b] \in Nat /\ releases[b] \in Nat BY <1>1 DEF TablesOK
  <2>3. CASE b = a
    <3>1. releases[b] > 0 /\ releases'[b] = releases[b] - 1
      BY <1>1, <1>5, <2>3 DEF RunRelease, TablesOK
    <3>2. inflight[b] >= 1 BY <1>4, <2>1, <2>2, <3>1
    <3>3. status[b] # "deleted" BY <1>3, <1>5 DEF RunRelease
    <3>4. inflight'[b] = inflight[b] - 1 BY <1>1, <1>5, <2>3, <3>2, <3>3, ReleasedOK DEF RunRelease
    <3>5. QED BY <1>4, <2>1, <2>2, <3>1, <3>4
  <2>4. CASE b # a
    <3>1. inflight'[b] = inflight[b] BY <1>1, <1>5, <2>4, ReleasedOK DEF RunRelease
    <3>2. releases'[b] = releases[b] BY <1>1, <1>5, <2>4 DEF RunRelease, TablesOK
    <3>3. QED BY <2>1, <3>1, <3>2
  <2>5. QED BY <2>3, <2>4
<1>6. ASSUME NEW a \in Accounts, AccountStep(a)
      PROVE  inflight'[b] = Cardinality(Holders(b)) + releases'[b]
  <2>1. ASSUME NEW new \in Statuses, SetStatus(a, new)
        PROVE  status[b] # "deleted" /\ UNCHANGED <<inflight, releases>>
    BY <1>1, <1>3, <2>1 DEF SetStatus, TablesOK
  <2>2. CASE DeleteAccount(a)
    <3>1. b # a BY <1>1, <1>3, <2>2 DEF DeleteAccount, TablesOK
    <3>2. status[b] # "deleted" /\ inflight'[b] = inflight[b] /\ UNCHANGED releases
      BY <1>1, <1>3, <2>2, <3>1 DEF DeleteAccount, TablesOK
    <3>3. QED BY <3>2 DEF InflightExact
  <2>3. CASE Bar(a) \/ Unbar(a)
    BY <1>3, <2>3 DEF Bar, Unbar, InflightExact
  <2>4. QED BY <1>6, <2>1, <2>2, <2>3 DEF AccountStep, InflightExact
<1>7. CASE UNCHANGED vars BY <1>3, <1>7 DEF vars, InflightExact
<1>8. QED BY <1>5, <1>6, <1>7 DEF OtherStep

\* The daemon starts with an empty ledger and no requests, whenever it does.
LEMMA RestartInv ==
    ASSUME PoolInv, Restart
    PROVE  /\ PoolInv' /\ InflightExact' /\ EligibleTaken
           /\ \A c \in Clients : requests'[c] = NoRequest
<1>1. NoRequest \in Request BY LimitIsNat DEF NoRequest, Request, Phases
<1>2. NoRequest.phase = "idle" BY DEF NoRequest
<1>3. RequestOK(NoRequest) BY NoRequestOK
<1>4. requests' = [c \in Clients |-> NoRequest] /\ \A c \in Clients : requests'[c] = NoRequest
  BY DEF Restart
<1>5. TablesOK' BY DEF PoolInv, TablesOK, Restart
<1>6. PoolInv' BY <1>1, <1>3, <1>4, <1>5 DEF PoolInv, RequestOK
<1>7. \A a : Holders(a)' = {} BY <1>2, <1>4 DEF Holders, Holding
<1>8. InflightExact' BY <1>7, FS_EmptySet DEF InflightExact, Restart
<1>9. EligibleTaken BY DEF PoolInv, TablesOK, EligibleTaken, Restart
<1>10. QED BY <1>4, <1>6, <1>8, <1>9

-----------------------------------------------------------------------------
\* Everything begins that way.
LEMMA InitInv == Init => PoolInv /\ InflightExact
<1> SUFFICES ASSUME Init PROVE PoolInv /\ InflightExact OBVIOUS
<1>1. NoRequest \in Request BY LimitIsNat DEF NoRequest, Request, Phases
<1>2. NoRequest.phase = "idle" BY DEF NoRequest
<1>3. RequestOK(NoRequest) BY NoRequestOK
<1>4. \A c \in Clients : requests[c] = NoRequest BY DEF Init
<1>5. requests \in [Clients -> Request] BY <1>1 DEF Init
<1>6. TablesOK BY DEF Init, TablesOK, Statuses
<1>7. PoolInv BY <1>3, <1>4, <1>5, <1>6 DEF PoolInv
<1>8. \A a : Holders(a) = {} BY <1>2, <1>4 DEF Holders, Holding
<1>9. InflightExact BY <1>8, FS_EmptySet DEF InflightExact, Init
<1>10. QED BY <1>7, <1>9

\* The three kinds of step.
LEMMA NextCases ==
    ASSUME [Next]_vars
    PROVE  \/ \E c \in Clients : RequestStep(c) \/ ClientStep(c)
           \/ OtherStep
           \/ Restart
BY DEF Next, PoolStep, OtherStep

\* Every step keeps the invariant.
LEMMA NextInv ==
    ASSUME PoolInv, [Next]_vars
    PROVE  PoolInv' /\ EligibleTaken
<1>1. ASSUME NEW c \in Clients, RequestStep(c) \/ ClientStep(c) PROVE PoolInv' /\ EligibleTaken
  <2>1. PICK r : RequestBecomes(c, r) BY <1>1, ClientStepsOK
  <2>2. QED BY <2>1, BecomesInv
<1>2. CASE OtherStep BY <1>2, OtherInv, OtherTables
<1>3. CASE Restart BY <1>3, RestartInv
<1>4. QED BY <1>1, <1>2, <1>3, NextCases

\* Every step keeps the ledger.
LEMMA NextExact ==
    ASSUME PoolInv, InflightExact, LeavesSafely, [Next]_vars
    PROVE  InflightExact'
<1>1. ASSUME NEW c \in Clients, RequestStep(c) \/ ClientStep(c) PROVE InflightExact'
  <2>1. PICK r : RequestBecomes(c, r) BY <1>1, ClientStepsOK
  <2>2. QED BY <2>1, BecomesExact
<1>2. CASE OtherStep BY <1>2, OtherExact
<1>3. CASE Restart BY <1>3, RestartInv
<1>4. QED BY <1>1, <1>2, <1>3, NextCases

\* The inductive invariant.
LEMMA PoolInvariant == Spec => []PoolInv
<1>1. PoolInv /\ [Next]_vars => PoolInv' BY NextInv
<1>2. QED BY InitInv, <1>1, PTL DEF Spec

-----------------------------------------------------------------------------
(***************************************************************************)
(* How far a loop searches.                                                *)
(***************************************************************************)
\* How many accounts a request has to try that has seen these eligible all the time.
Wanted(S) == Min({Cardinality(S), Max({MaxAttempts, 1})})

\* The accounts a loop has tried and the attempts it has left are enough for them, and
\* the account it has is not one of the tried.
Enough(r, S) ==
    r.phase \in Loop =>
        /\ r.account \notin r.excluded
        /\ Cardinality(r.excluded) + r.attempts >= Wanted(S)

SearchInv ==
    /\ steady \in [Clients -> SUBSET Accounts]
    /\ \A c \in Clients : \A a \in steady[c] : Eligible(a)
    /\ \A c \in Clients : Enough(requests[c], steady[c])

\* Fewer accounts want fewer attempts.
LEMMA WantedLess ==
    ASSUME NEW S \in SUBSET Accounts, NEW T \in SUBSET S
    PROVE  /\ Wanted(S) \in Nat /\ Wanted(T) \in Nat /\ Wanted(T) <= Wanted(S)
           /\ Wanted(S) <= Cardinality(S)
<1>1. IsFiniteSet(S) /\ Cardinality(S) \in Nat /\ IsFiniteSet(T) /\ Cardinality(T) \in Nat
  <2>1. IsFiniteSet(S) BY FS_Subset, PoolAssumption
  <2>2. IsFiniteSet(T) BY <2>1, FS_Subset
  <2>3. QED BY <2>1, <2>2, FS_CardinalityType
<1>2. Cardinality(T) <= Cardinality(S) BY <1>1, FS_Subset
<1> DEFINE m == Max({MaxAttempts, 1})
           x == Cardinality(S)
           y == Cardinality(T)
<1>3. m \in Nat BY LimitIsNat
<1>4. Wanted(S) = Min({x, m}) /\ Wanted(T) = Min({y, m}) BY DEF Wanted
<1>5. x \in Nat /\ y \in Nat /\ y <= x BY <1>1, <1>2
<1> HIDE DEF m, x, y
<1>6. /\ Min({x, m}) \in Nat /\ Min({x, m}) <= x /\ Min({x, m}) <= m
      /\ Min({x, m}) = x \/ Min({x, m}) = m
  BY <1>3, <1>5, MinOfTwo
<1>7. Min({y, m}) \in Nat /\ Min({y, m}) <= y /\ Min({y, m}) <= m
  BY <1>3, <1>5, MinOfTwo
<1>8. QED BY <1>3, <1>4, <1>5, <1>6, <1>7 DEF x

\* A request begins with attempts for every account that is eligible then.
LEMMA AttemptsSuffice ==
    ASSUME NEW S \in SUBSET {a \in Accounts : Eligible(a)}
    PROVE  ProxyAttempts >= Wanted(S)
<1> DEFINE A == {a \in Accounts : status[a] = "active"}
           m == Max({MaxAttempts, 1})
<1>1. S \in SUBSET A /\ A \in SUBSET Accounts BY DEF Eligible
<1>2. IsFiniteSet(A) /\ Cardinality(A) \in Nat
  BY <1>1, FS_Subset, FS_CardinalityType, PoolAssumption
<1>3. ActiveCount = Cardinality(A) BY DEF ActiveCount
<1>4. Wanted(A) >= Wanted(S) /\ Wanted(A) \in Nat /\ Wanted(S) \in Nat
  BY <1>1, WantedLess
<1>5. Wanted(A) = Min({ActiveCount, m}) BY <1>3 DEF Wanted
<1>6. CASE ActiveCount = 0
  <2>1. Wanted(A) <= 0 BY <1>1, <1>3, <1>6, WantedLess
  <2>2. ProxyAttempts = 1 BY <1>6 DEF ProxyAttempts
  <2>3. QED BY <1>4, <2>1, <2>2
<1>7. CASE ActiveCount # 0
  <2>1. ProxyAttempts = Min({ActiveCount, m}) BY <1>7 DEF ProxyAttempts
  <2>2. QED BY <1>4, <1>5, <2>1
<1>8. QED BY <1>6, <1>7

\* What the history says after a step.
LEMMA WatchOK ==
    ASSUME SearchInv, Watch, NEW c \in Clients
    PROVE  /\ steady' \in [Clients -> SUBSET Accounts]
           /\ \A a \in steady'[c] : Eligible(a) /\ Eligible(a)'
           /\ requests[c].phase # "idle" => steady'[c] \in SUBSET steady[c]
BY DEF SearchInv, Watch, InPhase

\* A request that goes on searching still has enough.
LEMMA ContinuesEnough ==
    ASSUME PoolInv, SearchInv, Watch, NEW c \in Clients, NEW r, RequestOK(r), Continues(c, r)
    PROVE  Enough(r, steady'[c])
<1> DEFINE old == requests[c]
           S == steady[c]
           T == steady'[c]
<1>1. SUFFICES ASSUME r.phase \in Loop
               PROVE  /\ r.account \notin r.excluded
                      /\ Cardinality(r.excluded) + r.attempts >= Wanted(T)
  BY DEF Enough
<1>2. /\ T \in SUBSET Accounts /\ \A a \in T : Eligible(a)
      /\ old.phase # "idle" => T \in SUBSET S
  BY WatchOK
<1>3. S \in SUBSET Accounts /\ Enough(old, S) BY DEF SearchInv
<1>4. /\ r \in Request /\ old \in Request
      /\ old.excluded \in SUBSET Accounts /\ r.excluded \in SUBSET Accounts
      /\ old.attempts \in Nat /\ r.attempts \in Nat
  BY RequestFields DEF PoolInv, RequestOK
<1>5. /\ IsFiniteSet(old.excluded) /\ Cardinality(old.excluded) \in Nat
  BY <1>4, FS_Subset, FS_CardinalityType, PoolAssumption
<1>6. CASE /\ old.phase = "idle"
           /\ r.excluded = {} /\ r.attempts = ProxyAttempts /\ r.account \notin Accounts
  <2>1. ProxyAttempts >= Wanted(T) BY <1>2, AttemptsSuffice
  <2>2. Cardinality(r.excluded) = 0 BY <1>6, FS_EmptySet
  <2>3. QED BY <1>4, <1>6, <2>1, <2>2
<1>7. CASE old.phase \in Loop
  <2>1. Wanted(T) <= Wanted(S) /\ Wanted(T) \in Nat /\ Wanted(S) \in Nat
    BY <1>2, <1>3, <1>7, WantedLess DEF Loop
  <2>2. old.account \notin old.excluded /\ Cardinality(old.excluded) + old.attempts >= Wanted(S)
    BY <1>3, <1>7 DEF Enough
  <2>3. CASE /\ r.excluded = old.excluded /\ r.attempts = old.attempts
             /\ r.account = old.account \/ r.account \notin old.excluded
    BY <1>4, <1>5, <2>1, <2>2, <2>3
  <2>4. CASE /\ old.account \in Accounts
             /\ r.excluded = old.excluded \cup {old.account} /\ r.attempts = old.attempts - 1
             /\ r.account \notin Accounts
    <3>1. Cardinality(r.excluded) = Cardinality(old.excluded) + 1
      BY <1>5, <2>2, <2>4, FS_AddElement
    <3>2. r.account \notin r.excluded BY <1>4, <2>4
    <3>3. QED BY <1>4, <1>5, <2>1, <2>2, <2>4, <3>1, <3>2
  <2>5. QED BY <1>1, <1>7, <2>3, <2>4 DEF Continues, Loop
<1>8. QED BY <1>1, <1>6, <1>7 DEF Continues

\* A request that is left as it is has enough too.
LEMMA WaitingEnough ==
    ASSUME PoolInv, SearchInv, Watch, NEW c \in Clients
    PROVE  Enough(requests[c], steady'[c])
<1>1. RequestOK(requests[c]) /\ requests[c].phase # "idle" => Continues(c, requests[c])
  BY DEF Continues
<1>2. CASE requests[c].phase = "idle" BY <1>2 DEF Enough, Loop
<1>3. CASE requests[c].phase # "idle"
  BY <1>3, ContinuesEnough DEF Continues, PoolInv
<1>4. QED BY <1>2, <1>3

\* Every step keeps the search.
LEMMA NextSearch ==
    ASSUME PoolInv, SearchInv, [Next]_vars
    PROVE  SearchInv'
<1>1. CASE UNCHANGED vars BY <1>1 DEF vars, SearchInv, Enough, Eligible
<1>2. CASE Next
  <2>1. Watch /\ PoolStep BY <1>2 DEF Next
  <2>2. steady' \in [Clients -> SUBSET Accounts] BY <2>1 DEF SearchInv, Watch
  <2>3. \A c \in Clients : \A a \in steady'[c] : Eligible(a)' BY <2>1, WatchOK
  <2>4. ASSUME NEW d \in Clients PROVE Enough(requests'[d], steady'[d])
    <3>1. CASE requests'[d] = requests[d] BY <2>1, <3>1, WaitingEnough
    <3>2. ASSUME NEW c \in Clients, RequestStep(c) \/ ClientStep(c)
          PROVE  Enough(requests'[d], steady'[d])
      <4>1. PICK r : RequestBecomes(c, r) BY <3>2, ClientStepsOK
      <4>2. requests' = [requests EXCEPT ![c] = r] /\ RequestOK(r) /\ Continues(c, r)
        BY <4>1 DEF RequestBecomes
      <4>3. CASE d # c BY <3>1, <4>2, <4>3 DEF PoolInv
      <4>4. CASE d = c
        <5>1. requests'[d] = r BY <4>2, <4>4 DEF PoolInv
        <5>2. QED BY <2>1, <4>2, <4>4, <5>1, ContinuesEnough
      <4>5. QED BY <4>3, <4>4
    <3>3. CASE OtherStep BY <3>1, <3>3, OtherTables
    <3>4. CASE Restart
      <4>1. requests'[d] = NoRequest BY <3>4, RestartInv
      <4>2. QED BY <4>1, NoRequestOK DEF Enough, Loop
    <3>5. QED BY <1>2, <3>2, <3>3, <3>4, NextCases
  <2>5. QED BY <2>2, <2>3, <2>4 DEF SearchInv
<1>3. QED BY <1>1, <1>2

\* The search is right from the beginning.
LEMMA SearchInvariant == Spec => []SearchInv
<1>1. Init => SearchInv
  <2> SUFFICES ASSUME Init PROVE SearchInv OBVIOUS
  <2>1. \A c \in Clients : requests[c] = NoRequest /\ steady[c] = {} BY DEF Init
  <2>2. \A c \in Clients : Enough(requests[c], steady[c])
    BY <2>1, NoRequestOK DEF Enough, Loop
  <2>3. QED BY <2>1, <2>2 DEF Init, SearchInv
<1>2. PoolInv /\ SearchInv /\ [Next]_vars => SearchInv' BY NextSearch
<1>3. QED BY <1>1, <1>2, PoolInvariant, PTL DEF Spec

\* The tables and the requests keep their types; a request never has more attempts before
\* it than the limit allows.
THEOREM PoolTypeCorrect == Spec => []PoolTypeOK
<1>1. PoolInv /\ SearchInv => PoolTypeOK BY DEF PoolInv, SearchInv, TablesOK, PoolTypeOK
<1>2. QED BY <1>1, PoolInvariant, SearchInvariant, PTL

\* Whatever happens to accounts between lookup and acquisition, only an account that is
\* eligible when it is acquired is.
THEOREM OnlyEligibleTaken == Spec => OnlyEligibleAcquired
<1>1. PoolInv /\ [Next]_vars => [\A a \in Accounts : inflight'[a] > inflight[a] => Eligible(a)]_vars
  BY NextInv DEF EligibleTaken
<1>2. QED BY <1>1, PoolInvariant, PTL DEF Spec, OnlyEligibleAcquired

\* A request that gives up has tried as many accounts as were usable all the time it ran,
\* or as its limit allows, whatever happens to accounts meanwhile.
THEOREM SearchesFarEnough == Spec => UsableAccountsTried
<1> DEFINE D == \A c \in Clients : GivesUp(c) =>
                  Cardinality(Tried(requests[c]))
                    >= Min({Cardinality(steady[c]), Max({MaxAttempts, 1})})
<1>1. ASSUME PoolInv, SearchInv, NEW c \in Clients, GivesUp(c)
      PROVE  Cardinality(Tried(requests[c])) >= Wanted(steady[c])
  <2> DEFINE r == requests[c]
             S == steady[c]
  <2>1. /\ r \in Request /\ RequestOK(r)
        /\ r.excluded \in SUBSET Accounts /\ r.attempts \in Nat
        /\ requests \in [Clients -> Request]
    BY <1>1, RequestFields DEF PoolInv
  <2>2. IsFiniteSet(r.excluded) /\ Cardinality(r.excluded) \in Nat
    BY <2>1, FS_Subset, FS_CardinalityType, PoolAssumption
  <2>3. /\ S \in SUBSET Accounts /\ Wanted(S) \in Nat
        /\ Enough(r, S)
        /\ \A a \in S : Eligible(a)
    BY <1>1, WantedLess DEF SearchInv
  <2>4. IsFiniteSet(Tried(r)) /\ Cardinality(Tried(r)) \in Nat
    <3>1. IsFiniteSet(r.excluded \cup {r.account}) BY <2>2, FS_AddElement
    <3>2. Tried(r) \in SUBSET (r.excluded \cup {r.account}) BY DEF Tried
    <3>3. QED BY <3>1, <3>2, FS_Subset, FS_CardinalityType
  <2>5. CASE NoneEligible(c)
    <3>1. S \in SUBSET Tried(r) BY <2>3, <2>5 DEF NoneEligible, Untried, Tried
    <3>2. Cardinality(S) <= Cardinality(Tried(r)) /\ Cardinality(S) \in Nat
      BY <2>4, <3>1, FS_Subset, FS_CardinalityType
    <3>3. Wanted(S) <= Cardinality(S) BY <2>3, WantedLess
    <3>4. QED BY <2>3, <2>4, <3>2, <3>3
  <2>6. CASE AttemptFails(c) \/ (ReservationSettled(c) /\ ~r.connected)
    <3>1. r.phase \in {"leased", "settled"} /\ r.account \in Accounts
      BY <2>1, <2>6 DEF AttemptFails, ReservationSettled, InPhase, RequestOK, HasAccount, Holding
    <3>2. requests'[c] = AfterFailure(r)
      BY <2>1, <2>6 DEF AttemptFails, ReservationSettled
    <3>3. r.attempts <= 1 BY <1>1, <2>1, <3>1, <3>2, AfterFailureOK DEF GivesUp
    <3>4. r.account \notin r.excluded /\ Cardinality(r.excluded) + r.attempts >= Wanted(S)
      <4>1. r.phase \in Loop BY <3>1 DEF Loop
      <4>2. QED BY <2>3, <4>1 DEF Enough
    <3>5. Tried(r) = r.excluded \cup {r.account} BY <3>1, PoolAssumption DEF Tried
    <3>6. Cardinality(Tried(r)) = Cardinality(r.excluded) + 1
      BY <2>2, <3>4, <3>5, FS_AddElement
    <3>7. QED BY <2>1, <2>2, <2>3, <3>3, <3>4, <3>6
  <2>7. ASSUME ReservationSettled(c), r.connected PROVE FALSE
    <3>1. r.phase \in HasAccount BY <2>7 DEF ReservationSettled, InPhase, HasAccount
    <3>2. requests' = [requests EXCEPT ![c] = Left(r, "open")]
      BY <2>7 DEF ReservationSettled, LeaveLoop, Left
    <3>3. requests'[c] = Left(r, "open") BY <2>1, <3>2
    <3>4. Left(r, "open").phase = "open" BY <2>1, <3>1, LeftOK
    <3>5. QED BY <1>1, <3>3, <3>4 DEF GivesUp
  <2>8. QED BY <1>1, <2>5, <2>6, <2>7 DEF GivesUp
<1>2. PoolInv /\ SearchInv => D BY <1>1 DEF Wanted
<1>3. PoolInv /\ SearchInv /\ [Next]_vars => [D]_vars BY <1>2
<1>4. QED BY <1>3, PoolInvariant, SearchInvariant, PTL DEF Spec, UsableAccountsTried

\* Failover is bounded for any number of accounts and attempts: no step of a request
\* leaves it with as much before it as it had.
THEOREM FailoverDescends == Spec => RequestsDescend
<1> DEFINE D == \A c \in Clients :
                  requests[c].phase \notin {"idle", "open"} /\ requests'[c] # requests[c]
                    => StepsLeft(requests'[c]) < StepsLeft(requests[c])
<1>1. ASSUME PoolInv, [Next]_vars PROVE D
  <2>1. ASSUME NEW c \in Clients, RequestStep(c) \/ ClientStep(c) PROVE D
    <3>1. PICK r : RequestBecomes(c, r) BY <2>1, <1>1, ClientStepsOK
    <3>2. QED BY <3>1, <1>1, BecomesInv
  <2>2. CASE OtherStep BY <1>1, <2>2, OtherTables
  <2>3. CASE Restart
    <3>1. SUFFICES ASSUME NEW c \in Clients, requests[c].phase \notin {"idle", "open"}
                   PROVE  StepsLeft(requests'[c]) < StepsLeft(requests[c])
      OBVIOUS
    <3>2. requests'[c] = NoRequest BY <1>1, <2>3, RestartInv
    <3>3. NoRequest.phase = "idle" /\ NoRequest.attempts = 0 BY DEF NoRequest
    <3>4. StepsLeft(requests'[c]) = 0 BY <3>2, <3>3, AwaitsValues DEF StepsLeft
    <3>5. requests[c] \in Request BY <1>1 DEF PoolInv
    <3>6. requests[c].attempts \in Nat /\ requests[c].phase \in Phases BY <3>5, RequestFields
    <3>7. Awaits[requests[c].phase] \in 1..8
      BY <3>1, <3>6, AwaitsValues DEF Phases, Holding
    <3>8. QED BY <3>4, <3>6, <3>7 DEF StepsLeft
  <2>4. QED BY <1>1, <2>1, <2>2, <2>3, NextCases
<1>2. PoolInv /\ [Next]_vars => [D]_vars BY <1>1
<1>3. QED BY <1>2, PoolInvariant, PTL DEF Spec, RequestsDescend

\* The ledger balances for any accounts, clients and interleaving, provided no client
\* leaves at the two awaits at which the code has not yet, or no longer, a lease.
THEOREM LedgerBalances ==
    ASSUME LeavesSafely
    PROVE  Spec => []InflightExact
<1>1. PoolInv /\ InflightExact /\ [Next]_vars => InflightExact' BY NextExact
<1>2. QED BY <1>1, InitInv, PoolInvariant, PTL DEF Spec
=============================================================================
