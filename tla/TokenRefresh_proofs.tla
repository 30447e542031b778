------------------------ MODULE TokenRefresh_proofs ------------------------
(* Proofs about TokenRefresh, for any workers, locks, pairs and imports. *)
EXTENDS TokenRefresh, TLAPS

Phase(w) == workers[w].phase
Written == 1..last

\* Whoever refers to a mutex refers to the one in the table, so an entry whose mutex is
\* gone is replaced only when nobody holds or awaits another; hence at most one worker is
\* past the lock.
LockShared == \A w \in Workers : Phase(w) \in Referring => workers[w].lock = table
OneGuarded == \A v, w \in Workers : Phase(v) \in Guarded /\ Phase(w) \in Guarded => v = w

\* What may be presented: a token not known to be used, or one that came in used.
Presentable(c) == Pair(c) \in live \cup abandoned \/ origin[c] = "used file"

\* What a worker has in hand was in the row, later than what it uses; the answer it is
\* about to store is good and was never in the row.
InHand(r) ==
    /\ r.phase \in Referring \cup {"fetch"} => r.observed \in Written /\ r.using <= r.observed
    /\ r.phase \in Refreshing \cup {"send"} => r.using \in Written
    /\ r.phase = "posted" => Presentable(r.observed)
    /\ r.phase = "store" =>
         /\ r.answer \in live \cup abandoned /\ r.answer \in Pairs
         /\ \A c \in Written : Pair(c) # r.answer
InHands == \A w \in Workers : InHand(workers[w])

\* No pair is known that has not been issued.
Issued ==
    /\ \A c \in Written : Pair(c) <= issued
    /\ \A pair \in live \cup abandoned : pair <= issued

\* A refresh never brings a pair back to the row; an import may.
NoWayBack ==
    \A c, d \in Written : c < d /\ origin[d] = "refresh" => Pair(c) # Pair(d)

RefreshInv ==
    /\ RefreshTypeOK
    /\ LockShared /\ OneGuarded
    /\ InHands /\ Issued /\ NoWayBack /\ StoredNotBurned

\* Arithmetic of the numbers of writes and of issues.
LEMMA NextNumber ==
    ASSUME NEW n \in Nat
    PROVE  /\ n + 1 \in Nat \ {0} /\ n + 1 \in 1..(n + 1)
           /\ \A c \in 1..(n + 1) : c \in 1..n \/ c = n + 1
           /\ \A c \in 1..n : c \in 1..(n + 1) /\ c # n + 1 /\ c < n + 1
           /\ \A c \in 1..n, d \in 1..(n + 1) : d < c => d \in 1..n
           /\ \A c \in Nat : c <= n => c # n + 1 /\ c <= n + 1
           /\ \A l, m \in Nat : l <= n /\ n <= m => l <= m
           /\ n <= n /\ n <= n + 1 /\ n + 1 <= n + 1
           /\ \A m \in Nat : n < m /\ n \in 0..m => n + 1 \in 0..m
OBVIOUS

USE DEF Phase, InPhase, Pairs, Origins, Statuses, Written, Pair, Referring, Guarded, Refreshing,
        Phases, row, upstream

LEMMA PairsAreNumbers == \A pair \in Pairs : pair \in Nat
BY RefreshAssumption

\* A worker at rest is a worker without a mutex and with nothing in hand.
LEMMA IdleIsWorker ==
    Idle \in Worker /\ Idle.lock \notin Locks /\ Idle.phase = "idle" /\ InHand(Idle)
BY RefreshAssumption DEF Idle, Worker, InHand

\* The inductive invariant holds at the start.
LEMMA InitInv == Init => RefreshInv
<1> SUFFICES ASSUME Init PROVE RefreshInv
  OBVIOUS
<1>1. RefreshTypeOK
  <2>1. 0 \in Pairs
    BY RefreshAssumption
  <2>2. written \in [1..last -> Pairs] /\ origin \in [1..last -> Origins]
    BY <2>1 DEF Init
  <2>3. QED BY <2>1, <2>2, IdleIsWorker, RefreshAssumption DEF Init, RefreshTypeOK
<1>2. LockShared /\ OneGuarded /\ InHands /\ NoWayBack
  BY IdleIsWorker DEF Init, LockShared, OneGuarded, InHands, NoWayBack
<1>3. Issued
  BY RefreshAssumption DEF Init, Issued
<1>4. StoredNotBurned
  BY DEF Init, StoredNotBurned
<1>5. QED BY <1>1, <1>2, <1>3, <1>4 DEF RefreshInv

\* A step that only replaces what one worker is doing keeps the types.
LEMMA WorkerChanges ==
    ASSUME RefreshTypeOK, NEW w \in Workers, NEW r \in Worker,
           r.lock \in Locks <=> r.phase \in Referring,
           workers' = [workers EXCEPT ![w] = r]
    PROVE  /\ workers' \in [Workers -> Worker]
           /\ \A v \in Workers : workers'[v].lock \in Locks <=> workers'[v].phase \in Referring
           /\ workers'[w] = r
           /\ \A v \in Workers : v # w => workers'[v] = workers[v]
BY DEF RefreshTypeOK

\* A step of one worker that leaves row, table and upstream alone, does not end with an
\* answer in hand, and is past the lock only if it was or nobody is.
LEMMA LocalStep ==
    ASSUME RefreshInv, NEW w \in Workers, NEW r \in Worker,
           workers' = [workers EXCEPT ![w] = r],
           r.lock \in Locks <=> r.phase \in Referring,
           r.phase \in Referring => Phase(w) \in Referring /\ r.lock = workers[w].lock,
           r.phase \in Guarded => Phase(w) \in Guarded \/ \A v \in Workers : Phase(v) \notin Guarded,
           InHand(r), r.phase # "store",
           abandoned \subseteq abandoned', abandoned' \subseteq Pairs,
           \A pair \in abandoned' : pair <= issued,
           Phase(w) = "store" /\ stored # None => Pair(workers[w].observed) \in abandoned',
           status' \in Statuses,
           UNCHANGED <<last, written, origin, stored, table, issued, live>>
    PROVE  RefreshInv'
<1>0. /\ workers' \in [Workers -> Worker] /\ workers'[w] = r
      /\ \A v \in Workers : workers'[v].lock \in Locks <=> workers'[v].phase \in Referring
      /\ \A v \in Workers : v # w => workers'[v] = workers[v]
  BY WorkerChanges DEF RefreshInv
<1>1. RefreshTypeOK'
  BY <1>0 DEF RefreshInv, RefreshTypeOK
<1>2. LockShared'
  BY <1>0 DEF RefreshInv, LockShared
<1>3. OneGuarded'
  BY <1>0 DEF RefreshInv, OneGuarded
<1>4. InHands'
  <2>1. InHand(workers[w])'
    BY <1>0 DEF InHand, Presentable
  <2>2. ASSUME NEW v \in Workers, v # w PROVE InHand(workers[v])'
    BY <1>0, <2>2 DEF RefreshInv, InHands, InHand, Presentable
  <2>3. QED BY <2>1, <2>2 DEF InHands
<1>5. Issued'
  BY DEF RefreshInv, Issued
<1>6. NoWayBack'
  BY DEF RefreshInv, NoWayBack
<1>7. StoredNotBurned'
  <2> SUFFICES ASSUME stored # None PROVE StoredNotBurned'
    BY DEF StoredNotBurned
  <2>1. CASE Pair(stored) \in live \cup abandoned \/ origin[stored] = "used file"
    BY <2>1 DEF StoredNotBurned
  <2>2. ASSUME NEW v \in Workers, Phase(v) = "store", Pair(workers[v].observed) = Pair(stored)
        PROVE StoredNotBurned'
    BY <1>0, <2>2 DEF StoredNotBurned
  <2>3. QED BY <2>1, <2>2 DEF RefreshInv, StoredNotBurned
<1>8. QED BY <1>1, <1>2, <1>3, <1>4, <1>5, <1>6, <1>7 DEF RefreshInv

\* What the row holds is its last write.
LEMMA StoredIsLast ==
    ASSUME RefreshTypeOK, stored # None
    PROVE  stored = last /\ stored \in Written /\ \A c \in Written : c \in Nat /\ c <= stored
<1>1. last \in Nat /\ last # 0 /\ stored = last
  BY DEF RefreshTypeOK
<1>2. 1 <= last
  BY <1>1
<1>3. QED BY <1>1, <1>2

\* A refresh returns an error.
LEMMA FailsInv ==
    ASSUME RefreshInv, NEW w \in Workers, Phase(w) \in Refreshing, RefreshFails(w),
           NEW W \in SUBSET {Pair(workers[w].observed)}, W # {} => workers[w].observed \in Written,
           Phase(w) = "store" /\ stored # None => W # {},
           abandoned' = abandoned \cup W, UNCHANGED <<row, table, upstream>>
    PROVE  RefreshInv'
<1> DEFINE r == Failed(w, workers[w])
<1>1. workers' = [workers EXCEPT ![w] = r] /\ workers[w] \in Worker
  BY DEF RefreshFails, RefreshInv, RefreshTypeOK
<1>2. workers[w].using \in Written
  BY DEF RefreshInv, InHands, InHand
<1>3. r \in Worker /\ r.lock \notin Locks /\ r.phase \notin Referring \cup {"fetch"} /\ InHand(r)
  BY <1>1, <1>2, RefreshAssumption DEF Worker, Failed, Idle, InHand, RefreshInv, RefreshTypeOK
<1>4. W \subseteq Pairs /\ \A pair \in W : pair <= issued
  <2>1. \A c \in Written : Pair(c) \in Pairs /\ Pair(c) <= issued
    BY DEF RefreshInv, RefreshTypeOK, Issued
  <2> HIDE DEF Pairs, Written
  <2>2. QED BY <2>1
<1>5. \A pair \in abandoned' : pair \in Pairs /\ pair <= issued
  BY <1>4 DEF RefreshInv, RefreshTypeOK, Issued
<1>6. Phase(w) = "store" /\ stored # None => Pair(workers[w].observed) \in abandoned'
  OBVIOUS
<1>7. status' \in Statuses
  BY DEF RefreshInv, RefreshTypeOK
<1> HIDE DEF r
<1>8. QED BY <1>1, <1>3, <1>5, <1>6, <1>7, LocalStep

\* A refresh returns the row as it is now.
LEMMA ReturnsInv ==
    ASSUME RefreshInv, NEW w \in Workers, Phase(w) = "check",
           stored # None, RefreshReturns(w, stored), UNCHANGED <<row, table, upstream, abandoned>>
    PROVE  RefreshInv'
<1> DEFINE r == Returned(workers[w], stored)
<1>1. workers' = [workers EXCEPT ![w] = r] /\ workers[w] \in Worker
  BY DEF RefreshReturns, RefreshInv, RefreshTypeOK
<1>2. stored \in Written /\ stored \in Nat
  BY StoredIsLast DEF RefreshInv
<1>3. r \in Worker /\ r.lock \notin Locks /\ r.phase = "send" /\ r.using = stored
  BY <1>1, <1>2, RefreshAssumption DEF Worker, Returned
<1>3a. InHand(r)
  BY <1>2, <1>3 DEF InHand
<1>4. abandoned' \subseteq Pairs /\ \A pair \in abandoned' : pair <= issued
  BY DEF RefreshInv, RefreshTypeOK, Issued
<1>5. status' \in Statuses
  BY DEF RefreshInv, RefreshTypeOK
<1> HIDE DEF r
<1>6. QED BY <1>1, <1>3, <1>3a, <1>4, <1>5, LocalStep

\* What a step that leaves the tokens abandoned so far alone need not show.
LEMMA NothingAbandoned ==
    ASSUME RefreshInv, UNCHANGED abandoned
    PROVE  /\ abandoned \subseteq abandoned' /\ abandoned' \subseteq Pairs
           /\ \A pair \in abandoned' : pair <= issued
BY DEF RefreshInv, RefreshTypeOK, Issued

\* A request or a usage fetch begins.
LEMMA BeginInv ==
    ASSUME RefreshInv, NEW w \in Workers, Begin(w)
    PROVE  RefreshInv'
<1>1. PICK proactive \in BOOLEAN : workers' = [workers EXCEPT
          ![w] = [Idle EXCEPT !.using = stored, !.proactive = proactive,
                              !.phase = IF proactive THEN "observe" ELSE "send"]]
  BY DEF Begin
<1> DEFINE r == [Idle EXCEPT !.using = stored, !.proactive = proactive,
                           !.phase = IF proactive THEN "observe" ELSE "send"]
<1>2. Phase(w) = "idle" /\ stored # None /\ status' \in Statuses
  BY DEF Begin, RefreshInv, RefreshTypeOK
<1>2a. stored \in Written /\ stored \in Nat
  BY <1>2, StoredIsLast DEF RefreshInv
<1>3. r \in Worker /\ r.lock \notin Locks /\ r.phase \in {"observe", "send"} /\ r.using = stored
  BY <1>2a, RefreshAssumption DEF Idle, Worker
<1>3a. InHand(r)
  BY <1>2a, <1>3 DEF InHand
<1>4. workers' = [workers EXCEPT ![w] = r] /\ UNCHANGED <<row, table, upstream, abandoned>>
  BY <1>1 DEF Begin
<1> HIDE DEF r
<1>5. QED BY <1>2, <1>3, <1>3a, <1>4, NothingAbandoned, LocalStep

\* It sends, and ends or finds its token refused.
LEMMA SendInv ==
    ASSUME RefreshInv, NEW w \in Workers, Send(w)
    PROVE  RefreshInv'
<1>1. PICK r \in {Idle, [workers[w] EXCEPT !.phase = "observe"],
                        [workers[w] EXCEPT !.phase = "fail"]} :
        workers' = [workers EXCEPT ![w] = r]
  BY DEF Send, Finish, GoTo
<1>2. Phase(w) = "send" /\ status' \in Statuses /\ UNCHANGED <<row, table, upstream, abandoned>>
  BY DEF Send, RefreshInv, RefreshTypeOK
<1>3. workers[w] \in Worker /\ workers[w].lock \notin Locks /\ workers[w].using \in Written
  BY <1>2 DEF RefreshInv, RefreshTypeOK, InHands, InHand
<1>4. r \in Worker /\ r.lock \notin Locks /\ r.phase \in {"idle", "observe", "fail"} /\ InHand(r)
  BY <1>3, IdleIsWorker DEF Worker, InHand
<1>5. QED BY <1>1, <1>2, <1>4, NothingAbandoned, LocalStep

\* A request gives the account up.
LEMMA MarkAuthFailedInv ==
    ASSUME RefreshInv, NEW w \in Workers, MarkAuthFailed(w)
    PROVE  RefreshInv'
<1>1. /\ Phase(w) = "fail" /\ workers' = [workers EXCEPT ![w] = Idle]
      /\ status' \in Statuses
      /\ UNCHANGED <<last, written, origin, stored, table, issued, live, abandoned>>
  BY DEF MarkAuthFailed, Finish, RefreshInv, RefreshTypeOK
<1>2. QED BY <1>1, IdleIsWorker, NothingAbandoned, LocalStep

\* A refresh observes the row, or finds it gone.
LEMMA ObserveInv ==
    ASSUME RefreshInv, NEW w \in Workers, Observe(w)
    PROVE  RefreshInv'
<1>1. Phase(w) = "observe" /\ status' \in Statuses /\ UNCHANGED <<row, table, upstream, abandoned>>
  BY DEF Observe, RefreshInv, RefreshTypeOK
<1>2. CASE stored = None
  <2>1. RefreshFails(w) /\ abandoned' = abandoned \cup {}
    BY <1>1, <1>2 DEF Observe
  <2>2. QED BY <1>1, <2>1, FailsInv
<1>3. CASE stored # None
  <2> DEFINE r == [workers[w] EXCEPT !.phase = "fetch", !.observed = stored]
  <2>1. workers' = [workers EXCEPT ![w] = r]
    BY <1>3 DEF Observe, RefreshInv, RefreshTypeOK
  <2>2. workers[w] \in Worker /\ workers[w].lock \notin Locks /\ workers[w].using \in Written
    BY <1>1 DEF RefreshInv, RefreshTypeOK, InHands, InHand
  <2>3. stored \in Written /\ stored \in Nat /\ workers[w].using <= stored
    BY <1>3, <2>2, StoredIsLast DEF RefreshInv
  <2>4. /\ r \in Worker /\ r.lock \notin Locks /\ r.phase = "fetch"
        /\ r.using = workers[w].using /\ r.observed = stored
    BY <2>2, <2>3 DEF Worker
  <2> HIDE DEF r
  <2>5. InHand(r)
    BY <2>2, <2>3, <2>4 DEF InHand
  <2>6. QED BY <1>1, <2>1, <2>4, <2>5, NothingAbandoned, LocalStep
<1>4. QED BY <1>2, <1>3

\* It looks its mutex up, or makes one.
LEMMA FetchLockInv ==
    ASSUME RefreshInv, NEW w \in Workers, FetchLock(w)
    PROVE  RefreshInv'
<1> DEFINE r == [workers[w] EXCEPT !.phase = "wait", !.lock = LockFor]
<1>1. /\ Phase(w) = "fetch" /\ table' = LockFor /\ UNCHANGED <<row, upstream, abandoned>>
      /\ workers' = [workers EXCEPT ![w] = r]
  BY DEF FetchLock, RefreshInv, RefreshTypeOK
<1>2. LockFor \in Locks /\ \A v \in Workers : Phase(v) \in Referring => LockFor = table
  <2>1. CASE table # NoLock /\ Referred(table)
    BY <2>1 DEF LockFor, RefreshInv, RefreshTypeOK
  <2>2. CASE ~(table # NoLock /\ Referred(table))
    <3>1. \A v \in Workers : Phase(v) \notin Referring
      BY <2>2, RefreshAssumption DEF RefreshInv, RefreshTypeOK, LockShared, Referred
    <3>2. \A l \in Locks : ~Referred(l)
      BY <3>1 DEF Referred
    <3>3. NewLock \in Locks
      BY <3>2, RefreshAssumption DEF NewLock
    <3>4. QED BY <2>2, <3>1, <3>3 DEF LockFor
  <2>3. QED BY <2>1, <2>2
<1>3. workers[w] \in Worker /\ InHand(workers[w])
  BY DEF RefreshInv, RefreshTypeOK, InHands
<1>4. r \in Worker /\ r.lock = LockFor /\ r.phase = "wait" /\ InHand(r)
  BY <1>1, <1>2, <1>3 DEF Worker, InHand
<1> HIDE DEF r
<1>5. /\ workers' \in [Workers -> Worker] /\ workers'[w] = r
      /\ \A v \in Workers : workers'[v].lock \in Locks <=> workers'[v].phase \in Referring
      /\ \A v \in Workers : v # w => workers'[v] = workers[v]
  BY <1>1, <1>2, <1>4, WorkerChanges DEF RefreshInv
<1>6. RefreshTypeOK'
  BY <1>1, <1>2, <1>5 DEF RefreshInv, RefreshTypeOK
<1>7. LockShared'
  BY <1>1, <1>2, <1>4, <1>5 DEF RefreshInv, LockShared
<1>8. OneGuarded'
  BY <1>4, <1>5 DEF RefreshInv, OneGuarded
<1>9. InHands'
  BY <1>1, <1>4, <1>5 DEF RefreshInv, InHands, InHand, Presentable
<1>10. Issued' /\ NoWayBack'
  BY <1>1 DEF RefreshInv, Issued, NoWayBack
<1>11. StoredNotBurned'
  <2>1. \A v \in Workers : Phase(v) = "store" => workers'[v] = workers[v]
    BY <1>1, <1>5
  <2>2. QED BY <1>1, <2>1 DEF RefreshInv, StoredNotBurned
<1>12. QED BY <1>6, <1>7, <1>8, <1>9, <1>10, <1>11 DEF RefreshInv

\* It gets the mutex.
LEMMA AcquireLockInv ==
    ASSUME RefreshInv, NEW w \in Workers, AcquireLock(w)
    PROVE  RefreshInv'
<1> DEFINE r == [workers[w] EXCEPT !.phase = "check"]
<1>1. /\ Phase(w) = "wait" /\ status' \in Statuses /\ UNCHANGED <<row, table, upstream, abandoned>>
      /\ workers' = [workers EXCEPT ![w] = r]
  BY DEF AcquireLock, GoTo, RefreshInv, RefreshTypeOK
<1>2. \A v \in Workers : Phase(v) \notin Guarded
  BY <1>1 DEF AcquireLock, RefreshInv, LockShared
<1>3. workers[w] \in Worker /\ InHand(workers[w]) /\ workers[w].lock \in Locks
  BY <1>1 DEF RefreshInv, RefreshTypeOK, InHands
<1>4. /\ r \in Worker /\ r.lock = workers[w].lock /\ r.lock \in Locks
      /\ r.phase = "check" /\ InHand(r)
  BY <1>1, <1>3 DEF Worker, InHand
<1> HIDE DEF r
<1>5. QED BY <1>1, <1>2, <1>4, NothingAbandoned, LocalStep

\* A refresh finds the row replaced, or goes on with what it observed.
LEMMA RecheckInv ==
    ASSUME RefreshInv, NEW w \in Workers, Recheck(w)
    PROVE  RefreshInv'
<1>1. Phase(w) = "check" /\ status' \in Statuses /\ UNCHANGED <<row, table, upstream, abandoned>>
  BY DEF Recheck, RefreshInv, RefreshTypeOK
<1>2. CASE stored = None
  <2>1. RefreshFails(w) /\ abandoned' = abandoned \cup {}
    BY <1>1, <1>2 DEF Recheck
  <2>2. QED BY <1>1, <2>1, FailsInv
<1>3. CASE stored # None /\ ~StillObserved(w)
  BY <1>1, <1>3, ReturnsInv DEF Recheck
<1>4. CASE stored # None /\ StillObserved(w)
  <2> DEFINE r == [workers[w] EXCEPT !.phase = "posted"]
  <2>1. workers' = [workers EXCEPT ![w] = r] /\ workers[w].observed = stored
    BY <1>4 DEF Recheck, GoTo, StillObserved, RefreshInv, RefreshTypeOK
  <2>2. workers[w] \in Worker /\ InHand(workers[w]) /\ workers[w].lock \in Locks
    BY <1>1 DEF RefreshInv, RefreshTypeOK, InHands
  <2>3. Presentable(stored)
    <3>1. \A v \in Workers : Phase(v) # "store"
      BY <1>1 DEF RefreshInv, OneGuarded
    <3>2. QED BY <1>4, <3>1 DEF RefreshInv, StoredNotBurned, Presentable
  <2>4. /\ r \in Worker /\ r.lock = workers[w].lock /\ r.lock \in Locks
        /\ r.phase = "posted" /\ InHand(r)
    BY <1>1, <2>1, <2>2, <2>3 DEF Worker, InHand
  <2> HIDE DEF r
  <2>5. QED BY <1>1, <2>1, <2>4, NothingAbandoned, LocalStep
<1>5. QED BY <1>2, <1>3, <1>4

\* No answer, or the answer that the token is not good.
LEMMA UnansweredInv ==
    ASSUME RefreshInv, NEW w \in Workers, Unanswered(w)
    PROVE  RefreshInv'
<1>1. Phase(w) = "posted" /\ RefreshFails(w) /\ UNCHANGED <<row, table, upstream>>
  BY DEF Unanswered
<1>2. PICK W \in {{}, {Pair(workers[w].observed)}} : abandoned' = abandoned \cup W
  BY DEF Unanswered
<1>3. workers[w].observed \in Written /\ W \in SUBSET {Pair(workers[w].observed)}
  BY <1>1 DEF RefreshInv, InHands, InHand
<1>4. QED BY <1>1, <1>2, <1>3, FailsInv

\* The UPDATE that stores the pair fails.
LEMMA StoreFailsInv ==
    ASSUME RefreshInv, NEW w \in Workers, StoreFails(w)
    PROVE  RefreshInv'
<1>1. /\ Phase(w) = "store" /\ RefreshFails(w) /\ UNCHANGED <<row, table, upstream>>
      /\ abandoned' = abandoned \cup {Pair(workers[w].observed)}
  BY DEF StoreFails
<1>2. workers[w].observed \in Written
  BY <1>1 DEF RefreshInv, InHands, InHand
<1>3. QED BY <1>1, <1>2, FailsInv

\* A future is dropped.
LEMMA LeaveInv ==
    ASSUME RefreshInv, NEW w \in Workers, Leave(w)
    PROVE  RefreshInv'
<1>1. /\ workers' = [workers EXCEPT ![w] = Idle] /\ status' \in Statuses
      /\ abandoned' = abandoned \cup Spent({w}) /\ UNCHANGED <<row, table, upstream>>
  BY DEF Leave, Finish, RefreshInv, RefreshTypeOK
<1>2. Phase(w) \in {"posted", "store"} => workers[w].observed \in Written
  BY DEF RefreshInv, InHands, InHand
<1>3. /\ abandoned' \subseteq Pairs /\ \A pair \in abandoned' : pair <= issued
      /\ Phase(w) = "store" => Pair(workers[w].observed) \in abandoned'
  BY <1>1, <1>2 DEF Spent, RefreshInv, RefreshTypeOK, Issued
<1>4. QED BY <1>1, <1>3, IdleIsWorker, LocalStep

\* The upstream has rotated a pair.
LEMMA Rotated ==
    ASSUME RefreshInv, NEW pair \in Pairs, Rotate(pair)
    PROVE  /\ issued' = issued + 1 /\ issued' \in Pairs
           /\ live' = (live \ {pair}) \cup {issued'} /\ live' \in SUBSET Pairs
           /\ \A c \in Written : Pair(c) # issued' /\ Pair(c) <= issued'
           /\ \A known \in live \cup abandoned : known # issued' /\ known <= issued'
<1>1. issued \in Nat /\ issued + 1 \in Pairs
  <2>1. issued \in Pairs /\ issued < MaxPair
    BY DEF Rotate, RefreshInv, RefreshTypeOK
  <2>2. issued \in Nat /\ MaxPair \in Nat
    BY <2>1, RefreshAssumption
  <2>3. QED BY <2>1, <2>2, NextNumber
<1>2. issued' = issued + 1 /\ live' = (live \ {pair}) \cup {issued'}
  BY DEF Rotate
<1>3. live \subseteq Pairs /\ abandoned \subseteq Pairs /\ \A c \in Written : Pair(c) \in Pairs
  BY DEF RefreshInv, RefreshTypeOK
<1>4. \A known \in Pairs : known <= issued => known # issued + 1 /\ known <= issued + 1
  BY <1>1
<1>5. \A c \in Written : Pair(c) # issued' /\ Pair(c) <= issued'
  BY <1>2, <1>3, <1>4 DEF RefreshInv, Issued
<1>6. \A known \in live \cup abandoned : known # issued' /\ known <= issued'
  BY <1>2, <1>3, <1>4 DEF RefreshInv, Issued
<1>7. QED BY <1>1, <1>2, <1>3, <1>5, <1>6

\* A refresh has its answer.
LEMMA AnsweredInv ==
    ASSUME RefreshInv, NEW w \in Workers, Answered(w)
    PROVE  RefreshInv'
<1> DEFINE r == [workers[w] EXCEPT !.phase = "store", !.answer = issued + 1]
<1>1. /\ Phase(w) = "posted" /\ workers' = [workers EXCEPT ![w] = r]
      /\ Rotate(Pair(workers[w].observed)) /\ UNCHANGED <<row, table, abandoned>>
  BY DEF Answered, RefreshInv, RefreshTypeOK
<1>2. workers[w] \in Worker /\ InHand(workers[w]) /\ workers[w].lock \in Locks
  BY <1>1 DEF RefreshInv, RefreshTypeOK, InHands
<1>3. workers[w].observed \in Written /\ Pair(workers[w].observed) \in Pairs
  BY <1>1, <1>2 DEF InHand, RefreshInv, RefreshTypeOK
<1>4. /\ issued' = issued + 1 /\ issued' \in Pairs
      /\ live' = (live \ {Pair(workers[w].observed)}) \cup {issued'} /\ live' \in SUBSET Pairs
      /\ \A c \in Written : Pair(c) # issued' /\ Pair(c) <= issued'
      /\ \A known \in live \cup abandoned : known # issued' /\ known <= issued'
  BY <1>1, <1>3, Rotated
<1>5. /\ r \in Worker /\ r.lock = workers[w].lock /\ r.lock \in Locks /\ r.phase = "store"
      /\ r.observed = workers[w].observed /\ r.using = workers[w].using /\ r.answer = issued'
  BY <1>2, <1>4 DEF Worker
<1> HIDE DEF r
<1>6. /\ workers' \in [Workers -> Worker] /\ workers'[w] = r
      /\ \A v \in Workers : workers'[v].lock \in Locks <=> workers'[v].phase \in Referring
      /\ \A v \in Workers : v # w => workers'[v] = workers[v]
  BY <1>1, <1>5, WorkerChanges DEF RefreshInv
<1>7. RefreshTypeOK'
  BY <1>1, <1>4, <1>6 DEF RefreshInv, RefreshTypeOK
<1>8. LockShared' /\ OneGuarded'
  BY <1>1, <1>5, <1>6 DEF RefreshInv, LockShared, OneGuarded
<1>9. InHands'
  <2>1. InHand(workers[w])'
    BY <1>1, <1>2, <1>4, <1>5, <1>6 DEF InHand
  <2>2. ASSUME NEW v \in Workers, v # w PROVE InHand(workers[v])'
    <3>1. Phase(v) \notin Guarded
      BY <1>1, <2>2 DEF RefreshInv, OneGuarded
    <3>2. QED BY <1>1, <1>6, <2>2, <3>1 DEF InHand, RefreshInv, InHands
  <2>3. QED BY <2>1, <2>2 DEF InHands
<1>10. Issued'
  BY <1>1, <1>4 DEF Issued
<1>11. NoWayBack'
  BY <1>1 DEF RefreshInv, NoWayBack
<1>12. StoredNotBurned'
  <2>1. \A v \in Workers : Phase(v) # "store"
    BY <1>1 DEF RefreshInv, OneGuarded
  <2>2. CASE stored # None /\ Pair(stored) = Pair(workers[w].observed)
    BY <1>1, <1>5, <1>6, <2>2 DEF StoredNotBurned
  <2>3. CASE stored # None /\ Pair(stored) # Pair(workers[w].observed)
    BY <1>1, <1>4, <2>1, <2>3 DEF RefreshInv, StoredNotBurned
  <2>4. CASE stored = None
    BY <1>1, <2>4 DEF StoredNotBurned
  <2>5. QED BY <2>2, <2>3, <2>4
<1>13. QED BY <1>7, <1>8, <1>9, <1>10, <1>11, <1>12 DEF RefreshInv

\* The upstream serves a request nobody waits for.
LEMMA LateRotationInv ==
    ASSUME RefreshInv, NEW pair \in Pairs, LateRotation(pair)
    PROVE  RefreshInv'
<1>1. pair \in abandoned /\ Rotate(pair) /\ UNCHANGED <<row, table, workers, abandoned>>
  BY DEF LateRotation
<1>2. /\ issued' = issued + 1 /\ issued' \in Pairs
      /\ live' = (live \ {pair}) \cup {issued'} /\ live' \in SUBSET Pairs
      /\ \A c \in Written : Pair(c) # issued' /\ Pair(c) <= issued'
      /\ \A known \in live \cup abandoned : known # issued' /\ known <= issued'
  BY <1>1, Rotated
<1>3. live \cup abandoned \subseteq live' \cup abandoned'
  BY <1>1, <1>2
<1>4. RefreshTypeOK'
  BY <1>1, <1>2 DEF RefreshInv, RefreshTypeOK
<1>5. LockShared' /\ OneGuarded' /\ NoWayBack'
  BY <1>1 DEF RefreshInv, LockShared, OneGuarded, NoWayBack
<1>6. InHands'
  BY <1>1, <1>3 DEF RefreshInv, InHands, InHand, Presentable
<1>7. Issued'
  BY <1>1, <1>2 DEF Issued
<1>8. StoredNotBurned'
  BY <1>1, <1>3 DEF RefreshInv, StoredNotBurned
<1>9. QED BY <1>4, <1>5, <1>6, <1>7, <1>8 DEF RefreshInv

\* A write is the last of the writes, and changes none of those before.
LEMMA PutIsLast ==
    ASSUME RefreshTypeOK, NEW pair \in Pairs, NEW from \in Origins, Put(pair, from)
    PROVE  /\ last' = last + 1 /\ last' \in Nat \ {0} /\ stored' = last'
           /\ status' = "active"
           /\ written' \in [1..last' -> Pairs] /\ origin' \in [1..last' -> Origins]
           /\ \A c \in Written : c \in Written' /\ written'[c] = written[c] /\ origin'[c] = origin[c]
           /\ written'[last'] = pair /\ origin'[last'] = from
           /\ \A c \in Written' : c \in Written \/ c = last'
           /\ last' \in Written' /\ \A c \in Written : c < last'
<1>1. last \in Nat /\ last # 0
  BY DEF RefreshTypeOK
<1>2. /\ \A c \in 1..(last + 1) : c \in 1..last \/ c = last + 1
      /\ \A c \in 1..last : c \in 1..(last + 1) /\ c # last + 1 /\ c < last + 1
      /\ last + 1 \in 1..(last + 1) /\ last + 1 \in Nat \ {0}
  BY <1>1, NextNumber
<1>5. /\ last' = last + 1 /\ stored' = last + 1 /\ status' = "active"
      /\ written' = [c \in 1..(last + 1) |-> IF c = last + 1 THEN pair ELSE written[c]]
      /\ origin' = [c \in 1..(last + 1) |-> IF c = last + 1 THEN from ELSE origin[c]]
  BY DEF Put
<1>6. written' \in [1..(last + 1) -> Pairs]
  BY <1>2, <1>5 DEF RefreshTypeOK
<1>7. origin' \in [1..(last + 1) -> Origins]
  BY <1>2, <1>5 DEF RefreshTypeOK
<1>8. QED BY <1>2, <1>5, <1>6, <1>7

\* What a worker has in hand stays good when a pair is put into the row that is not the
\* answer of another.
LEMMA PutKeepsHands ==
    ASSUME RefreshInv, NEW pair \in Pairs, NEW from \in Origins, Put(pair, from),
           NEW w \in Workers, workers'[w] = workers[w],
           Phase(w) = "store" => workers[w].answer # pair,
           live \subseteq live', UNCHANGED abandoned
    PROVE  InHand(workers[w])'
<1>1. /\ \A c \in Written : c \in Written' /\ written'[c] = written[c] /\ origin'[c] = origin[c]
      /\ \A c \in Written' : c \in Written \/ c = last'
      /\ written'[last'] = pair
  BY PutIsLast DEF RefreshInv
<1>2. InHand(workers[w])
  BY DEF RefreshInv, InHands
<1> HIDE DEF Written
<1>3. QED BY <1>1, <1>2 DEF InHand, Presentable

\* The answer is stored and returned, or the row is gone.
LEMMA StoreInv ==
    ASSUME RefreshInv, NEW w \in Workers, Store(w)
    PROVE  RefreshInv'
<1>1. Phase(w) = "store" /\ UNCHANGED <<table, upstream, abandoned>>
  BY DEF Store
<1>2. CASE stored = None
  <2>1. RefreshFails(w) /\ UNCHANGED row /\ abandoned' = abandoned \cup {}
    BY <1>1, <1>2 DEF Store
  <2>2. QED BY <1>1, <1>2, <2>1, FailsInv
<1>3. CASE stored # None
  <2> DEFINE answer == workers[w].answer
             r == Returned(workers[w], last')
  <2>1. workers' = [workers EXCEPT ![w] = r] /\ Put(answer, "refresh")
    BY <1>3 DEF Store, Put, RefreshReturns, NewPair, RefreshInv, RefreshTypeOK
  <2>2. workers[w] \in Worker /\ InHand(workers[w])
    BY DEF RefreshInv, RefreshTypeOK, InHands
  <2>3. /\ answer \in Pairs /\ answer \in live \cup abandoned
        /\ \A c \in Written : Pair(c) # answer
    BY <1>1, <2>2 DEF InHand
  <2>4. /\ last' = last + 1 /\ last' \in Nat \ {0} /\ stored' = last' /\ status' = "active"
        /\ written' \in [1..last' -> Pairs] /\ origin' \in [1..last' -> Origins]
        /\ \A c \in Written : c \in Written' /\ written'[c] = written[c] /\ origin'[c] = origin[c]
        /\ written'[last'] = answer /\ origin'[last'] = "refresh"
        /\ \A c \in Written' : c \in Written \/ c = last'
        /\ last' \in Written' /\ \A c \in Written : c < last'
    BY <2>1, <2>3, PutIsLast DEF RefreshInv
  <2>4a. \A c \in 1..last, d \in 1..(last + 1) : d < c => d \in 1..last
    BY NextNumber DEF RefreshInv, RefreshTypeOK
  <2>5. r \in Worker /\ r.lock \notin Locks /\ r.phase = "send" /\ r.using = last'
    <3>1. last' \in Nat
      BY <2>4
    <3>2. QED BY <2>2, <3>1, RefreshAssumption DEF Worker, Returned
  <2> HIDE DEF r, answer, Written
  <2>6. /\ workers' \in [Workers -> Worker] /\ workers'[w] = r
        /\ \A v \in Workers : workers'[v].lock \in Locks <=> workers'[v].phase \in Referring
        /\ \A v \in Workers : v # w => workers'[v] = workers[v]
    BY <2>1, <2>5, WorkerChanges DEF RefreshInv
  <2>7. RefreshTypeOK'
    BY <1>1, <2>4, <2>6 DEF RefreshInv, RefreshTypeOK
  <2>8. LockShared' /\ OneGuarded'
    BY <1>1, <2>5, <2>6 DEF RefreshInv, LockShared, OneGuarded
  <2>9. InHands'
    <3>1. InHand(workers[w])'
      BY <2>4, <2>5, <2>6 DEF InHand
    <3>2. ASSUME NEW v \in Workers, v # w PROVE InHand(workers[v])'
      <4>1. Phase(v) # "store"
        BY <1>1, <3>2 DEF RefreshInv, OneGuarded
      <4>2. QED BY <1>1, <2>1, <2>3, <2>6, <3>2, <4>1, PutKeepsHands
    <3>3. QED BY <3>1, <3>2 DEF InHands
  <2>10. Issued'
    <3>1. \A c \in Written' : written'[c] <= issued
      BY <2>3, <2>4 DEF RefreshInv, Issued
    <3>2. QED BY <1>1, <3>1 DEF RefreshInv, Issued
  <2>11. NoWayBack'
    <3> SUFFICES ASSUME NEW c \in Written', NEW d \in Written', c < d, origin'[d] = "refresh"
                 PROVE written'[c] # written'[d]
      BY DEF NoWayBack
    <3>1. CASE d = last'
      <4>1. c \in Written
        <5>1. \A n \in Nat : ~(n < n)
          OBVIOUS
        <5>2. QED BY <2>4, <3>1, <5>1
      <4>2. QED BY <2>3, <2>4, <3>1, <4>1
    <3>2. CASE d \in Written
      <4>1. c \in Written
        BY <2>4, <2>4a, <3>2 DEF Written
      <4>2. QED BY <2>4, <3>2, <4>1 DEF RefreshInv, NoWayBack
    <3>3. QED BY <2>4, <3>1, <3>2
  <2>12. StoredNotBurned'
    BY <1>1, <2>3, <2>4 DEF StoredNotBurned
  <2>13. QED BY <2>7, <2>8, <2>9, <2>10, <2>11, <2>12 DEF RefreshInv
<1>4. QED BY <1>2, <1>3

\* An operator imports a file, new or old.
LEMMA ImportInv ==
    ASSUME RefreshInv, Import
    PROVE  RefreshInv'
<1>1. /\ \A c \in Written : Pair(c) \in Pairs /\ Pair(c) <= issued
      /\ issued \in Pairs /\ live \in SUBSET Pairs /\ live' \in {live, live \cup {issued + 1}}
  BY DEF RefreshInv, RefreshTypeOK, Issued, Import
<1>2. PICK pair \in Pairs, from \in {"file", "used file"} :
        /\ Put(pair, from)
        /\ from = "used file" \/ pair \in live'
        /\ pair <= issued' /\ issued <= issued' /\ issued' \in Pairs
        /\ live \subseteq live' /\ live' \in SUBSET Pairs
        /\ \A known \in live' : known \in live \/ known = pair
        /\ pair = issued + 1 \/ \E c \in Written : pair = Pair(c)
  <2>1. CASE issued < MaxPair /\ issued' = issued + 1 /\ live' = live \cup {issued + 1}
             /\ Put(issued + 1, "file")
    <3>1. issued + 1 \in Pairs /\ issued <= issued + 1 /\ issued + 1 <= issued + 1
      BY <1>1, <2>1, RefreshAssumption
    <3>2. QED BY <1>1, <2>1, <3>1
  <2>2. CASE (\E pair \in Files : Put(pair, IF pair \in live THEN "file" ELSE "used file"))
             /\ UNCHANGED upstream
    <3>1. PICK c \in Written : Put(Pair(c), IF Pair(c) \in live THEN "file" ELSE "used file")
      BY <2>2 DEF Files, Imports
    <3>2. issued <= issued
      BY <1>1
    <3>3. CASE Pair(c) \in live
      BY <1>1, <2>2, <3>1, <3>2, <3>3
    <3>4. CASE Pair(c) \notin live
      BY <1>1, <2>2, <3>1, <3>2, <3>4
    <3>5. QED BY <3>3, <3>4
  <2>3. QED BY <2>1, <2>2 DEF Import
<1>3. UNCHANGED <<table, workers, abandoned>>
  BY DEF Import
<1>4. /\ last' = last + 1 /\ last' \in Nat \ {0} /\ stored' = last' /\ status' = "active"
      /\ written' \in [1..last' -> Pairs] /\ origin' \in [1..last' -> Origins]
      /\ \A c \in Written : c \in Written' /\ written'[c] = written[c] /\ origin'[c] = origin[c]
      /\ written'[last'] = pair /\ origin'[last'] = from
      /\ \A c \in Written' : c \in Written \/ c = last'
      /\ last' \in Written' /\ \A c \in Written : c < last'
  BY <1>2, PutIsLast DEF RefreshInv
<1>5. RefreshTypeOK'
  BY <1>2, <1>3, <1>4 DEF RefreshInv, RefreshTypeOK
<1>6. LockShared' /\ OneGuarded'
  BY <1>3 DEF RefreshInv, LockShared, OneGuarded
<1> HIDE DEF Written
<1>7. InHands'
  <2> SUFFICES ASSUME NEW v \in Workers PROVE InHand(workers[v])'
    BY DEF InHands
  <2>1. ASSUME Phase(v) = "store" PROVE workers[v].answer # pair
    <3>1. workers[v].answer \in live \cup abandoned /\ \A c \in Written : Pair(c) # workers[v].answer
      BY <2>1 DEF RefreshInv, InHands, InHand
    <3>2. workers[v].answer \in Pairs /\ workers[v].answer <= issued
      BY <3>1 DEF RefreshInv, RefreshTypeOK, Issued
    <3>3. workers[v].answer # issued + 1
      <4>1. workers[v].answer \in Nat /\ issued \in Nat
        BY <1>1, <3>2, PairsAreNumbers
      <4>2. QED BY <3>2, <4>1, NextNumber
    <3>4. QED BY <1>2, <3>1, <3>3
  <2>2. QED BY <1>2, <1>3, <2>1, PutKeepsHands
<1>8. Issued'
  <2>1. \A known \in Pairs : known <= issued => known <= issued'
    <3>1. issued \in Pairs /\ issued' \in Pairs /\ issued <= issued'
      BY <1>1, <1>2
    <3> HIDE DEF Pairs
    <3>2. QED BY <3>1, PairsAreNumbers, NextNumber
  <2>2. \A c \in Written' : written'[c] <= issued'
    BY <1>1, <1>2, <1>4, <2>1
  <2>3. \A known \in live' \cup abandoned' : known <= issued'
    BY <1>2, <1>3, <2>1 DEF RefreshInv, RefreshTypeOK, Issued
  <2>4. QED BY <2>2, <2>3 DEF Issued
<1>9. NoWayBack'
  <2> SUFFICES ASSUME NEW c \in Written', NEW d \in Written', c < d, origin'[d] = "refresh"
               PROVE written'[c] # written'[d]
    BY DEF NoWayBack
  <2>1. d \in Written
    BY <1>2, <1>4
  <2>2. c \in Written
    <3>1. last \in Nat
      BY DEF RefreshInv, RefreshTypeOK
    <3>2. \A m \in 1..last, n \in 1..(last + 1) : n < m => n \in 1..last
      BY <3>1, NextNumber
    <3>3. c \in 1..(last + 1)
      BY <1>4 DEF Written
    <3>4. QED BY <2>1, <3>2, <3>3 DEF Written
  <2>3. /\ origin[d] = "refresh" /\ written'[c] = written[c] /\ written'[d] = written[d]
    BY <1>4, <2>1, <2>2
  <2>4. NoWayBack
    BY DEF RefreshInv
  <2>5. Pair(c) # Pair(d)
    BY <2>1, <2>2, <2>3, <2>4 DEF NoWayBack
  <2>6. QED BY <2>3, <2>5
<1>10. StoredNotBurned'
  BY <1>2, <1>4 DEF StoredNotBurned
<1>11. QED BY <1>5, <1>6, <1>7, <1>8, <1>9, <1>10 DEF RefreshInv

\* The daemon is stopped and started.
LEMMA RestartInv ==
    ASSUME RefreshInv, Restart
    PROVE  RefreshInv'
<1>1. /\ workers' = [w \in Workers |-> Idle] /\ table' = NoLock
      /\ abandoned' = abandoned \cup Spent(Workers) /\ UNCHANGED <<row, upstream>>
  BY DEF Restart
<1>2. \A w \in Workers : Phase(w) \in {"posted", "store"} => workers[w].observed \in Written
  BY DEF RefreshInv, InHands, InHand
<1>3. \A c \in Written : Pair(c) \in Pairs /\ Pair(c) <= issued
  BY DEF RefreshInv, RefreshTypeOK, Issued
<1>4. abandoned' \subseteq Pairs /\ \A pair \in abandoned' : pair <= issued
  <2>1. abandoned \subseteq Pairs /\ \A pair \in abandoned : pair <= issued
    BY DEF RefreshInv, RefreshTypeOK, Issued
  <2> HIDE DEF Pairs, Written
  <2>2. QED BY <1>1, <1>2, <1>3, <2>1 DEF Spent
<1>5. RefreshTypeOK'
  BY <1>1, <1>4, IdleIsWorker DEF RefreshInv, RefreshTypeOK
<1>6. LockShared' /\ OneGuarded'
  BY <1>1, IdleIsWorker DEF LockShared, OneGuarded
<1>7. InHands'
  BY <1>1, IdleIsWorker DEF InHands, InHand
<1>8. Issued' /\ NoWayBack'
  BY <1>1, <1>4 DEF RefreshInv, Issued, NoWayBack
<1>9. StoredNotBurned'
  BY <1>1 DEF RefreshInv, StoredNotBurned, Spent
<1>10. QED BY <1>5, <1>6, <1>7, <1>8, <1>9 DEF RefreshInv

\* An operator pauses, resumes or deletes the account.
LEMMA OperatorInv ==
    ASSUME RefreshInv, DeleteAccount \/ \E new \in Statuses : SetStatus(new)
    PROVE  RefreshInv'
<1>1. /\ UNCHANGED <<last, written, origin, table, workers, upstream, abandoned>>
      /\ stored' \in {stored, None} /\ status' \in Statuses
  BY DEF DeleteAccount, SetStatus, RefreshInv, RefreshTypeOK
<1>2. RefreshTypeOK'
  BY <1>1 DEF RefreshInv, RefreshTypeOK
<1>3. LockShared' /\ OneGuarded'
  BY <1>1 DEF RefreshInv, LockShared, OneGuarded
<1>4. InHands'
  BY <1>1 DEF RefreshInv, InHands, InHand, Presentable
<1>5. Issued' /\ NoWayBack'
  BY <1>1 DEF RefreshInv, Issued, NoWayBack
<1>6. StoredNotBurned'
  BY <1>1 DEF RefreshInv, StoredNotBurned
<1>7. QED BY <1>2, <1>3, <1>4, <1>5, <1>6 DEF RefreshInv

\* Every step of Next keeps the inductive invariant.
LEMMA NextInv == RefreshInv /\ [Next]_vars => RefreshInv'
<1> SUFFICES ASSUME RefreshInv, [Next]_vars PROVE RefreshInv'
  OBVIOUS
<1>1. ASSUME NEW w \in Workers, Begin(w) \/ Send(w) \/ MarkAuthFailed(w) \/ Leave(w) PROVE RefreshInv'
  BY <1>1, BeginInv, SendInv, MarkAuthFailedInv, LeaveInv
<1>2. ASSUME NEW w \in Workers, Observe(w) \/ FetchLock(w) \/ AcquireLock(w) \/ Recheck(w)
      PROVE RefreshInv'
  BY <1>2, ObserveInv, FetchLockInv, AcquireLockInv, RecheckInv
<1>3. ASSUME NEW w \in Workers, Answered(w) \/ Unanswered(w) \/ Store(w) \/ StoreFails(w)
      PROVE RefreshInv'
  BY <1>3, AnsweredInv, UnansweredInv, StoreInv, StoreFailsInv
<1>4. CASE \E pair \in Pairs : LateRotation(pair)
  BY <1>4, LateRotationInv
<1>5. CASE OperatorStep
  BY <1>5, ImportInv, OperatorInv DEF OperatorStep
<1>6. CASE Restart
  BY <1>6, RestartInv
<1>7. CASE UNCHANGED vars
  BY <1>7 DEF vars, RefreshInv, RefreshTypeOK, LockShared, OneGuarded, InHands, InHand,
              Presentable, Issued, NoWayBack, StoredNotBurned
<1>8. QED BY <1>1, <1>2, <1>3, <1>4, <1>5, <1>6, <1>7 DEF Next, AwaitStep, OwnStep

\* The inductive invariant.
LEMMA RefreshInvariant == Spec => []RefreshInv
<1>1. QED BY InitInv, NextInv, PTL DEF Spec

\* The row, the lock table, the workers and the upstream keep their types; a worker has a
\* mutex exactly while it awaits or holds one.
THEOREM RefreshTypeCorrect == Spec => []RefreshTypeOK
<1>1. RefreshInv => RefreshTypeOK
  BY DEF RefreshInv
<1>2. QED BY <1>1, RefreshInvariant, PTL

\* However many workers there are, the weak entries of the lock table never lead two of
\* them past the lock of the account at once.
THEOREM OneRefreshAtATime == Spec => []OneGuarded
<1>1. RefreshInv => OneGuarded
  BY DEF RefreshInv
<1>2. QED BY <1>1, RefreshInvariant, PTL

\* No refresh presents a token that has been used, short of answers nobody got and of
\* imported files whose token had been used.
THEOREM UsedTokensNotPresented == Spec => []UsedTokenNotPresented
<1>1. RefreshInv => UsedTokenNotPresented
  BY DEF RefreshInv, InHands, InHand, Presentable, UsedTokenNotPresented
<1>2. QED BY <1>1, RefreshInvariant, PTL

\* The stored credentials stay good or their successor is in the hands of a worker, short
\* of answers nobody got and of imported files whose token had been used.
THEOREM StoredNeverBurned == Spec => []StoredNotBurned
<1>1. RefreshInv => StoredNotBurned
  BY DEF RefreshInv
<1>2. QED BY <1>1, RefreshInvariant, PTL

\* The retry after a refused token waits for a write: a worker gets the row only if it has
\* been written since it was observed, and no refresh brings a pair back to the row.
THEOREM RetriesUseAnotherPair == Spec => RetryUsesAnotherPair
<1> DEFINE Another(w) ==
             workers'[w].retried /\ ~workers[w].retried =>
               /\ workers[w].using < workers'[w].using
               /\ origin'[workers'[w].using] = "refresh" =>
                    written'[workers'[w].using] # written[workers[w].using]
<1>1. ASSUME RefreshInv, [Next]_vars, NEW w \in Workers PROVE Another(w)
  <2>0. workers \in [Workers -> Worker]
    BY <1>1 DEF RefreshInv, RefreshTypeOK
  <2>1. ASSUME NEW v \in Workers, Recheck(v) PROVE Another(w)
    <3>1. UNCHANGED row /\ workers[v] \in Worker /\ Phase(v) = "check" /\ InHand(workers[v])
      BY <1>1, <2>1 DEF Recheck, RefreshInv, RefreshTypeOK, InHands
    <3>2. CASE RefreshReturns(v, stored) /\ stored # None /\ ~StillObserved(v)
      <4>1. workers[v].using \in Written /\ workers[v].observed \in Written
            /\ workers[v].using <= workers[v].observed /\ workers[v].observed # stored
        BY <3>1, <3>2 DEF InHand, StillObserved
      <4>2. stored \in Written /\ \A c \in Written : c \in Nat /\ c <= stored
        BY <1>1, <3>2, StoredIsLast DEF RefreshInv
      <4>3. workers[v].using < stored
        <5> HIDE DEF Written
        <5>1. \A l, m, n \in Nat : l <= m /\ m <= n /\ m # n => l < n
          BY NextNumber
        <5>2. QED BY <4>1, <4>2, <5>1
      <4>4. workers'[v].using = stored /\ (v # w => workers'[w] = workers[w])
        BY <1>1, <3>1, <3>2 DEF RefreshInv, RefreshTypeOK, RefreshReturns, Returned, Worker
      <4>5. origin[stored] = "refresh" => written[stored] # written[workers[v].using]
        BY <1>1, <4>1, <4>2, <4>3 DEF RefreshInv, NoWayBack
      <4>6. CASE v = w
        BY <3>1, <4>3, <4>4, <4>5, <4>6
      <4>7. QED BY <4>4, <4>6
    <3>3. CASE RefreshFails(v)
      BY <2>0, <3>3 DEF Worker, RefreshFails, Failed, Idle
    <3>4. CASE GoTo(v, "posted")
      BY <2>0, <3>4 DEF Worker, GoTo
    <3>5. QED BY <2>1, <3>2, <3>3, <3>4 DEF Recheck
  <2>2. ASSUME NEW v \in Workers, Store(v) PROVE Another(w)
    <3>1. CASE Put(NewPair(v), "refresh") /\ RefreshReturns(v, last + 1)
      <4>1. /\ workers[v].answer \in Pairs /\ workers[v].using \in Written
            /\ \A c \in Written : Pair(c) # workers[v].answer
        BY <1>1, <2>2 DEF RefreshInv, InHands, InHand, Store
      <4>2. /\ last' = last + 1 /\ written'[last'] = workers[v].answer
            /\ \A c \in Written : c < last'
        BY <1>1, <3>1, <4>1, PutIsLast DEF RefreshInv, NewPair
      <4>3. workers'[v].using = last' /\ (v # w => workers'[w] = workers[w])
        BY <1>1, <3>1, <4>2 DEF RefreshInv, RefreshTypeOK, RefreshReturns, Returned, Worker
      <4>4. CASE v = w
        BY <4>1, <4>2, <4>3, <4>4
      <4>5. QED BY <4>3, <4>4
    <3>2. CASE RefreshFails(v)
      BY <2>0, <3>2 DEF Worker, RefreshFails, Failed, Idle
    <3>3. QED BY <2>2, <3>1, <3>2 DEF Store
  <2>3. ASSUME NEW v \in Workers, Observe(v) \/ Unanswered(v) \/ StoreFails(v) PROVE Another(w)
    <3>1. CASE RefreshFails(v)
      BY <2>0, <3>1 DEF Worker, RefreshFails, Failed, Idle
    <3>2. CASE workers' = [workers EXCEPT ![v].phase = "fetch", ![v].observed = stored]
      BY <2>0, <3>2 DEF Worker
    <3>3. QED BY <2>3, <3>1, <3>2 DEF Observe, Unanswered, StoreFails
  <2>4. ASSUME NEW v \in Workers, FetchLock(v) \/ AcquireLock(v) \/ Answered(v) PROVE Another(w)
    <3>1. CASE workers' = [workers EXCEPT ![v].phase = "wait", ![v].lock = LockFor]
      BY <2>0, <3>1 DEF Worker
    <3>2. CASE GoTo(v, "check")
      BY <2>0, <3>2 DEF Worker, GoTo
    <3>3. CASE workers' = [workers EXCEPT ![v].phase = "store", ![v].answer = issued + 1]
      BY <2>0, <3>3 DEF Worker
    <3>4. QED BY <2>4, <3>1, <3>2, <3>3 DEF FetchLock, AcquireLock, Answered
  <2>5. ASSUME NEW v \in Workers, Begin(v) \/ Send(v) \/ MarkAuthFailed(v) \/ Leave(v)
        PROVE Another(w)
    <3>1. CASE Begin(v)
      <4>1. PICK proactive \in BOOLEAN : workers' = [workers EXCEPT
              ![v] = [Idle EXCEPT !.using = stored, !.proactive = proactive,
                                  !.phase = IF proactive THEN "observe" ELSE "send"]]
        BY <3>1 DEF Begin
      <4>2. [Idle EXCEPT !.using = stored, !.proactive = proactive,
                         !.phase = IF proactive THEN "observe" ELSE "send"].retried = FALSE
        BY DEF Idle
      <4>3. v = w => workers'[w].retried = FALSE
        BY <1>1, <4>1, <4>2 DEF RefreshInv, RefreshTypeOK
      <4>4. v # w => workers'[w] = workers[w]
        BY <1>1, <4>1 DEF RefreshInv, RefreshTypeOK
      <4>5. QED BY <4>3, <4>4
    <3>2. CASE Finish(v)
      BY <2>0, <3>2 DEF Worker, Finish, Idle
    <3>3. CASE GoTo(v, "observe")
      BY <2>0, <3>3 DEF Worker, GoTo
    <3>4. CASE GoTo(v, "fail")
      BY <2>0, <3>4 DEF Worker, GoTo
    <3>5. QED BY <2>5, <3>1, <3>2, <3>3, <3>4 DEF Send, MarkAuthFailed, Leave
  <2>6. CASE OperatorStep \/ UNCHANGED vars \/ \E pair \in Pairs : LateRotation(pair)
    BY <1>1, <2>6 DEF OperatorStep, Import, DeleteAccount, SetStatus, LateRotation, vars
  <2>7. CASE Restart
    BY <1>1, <2>7 DEF Restart, Idle
  <2> HIDE DEF Another
  <2>8. QED BY <1>1, <2>1, <2>2, <2>3, <2>4, <2>5, <2>6, <2>7 DEF Next, OwnStep, AwaitStep
<1>2. RefreshInv /\ [Next]_vars => [\A w \in Workers : Another(w)]_vars
  BY <1>1
<1>3. QED BY <1>2, RefreshInvariant, PTL DEF Spec, RetryUsesAnotherPair
=============================================================================
