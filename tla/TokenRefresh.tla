---------------------------- MODULE TokenRefresh ----------------------------
(***************************************************************************)
(* The credentials of one account: the pair of tokens in its row, the      *)
(* upstream that rotates them, the refreshes of upstream.rs with their     *)
(* lock, and the requests and usage fetches of proxy.rs and upstream.rs    *)
(* that find their access token expired.                                   *)
(*                                                                         *)
(* Accounts have a lock each and share nothing else here, so one account   *)
(* stands for all.  A pair is its number of issue; its access token may be *)
(* refused at any time, its refresh token is good for one use.  The row    *)
(* holds ciphertexts: every write encrypts with new nonces, also the pair  *)
(* that was there before, so a ciphertext is the number of its write.  A   *)
(* worker is the future of a request or of a usage refresh: every await is *)
(* a step, and it may be dropped at any of them.                           *)
(***************************************************************************)
EXTENDS Integers, FiniteSets

CONSTANTS
    Workers,
    Requests,       \* the workers that are requests; the others fetch usage
    Locks, NoLock,  \* the identities of mutexes
    None,           \* no row, no ciphertext, no pair
    MaxPair,        \* pairs the upstream issues after pair 0
    MaxImports      \* imports after the first

ASSUME RefreshAssumption ==
    /\ Requests \subseteq Workers
    /\ Locks # {} /\ NoLock \notin Locks
    /\ None \notin Nat
    /\ MaxPair \in Nat /\ MaxImports \in Nat

VARIABLES
    last,       \* the number of writes to the account's row
    written,    \* the pair that each of them wrote
    origin,     \* where that pair came from
    stored,     \* the ciphertext in the row; None once the account is deleted
    status,     \* accounts.status; "inactive" is paused or auth_failed
    table,      \* the account's entry in REFRESH_LOCKS, live or dead
    workers,
    issued,     \* upstream: the last pair issued
    live,       \* upstream: refresh tokens that have not been used
    abandoned   \* refresh tokens of refreshes that were dropped or got no answer: nobody
                \* waits for what the upstream may still make of them

row == <<last, written, origin, stored, status>>
upstream == <<issued, live>>
vars == <<row, table, workers, upstream, abandoned>>

-----------------------------------------------------------------------------
Pairs == 0..MaxPair
Statuses == {"active", "inactive"}
Origins == {"refresh", "file", "used file"}

\* Decryption: the pair a ciphertext is of.
Pair(cipher) == written[cipher]

\* The phases in which a worker has the mutex, and those in which it keeps it alive.
Guarded == {"check", "posted", "store"}
Referring == Guarded \cup {"wait"}
Refreshing == Referring \cup {"observe", "fetch"}
Phases == Refreshing \cup {"idle", "send", "fail"}

Worker == [phase : Phases, using : Nat \cup {None},
           observed : Nat \cup {None}, answer : Pairs \cup {None},
           lock : Locks \cup {NoLock}, proactive : BOOLEAN, retried : BOOLEAN]
Idle == [phase |-> "idle", using |-> None, observed |-> None,
         answer |-> None, lock |-> NoLock, proactive |-> FALSE, retried |-> FALSE]

RefreshTypeOK ==
    /\ last \in Nat \ {0}
    /\ written \in [1..last -> Pairs] /\ origin \in [1..last -> Origins]
    /\ stored \in {last, None}
    /\ status \in Statuses
    /\ table \in Locks \cup {NoLock}
    /\ workers \in [Workers -> Worker]
    /\ \A w \in Workers : workers[w].lock \in Locks <=> workers[w].phase \in Referring
    /\ issued \in Pairs
    /\ live \in SUBSET Pairs
    /\ abandoned \in SUBSET Pairs

Init ==
    /\ last = 1 /\ written = [c \in 1..1 |-> 0] /\ origin = [c \in 1..1 |-> "file"]
    /\ stored = 1 /\ status = "active"
    /\ table = NoLock
    /\ workers = [w \in Workers |-> Idle]
    /\ issued = 0 /\ live = {0}
    /\ abandoned = {}

InPhase(w, phase) == workers[w].phase = phase
GoTo(w, phase) == workers' = [workers EXCEPT ![w].phase = phase]
Finish(w) == workers' = [workers EXCEPT ![w] = Idle]

-----------------------------------------------------------------------------
(***************************************************************************)
(* The callers: proxy_request and proxy_models for "request",              *)
(* refresh_account_usage for "usage".                                      *)
(***************************************************************************)
\* Selection takes active accounts only; usage is also fetched on an operator's word.
\* A request refreshes first when the pair expires soon or is old.
Begin(w) ==
    /\ InPhase(w, "idle") /\ stored # None
    /\ w \in Requests => status = "active"
    /\ \E proactive \in BOOLEAN :
         /\ proactive => w \in Requests
         /\ workers' = [workers EXCEPT
             ![w] = [Idle EXCEPT !.using = stored, !.proactive = proactive,
                                 !.phase = IF proactive THEN "observe" ELSE "send"]]
    /\ UNCHANGED <<row, table, upstream, abandoned>>

\* Any answer but 401 or 403 ends the part of a worker that is about tokens.
Send(w) ==
    /\ InPhase(w, "send")
    /\ \/ Finish(w)
       \/ ~workers[w].retried /\ GoTo(w, "observe")
       \/ workers[w].retried /\ w \in Requests /\ GoTo(w, "fail")
    /\ UNCHANGED <<row, table, upstream, abandoned>>

MarkAuthFailed(w) ==
    /\ InPhase(w, "fail")
    /\ Finish(w)
    /\ status' = IF stored = None THEN status ELSE "inactive"
    /\ UNCHANGED <<last, written, origin, stored, table, upstream, abandoned>>

\* Mutant: the caller goes on with the tokens it began with.
ReturnedAsBegun(r, cipher) ==
    [r EXCEPT !.phase = "send", !.observed = None, !.answer = None, !.lock = NoLock,
              !.proactive = FALSE, !.retried = ~r.proactive]

\* refresh_account_tokens returns a row: its guard is dropped, the caller takes its
\* tokens and sends, or sends again.
Returned(r, cipher) ==
    [r EXCEPT !.phase = "send", !.using = cipher, !.observed = None, !.answer = None,
              !.lock = NoLock, !.proactive = FALSE, !.retried = ~r.proactive]

\* Mutant: a refresh ahead of time is tried again until it works.
ProactiveTriedAgain(w, r) ==
    [Idle EXCEPT !.phase = IF r.proactive THEN "observe" ELSE IF w \in Requests THEN "fail" ELSE "idle",
                 !.using = r.using, !.proactive = r.proactive]

\* It returns an error: a proactive refresh is only tried.
Failed(w, r) ==
    IF r.proactive
    THEN [Idle EXCEPT !.phase = "send", !.using = r.using]
    ELSE IF w \in Requests
    THEN [Idle EXCEPT !.phase = "fail"]
    ELSE Idle

RefreshReturns(w, cipher) == workers' = [workers EXCEPT ![w] = Returned(@, cipher)]
RefreshFails(w) == workers' = [workers EXCEPT ![w] = Failed(w, @)]

-----------------------------------------------------------------------------
(***************************************************************************)
(* refresh_account_tokens.                                                 *)
(***************************************************************************)
Observe(w) ==
    /\ InPhase(w, "observe")
    /\ IF stored = None THEN RefreshFails(w)
       ELSE workers' = [workers EXCEPT ![w].phase = "fetch", ![w].observed = stored]
    /\ UNCHANGED <<row, table, upstream, abandoned>>

Referred(l) == \E v \in Workers : workers[v].phase \in Referring /\ workers[v].lock = l
NewLock == CHOOSE l \in Locks : ~Referred(l)

\* Mutant: an entry is replaced also when somebody still waits for it.
AlwaysNewLock == NewLock

\* Mutant: the entry is taken whether or not its mutex still exists.
EntryAsItIs == table

\* account_refresh_lock: a live entry is upgraded; otherwise a new mutex takes its place.
LockFor == IF table # NoLock /\ Referred(table) THEN table ELSE NewLock

FetchLock(w) ==
    /\ InPhase(w, "fetch")
    /\ table' = LockFor
    /\ workers' = [workers EXCEPT ![w].phase = "wait", ![w].lock = LockFor]
    /\ UNCHANGED <<row, upstream, abandoned>>

AcquireLock(w) ==
    /\ InPhase(w, "wait")
    /\ ~\E v \in Workers : workers[v].phase \in Guarded /\ workers[v].lock = workers[w].lock
    /\ GoTo(w, "check")
    /\ UNCHANGED <<row, table, upstream, abandoned>>

\* The ciphertexts are those observed: nobody has written since, not even the same pair.
StillObserved(w) == stored = workers[w].observed

Recheck(w) ==
    /\ InPhase(w, "check")
    /\ IF stored = None THEN RefreshFails(w)
       ELSE IF StillObserved(w) THEN GoTo(w, "posted")
       ELSE RefreshReturns(w, stored)
    /\ UNCHANGED <<row, table, upstream, abandoned>>

\* The upstream's side: a refresh token is exchanged for the next pair and used up.
Rotate(pair) ==
    /\ pair \in live /\ issued < MaxPair
    /\ issued' = issued + 1
    /\ live' = (live \ {pair}) \cup {issued + 1}

Answered(w) ==
    /\ InPhase(w, "posted")
    /\ Rotate(Pair(workers[w].observed))
    /\ workers' = [workers EXCEPT ![w].phase = "store", ![w].answer = issued + 1]
    /\ UNCHANGED <<row, table, abandoned>>

\* The token is refused; or the request does not get there, or the answer does not come
\* back or lacks a token.
Unanswered(w) ==
    /\ InPhase(w, "posted")
    /\ \/ Pair(workers[w].observed) \notin live /\ UNCHANGED abandoned
       \/ abandoned' = abandoned \cup {Pair(workers[w].observed)}
    /\ RefreshFails(w)
    /\ UNCHANGED <<row, table, upstream>>

\* A statement that encrypts a pair and puts it into the row.
Put(pair, from) ==
    /\ last' = last + 1
    /\ written' = [c \in 1..(last + 1) |-> IF c = last + 1 THEN pair ELSE written[c]]
    /\ origin' = [c \in 1..(last + 1) |-> IF c = last + 1 THEN from ELSE origin[c]]
    /\ stored' = last + 1
    /\ status' = "active"

\* Mutant: the row keeps the refresh token the access token was made with.
OldRefreshTokenKept(w) == Pair(workers[w].observed)

NewPair(w) == workers[w].answer

\* update_account_tokens
Store(w) ==
    /\ InPhase(w, "store")
    /\ IF stored = None THEN RefreshFails(w) /\ UNCHANGED row
       ELSE Put(NewPair(w), "refresh") /\ RefreshReturns(w, last + 1)
    /\ UNCHANGED <<table, upstream, abandoned>>

\* The statement fails: the database is locked, or the account id is another row's.
StoreFails(w) ==
    /\ InPhase(w, "store")
    /\ abandoned' = abandoned \cup {Pair(workers[w].observed)}
    /\ RefreshFails(w)
    /\ UNCHANGED <<row, table, upstream>>

-----------------------------------------------------------------------------
\* The refresh tokens some of the workers have posted.
Spent(W) == {Pair(workers[w].observed) : w \in {v \in W : workers[v].phase \in {"posted", "store"}}}

\* The future of a worker is dropped.
Leave(w) ==
    /\ ~InPhase(w, "idle")
    /\ Finish(w)
    /\ abandoned' = abandoned \cup Spent({w})
    /\ UNCHANGED <<row, table, upstream>>

Restart ==
    /\ workers' = [w \in Workers |-> Idle]
    /\ table' = NoLock
    /\ abandoned' = abandoned \cup Spent(Workers)
    /\ UNCHANGED <<row, upstream>>

\* A request nobody waits for reaches the upstream.
LateRotation(pair) ==
    /\ pair \in abandoned
    /\ Rotate(pair)
    /\ UNCHANGED <<row, table, workers, abandoned>>

\* The auth files that have been imported; the operator still has them.
Imports == {c \in 1..last : origin[c] # "refresh"}
Files == {Pair(c) : c \in Imports}

\* upsert_account stores the pair of a file whatever has become of it: that of a new
\* login, or that of a file the operator has imported before, used up in the meantime
\* or not.
Import ==
    /\ stored # None /\ Cardinality(Imports) <= MaxImports
    /\ \/ /\ issued < MaxPair
          /\ issued' = issued + 1
          /\ live' = live \cup {issued + 1}
          /\ Put(issued + 1, "file")
       \/ /\ \E pair \in Files : Put(pair, IF pair \in live THEN "file" ELSE "used file")
          /\ UNCHANGED upstream
    /\ UNCHANGED <<table, workers, abandoned>>

\* update_account: an operator pauses or resumes the account.
SetStatus(new) ==
    /\ stored # None /\ status # new
    /\ status' = new
    /\ UNCHANGED <<last, written, origin, stored, table, workers, upstream, abandoned>>

DeleteAccount ==
    /\ stored # None
    /\ stored' = None
    /\ UNCHANGED <<last, written, origin, status, table, workers, upstream, abandoned>>

\* The steps of a worker that need an answer of the upstream, and those that do not.
AwaitStep(w) == Send(w) \/ Answered(w) \/ Unanswered(w)
OwnStep(w) ==
    \/ MarkAuthFailed(w) \/ Observe(w) \/ FetchLock(w) \/ AcquireLock(w) \/ Recheck(w)
    \/ Store(w) \/ StoreFails(w)
OperatorStep == Import \/ DeleteAccount \/ \E new \in Statuses : SetStatus(new)

Next ==
    \/ \E w \in Workers : OwnStep(w) \/ AwaitStep(w) \/ Begin(w) \/ Leave(w)
    \/ \E pair \in Pairs : LateRotation(pair)
    \/ OperatorStep
    \/ Restart

Spec == Init /\ [][Next]_vars

\* Every future is polled on, statements of the database end, tokio's mutex is fair, and a
\* request that is passed on has the timeout of Config::request_timeout.  The calls to the
\* token endpoint and for the usage have none: an answer to them is not promised.
Fairness ==
    /\ \A w \in Workers : WF_vars(OwnStep(w)) /\ SF_vars(AcquireLock(w))
    /\ \A w \in Requests : WF_vars(Send(w))

FairSpec == Spec /\ Fairness

-----------------------------------------------------------------------------
(***************************************************************************)
(* Properties.                                                             *)
(***************************************************************************)
\* However many requests find their token expired at once, a refresh token that has been
\* used is not presented again, unless the refresh that used it was dropped or got no
\* answer, or an operator imported a file whose token had been used: the lock, the second
\* read and the weak entries of the table work together, also with an import in between.
UsedTokenNotPresented ==
    \A w \in Workers : InPhase(w, "posted") =>
        \/ Pair(workers[w].observed) \in live \cup abandoned
        \/ origin[workers[w].observed] = "used file"

\* The account can still be refreshed with what is stored, or the next pair is in the
\* hands of a worker, unless a refresh was dropped between rotation and UPDATE or what is
\* stored was used up before it was imported: a deletion, a concurrent refresh or the
\* import of a good file, old or new, at any moment of a refresh does not burn it.
StoredNotBurned ==
    stored # None =>
        \/ Pair(stored) \in live \cup abandoned
        \/ origin[stored] = "used file"
        \/ \E w \in Workers : InPhase(w, "store") /\ Pair(workers[w].observed) = Pair(stored)

\* After a 401 or 403 and a refresh, whoever did it, the request is sent again with tokens
\* written after those that were refused, and with the very pair that was refused only if
\* an operator has imported its file again.
RetryUsesAnotherPair ==
    [][\A w \in Workers :
        workers'[w].retried /\ ~workers[w].retried =>
            /\ workers[w].using < workers'[w].using
            /\ origin'[workers'[w].using] = "refresh" =>
                 written'[workers'[w].using] # written[workers[w].using]]_vars

\* A call without a timeout is open.
Awaiting(w) == InPhase(w, "posted") \/ (w \notin Requests /\ InPhase(w, "send"))
UpstreamAnswers == \A w \in Workers : []<>~Awaiting(w)

\* As long as no call to the token endpoint or for the usage stays open for ever, no worker
\* waits for ever: neither for the lock of one that was dropped nor in a circle of refreshes.
\* One call that does stay open keeps the lock, and all who wait for it.
WorkersFinish ==
    UpstreamAnswers => \A w \in Workers : ~InPhase(w, "idle") ~> InPhase(w, "idle")
=============================================================================
