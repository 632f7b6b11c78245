------------------------------ MODULE ScanQueue ------------------------------
(***************************************************************************)
(* The path of a scan through the backend process: create_scan (the daily  *)
(* limit, the insert and the submission, three separate steps of a request *)
(* thread or of the scheduler thread), the in-memory ScanQueue with its    *)
(* thread pools, and execute_scan at the granularity of its commits.       *)
(*                                                                         *)
(* Time appears only as the 24 hour window of check_rate_limit: `recent'   *)
(* holds the rows inside the window, AgeOut lets one leave it.             *)
(***************************************************************************)
EXTENDS Naturals, FiniteSets, Sequences, Functions

CONSTANTS
    Cruise,         \* cruises present at the start; a deleted one stays away
    Caller,         \* threads that can be inside create_scan at once
    MaxPerDay,      \* settings.max_scans_per_cruise_per_day
    MaxWorkers,     \* settings.max_concurrent_scans
    ReuseIds,       \* the database reuses the highest freed row id (SQLite)
    DbFailures,     \* a query or commit may fail although the row is there
    NoCruise,       \* "no cruise": a value outside Cruise
    MaxScans,       \* bound: largest row id
    MaxPools,       \* bound: thread pools created in one process
    MaxCrashes,     \* bound: number of process deaths
    MaxStray        \* bound: submissions that raise in one process

ASSUME QueueAssumption ==
    /\ IsFiniteSet(Caller)
    /\ NoCruise \notin Cruise
    /\ MaxPerDay \in Nat \ {0}
    /\ MaxWorkers \in Nat \ {0}     \* ScanQueue.__init__ clamps it to 1
    /\ MaxScans \in Nat
    /\ MaxPools \in Nat \ {0}
    /\ MaxCrashes \in Nat
    /\ ReuseIds \in BOOLEAN
    /\ DbFailures \in BOOLEAN
    /\ MaxStray \in Nat
       \* otherwise the list _queued could hold a reused id twice
    /\ ReuseIds => MaxStray = 0

NoScan == 0
ScanId == 1 .. MaxScans
Pool == 1 .. MaxPools
NoPool == 0

\* A worker is one of the MaxWorkers threads of a ThreadPoolExecutor.
Worker == Pool \X (1 .. MaxWorkers)
PoolOf(w) == w[1]

VARIABLES
    \* the database
    status,         \* status[s]: column scans.status, "none" without a row
    owner,          \* owner[s]: column scans.cruise_id
    recent,         \* rows with started_at in the last 24 hours
    cruises,        \* rows of table cruises
    nextId,         \* the id sequence, when ids are not reused
    \* the process
    process,        \* the lifespan: "serving", "stopping" or "down"
    executor,       \* ScanQueue._executor
    pools,          \* number of pools this process has created
    queued,         \* ScanQueue._queued, as a set
    running,        \* the keys of ScanQueue._running
    work,           \* work[p]: the work queue of pool p
    callerAt,       \* where in create_scan a caller is
    callerCruise,   \* its argument `cruise'
    callerScan,     \* its local `scan'
    workerAt,       \* where in job/execute_scan a worker is
    workerScan,     \* the scan_id its job was built for
    workerCruise,   \* the cruise execute_scan loaded
    \* for the properties and the bounds
    crashes,        \* how often the process died
    stray,          \* scans that submit put into _queued and did not register
    lost            \* rows whose job or whose caller died or failed before its
                    \* work on them was done

dbVars     == <<status, owner, recent, cruises, nextId>>
queueVars  == <<executor, pools, queued, running, work>>
callerVars == <<callerAt, callerCruise, callerScan>>
workerVars == <<workerAt, workerScan, workerCruise>>
vars == <<dbVars, process, queueVars, callerVars, workerVars, crashes, stray,
          lost>>

ScanState == {"none", "QUEUED", "RUNNING", "DONE", "FAILED"}
Unfinished == {"QUEUED", "RUNNING"}

HasRow(s) == status[s] # "none"
RowsOf(c) == {s \in ScanId : owner[s] = c}
RecentOf(c) == {s \in recent : owner[s] = c}

\* Jobs handed to a pool that no worker has taken yet.
Pending == UNION {Range(work[p]) : p \in Pool}

BusyWorkers == {w \in Worker : workerAt[w] # "idle"}
Held == {workerScan[w] : w \in BusyWorkers}

\* The scans that have a job.
Jobs == Pending \cup Held

NoWork == [p \in Pool |-> <<>>]
AllIdle == [w \in Worker |-> "idle"]

Init ==
    /\ status = [s \in ScanId |-> "none"]
    /\ owner = [s \in ScanId |-> NoCruise]
    /\ recent = {}
    /\ cruises = Cruise
    /\ nextId = 1
    /\ process = "serving"
    /\ executor = NoPool
    /\ pools = 0
    /\ queued = {}
    /\ running = {}
    /\ work = NoWork
    /\ callerAt = [k \in Caller |-> "idle"]
    /\ callerCruise = [k \in Caller |-> NoCruise]
    /\ callerScan = [k \in Caller |-> NoScan]
    /\ workerAt = AllIdle
    /\ workerScan = [w \in Worker |-> NoScan]
    /\ workerCruise = [w \in Worker |-> NoCruise]
    /\ crashes = 0
    /\ stray = {}
    /\ lost = {}

------------------------------------------------------------------------------
(* create_scan, run by request threads and by the scheduler thread. *)

\* Faulty variant: the limit itself is still let through.
CheckRateLimitOffByOne(k, c) ==
    /\ process # "down"
    /\ callerAt[k] = "idle"
    /\ c \in cruises
    /\ Cardinality(RecentOf(c)) <= MaxPerDay
    /\ callerAt' = [callerAt EXCEPT ![k] = "insert"]
    /\ callerCruise' = [callerCruise EXCEPT ![k] = c]
    /\ UNCHANGED <<dbVars, process, queueVars, callerScan, workerVars, crashes,
                   stray, lost>>

\* db.get(Cruise) found the cruise and check_rate_limit counted fewer rows
\* than the limit.  Otherwise (404, RateLimitExceeded) nothing changes.  A
\* scheduler tick under way is not waited for when the lifespan ends.
CheckRateLimit(k, c) ==
    /\ process # "down"
    /\ callerAt[k] = "idle"
    /\ c \in cruises
    /\ Cardinality(RecentOf(c)) < MaxPerDay
    /\ callerAt' = [callerAt EXCEPT ![k] = "insert"]
    /\ callerCruise' = [callerCruise EXCEPT ![k] = c]
    /\ UNCHANGED <<dbVars, process, queueVars, callerScan, workerVars, crashes,
                   stray, lost>>

\* PostgreSQL draws ids from a sequence; SQLite takes the largest id in use
\* plus one, because the tables are declared without AUTOINCREMENT.
NewId ==
    IF ReuseIds
    THEN CHOOSE s \in 1 .. MaxScans + 1 :
            /\ \A t \in ScanId : HasRow(t) => t < s
            /\ s = 1 \/ (s - 1 \in ScanId /\ HasRow(s - 1))
    ELSE nextId

\* db.add(scan); db.commit(): the new row is QUEUED and starts counting.
InsertScan(k) ==
    /\ callerAt[k] = "insert"
    /\ callerCruise[k] \in cruises
    /\ NewId \in ScanId
    /\ status' = [status EXCEPT ![NewId] = "QUEUED"]
    /\ owner' = [owner EXCEPT ![NewId] = callerCruise[k]]
    /\ recent' = recent \cup {NewId}
    /\ nextId' = NewId + 1
    /\ callerAt' = [callerAt EXCEPT ![k] = "submit"]
    /\ callerScan' = [callerScan EXCEPT ![k] = NewId]
    /\ UNCHANGED <<cruises, process, queueVars, callerCruise, workerVars,
                   crashes, stray, lost>>

CallerReturns(k) ==
    /\ callerAt' = [callerAt EXCEPT ![k] = "idle"]
    /\ callerCruise' = [callerCruise EXCEPT ![k] = NoCruise]
    /\ callerScan' = [callerScan EXCEPT ![k] = NoScan]

\* The commit fails: the cruise is gone (foreign key) or the database is.
InsertFails(k) ==
    /\ callerAt[k] = "insert"
    /\ callerCruise[k] \notin cruises \/ DbFailures
    /\ CallerReturns(k)
    /\ UNCHANGED <<dbVars, process, queueVars, workerVars, crashes, stray, lost>>

\* Faulty variant: the new pool is not kept in _executor.
EnqueueForgetsPool(s) ==
    LET p == IF executor = NoPool THEN pools + 1 ELSE executor
    IN  /\ queued' = queued \cup {s}
        /\ running' = running \cup {s}
        /\ work' = [work EXCEPT ![p] = Append(@, s)]
        /\ pools' = IF executor = NoPool THEN p ELSE pools
        /\ UNCHANGED executor

\* The part of submit under the lock, for a scan that is not in _running:
\* a pool is built when there is none, the job goes to its work queue.
Enqueue(s) ==
    LET p == IF executor = NoPool THEN pools + 1 ELSE executor
    IN  /\ queued' = queued \cup {s}
        /\ running' = running \cup {s}
        /\ work' = [work EXCEPT ![p] = Append(@, s)]
        /\ executor' = p
        /\ pools' = IF executor = NoPool THEN p ELSE pools

\* Faulty variant: a scan that still has a job is enqueued again.
SubmitUnchecked(k) ==
    /\ callerAt[k] = "submit"
    /\ HasRow(callerScan[k])
    /\ Enqueue(callerScan[k])
    /\ CallerReturns(k)
    /\ UNCHANGED <<dbVars, process, workerVars, crashes, stray, lost>>

\* db.refresh(scan) finds the row, then queue.submit(scan.id).  A scan that
\* is still registered is left alone ("laeuft bereits").
Submit(k) ==
    /\ callerAt[k] = "submit"
    /\ HasRow(callerScan[k])
    /\ IF callerScan[k] \in running
       THEN UNCHANGED queueVars
       ELSE Enqueue(callerScan[k])
    /\ CallerReturns(k)
    /\ UNCHANGED <<dbVars, process, workerVars, crashes, stray, lost>>

\* executor.submit raises, after the scan has been put into _queued and before it
\* is registered.  A process that ends takes no more jobs; a thread that cannot
\* be started leaves the job in the work queue, for a thread that is there
\* already or that a later submission starts.
SubmitRaises(k) ==
    LET s == callerScan[k]
        p == IF executor = NoPool THEN pools + 1 ELSE executor
    IN  /\ Cardinality(stray) < MaxStray     \* bound
        /\ callerAt[k] = "submit"
        /\ HasRow(s)
        /\ s \notin running
        /\ queued' = queued \cup {s}
        /\ executor' = p
        /\ pools' = IF executor = NoPool THEN p ELSE pools
        /\ work' \in {work, [work EXCEPT ![p] = Append(@, s)]}
        /\ stray' = stray \cup {s}
        /\ lost' = lost \cup {s}
        /\ CallerReturns(k)
        /\ UNCHANGED <<dbVars, process, running, workerVars, crashes>>

\* db.refresh(scan) raises: the row was deleted right after the commit, or the
\* database fails.  A row that is there has been committed and is not submitted.
RefreshFails(k) ==
    /\ callerAt[k] = "submit"
    /\ ~HasRow(callerScan[k]) \/ DbFailures
    /\ lost' = IF HasRow(callerScan[k]) THEN lost \cup {callerScan[k]} ELSE lost
    /\ CallerReturns(k)
    /\ UNCHANGED <<dbVars, process, queueVars, workerVars, crashes, stray>>

------------------------------------------------------------------------------
(* Workers: ScanQueue.submit.job and execute_scan. *)

GoTo(w, place) == workerAt' = [workerAt EXCEPT ![w] = place]

\* The pool thread takes the next job from its queue.
TakeJob(w) ==
    /\ workerAt[w] = "idle"
    /\ work[PoolOf(w)] # <<>>
    /\ work' = [work EXCEPT ![PoolOf(w)] = Tail(@)]
    /\ workerScan' = [workerScan EXCEPT ![w] = Head(work[PoolOf(w)])]
    /\ GoTo(w, "begin")
    /\ UNCHANGED <<dbVars, process, executor, pools, queued, running, callerVars,
                   workerCruise, crashes, stray, lost>>

\* Faulty variant: the job stays in _queued.
BeginJobStaysQueued(w) ==
    /\ workerAt[w] = "begin"
    /\ GoTo(w, "load")
    /\ UNCHANGED <<dbVars, process, queueVars, callerVars, workerScan,
                   workerCruise, crashes, stray, lost>>

\* job(): the first lock region takes the scan off _queued.
BeginJob(w) ==
    /\ workerAt[w] = "begin"
    /\ queued' = queued \ {workerScan[w]}
    /\ GoTo(w, "load")
    /\ UNCHANGED <<dbVars, process, executor, pools, running, work, callerVars,
                   workerScan, workerCruise, crashes, stray, lost>>

\* execute_scan loads the scan and its cruise, or returns when the row is gone.
LoadScan(w) ==
    /\ workerAt[w] = "load"
    /\ IF HasRow(workerScan[w])
       THEN /\ GoTo(w, "start")
            /\ workerCruise' = [workerCruise EXCEPT ![w] = owner[workerScan[w]]]
       ELSE /\ GoTo(w, "end")
            /\ UNCHANGED workerCruise
    /\ UNCHANGED <<dbVars, process, queueVars, callerVars, workerScan, crashes,
                   stray, lost>>

\* A commit of execute_scan that writes the status of its row.
WriteStatus(w, new) ==
    /\ HasRow(workerScan[w])
    /\ status' = [status EXCEPT ![workerScan[w]] = new]
    /\ UNCHANGED <<owner, recent, cruises, nextId, process, queueVars, callerVars,
                   workerScan, workerCruise, crashes, stray, lost>>

StartScan(w) ==
    /\ workerAt[w] = "start"
    /\ WriteStatus(w, "RUNNING")
    /\ GoTo(w, "exec")

\* build_matrix returned no test: the scan fails before it runs.
RefuseScan(w) ==
    /\ workerAt[w] = "start"
    /\ WriteStatus(w, "FAILED")
    /\ GoTo(w, "end")

\* Faulty variant: DONE is committed while work that may raise is still to come.
CompleteScanEarly(w) ==
    /\ workerAt[w] = "exec"
    /\ WriteStatus(w, "DONE")
    /\ UNCHANGED workerAt

\* The last commit of a scan: status, history and schedule in one transaction.
CompleteScan(w) ==
    /\ workerAt[w] = "exec"
    /\ WriteStatus(w, "DONE")
    /\ GoTo(w, "end")

\* Faulty variant: the exception is logged but not recorded in the row.
FailScanSilently(w) ==
    /\ workerAt[w] = "exec"
    /\ GoTo(w, "end")
    /\ UNCHANGED <<dbVars, process, queueVars, callerVars, workerScan,
                   workerCruise, crashes, stray, lost>>

\* An exception that left the session usable: the handler records FAILED.
FailScan(w) ==
    /\ workerAt[w] = "exec"
    /\ WriteStatus(w, "FAILED")
    /\ GoTo(w, "end")

\* A flush or commit failed, because the row or the cruise is gone or because
\* of the database.  The handler does not roll back, so its own db.get raises
\* too, and the outer `except' swallows that: no status is written.
LoseScan(w) ==
    /\ workerAt[w] \in {"load", "start", "exec"}
    /\ \/ DbFailures
       \/ workerAt[w] # "load" /\ ~HasRow(workerScan[w])
       \/ workerAt[w] = "exec" /\ workerCruise[w] \notin cruises
    /\ lost' = IF HasRow(workerScan[w]) THEN lost \cup {workerScan[w]} ELSE lost
    /\ GoTo(w, "end")
    /\ UNCHANGED <<dbVars, process, queueVars, callerVars, workerScan,
                   workerCruise, crashes, stray>>

\* Faulty variant: the entry in _running is never removed.
EndJobStaysRegistered(w) ==
    /\ workerAt[w] = "end"
    /\ GoTo(w, "idle")
    /\ workerScan' = [workerScan EXCEPT ![w] = NoScan]
    /\ workerCruise' = [workerCruise EXCEPT ![w] = NoCruise]
    /\ UNCHANGED <<dbVars, process, queueVars, callerVars, crashes, stray, lost>>

\* job(): the lock region of `finally' unregisters the scan.
EndJob(w) ==
    /\ workerAt[w] = "end"
    /\ running' = running \ {workerScan[w]}
    /\ GoTo(w, "idle")
    /\ workerScan' = [workerScan EXCEPT ![w] = NoScan]
    /\ workerCruise' = [workerCruise EXCEPT ![w] = NoCruise]
    /\ UNCHANGED <<dbVars, process, executor, pools, queued, work, callerVars,
                   crashes, stray, lost>>

------------------------------------------------------------------------------
(* Cruise deletion, time, and the life of the process. *)

\* DELETE /cruises/{id}: the scans go with the cruise, in one transaction.
DeleteCruise(c) ==
    /\ process = "serving"
    /\ c \in cruises
    /\ cruises' = cruises \ {c}
    /\ status' = [s \in ScanId |-> IF owner[s] = c THEN "none" ELSE status[s]]
    /\ owner' = [s \in ScanId |-> IF owner[s] = c THEN NoCruise ELSE owner[s]]
    /\ recent' = recent \ RowsOf(c)
    /\ lost' = lost \ RowsOf(c)
    /\ UNCHANGED <<nextId, process, queueVars, callerVars, workerVars, crashes,
                   stray>>

\* 24 hours have passed since the scan was created.
AgeOut(s) ==
    /\ s \in recent
    /\ recent' = recent \ {s}
    /\ UNCHANGED <<status, owner, cruises, nextId, process, queueVars, callerVars,
                   workerVars, crashes, stray, lost>>

\* Faulty variant: the jobs that still wait are cancelled.
ShutdownCancels ==
    /\ process = "serving"
    /\ pools < MaxPools
    /\ process' = "stopping"
    /\ executor' = NoPool
    /\ work' = NoWork
    /\ UNCHANGED <<dbVars, pools, queued, running, callerVars, workerVars,
                   crashes, stray, lost>>

\* End of the lifespan: queue.shutdown() forgets the pool, whose threads go on
\* with what they run and with what still waits in its work queue.
Shutdown ==
    /\ process = "serving"
    /\ pools < MaxPools                     \* bound: room for one more pool
    /\ process' = "stopping"
    /\ executor' = NoPool
    /\ UNCHANGED <<dbVars, pools, queued, running, work, callerVars, workerVars,
                   crashes, stray, lost>>

\* The application starts (again), in the same process or in a new one.
\* Nothing looks at the rows an earlier process left QUEUED or RUNNING.
Startup ==
    /\ process # "serving"
    /\ process' = "serving"
    /\ UNCHANGED <<dbVars, queueVars, callerVars, workerVars, crashes, stray,
                   lost>>

\* The process ends, with whatever it was doing.
Crash ==
    /\ crashes < MaxCrashes                 \* bound
    /\ crashes' = crashes + 1
    /\ process' = "down"
    /\ executor' = NoPool
    /\ pools' = 0
    /\ queued' = {}
    /\ running' = {}
    /\ work' = NoWork
    /\ callerAt' = [k \in Caller |-> "idle"]
    /\ callerCruise' = [k \in Caller |-> NoCruise]
    /\ callerScan' = [k \in Caller |-> NoScan]
    /\ workerAt' = AllIdle
    /\ workerScan' = [w \in Worker |-> NoScan]
    /\ workerCruise' = [w \in Worker |-> NoCruise]
    /\ stray' = {}
    /\ lost' = lost \cup {s \in ScanId : status[s] \in Unfinished}
    /\ UNCHANGED dbVars

CallerStep(k) ==
    \/ \E c \in Cruise : CheckRateLimit(k, c)
    \/ InsertScan(k)
    \/ InsertFails(k)
    \/ Submit(k)
    \/ SubmitRaises(k)
    \/ RefreshFails(k)

WorkerStep(w) ==
    \/ TakeJob(w)
    \/ BeginJob(w)
    \/ LoadScan(w)
    \/ StartScan(w)
    \/ RefuseScan(w)
    \/ CompleteScan(w)
    \/ FailScan(w)
    \/ LoseScan(w)
    \/ EndJob(w)

Next ==
    \/ \E k \in Caller : CallerStep(k)
    \/ \E w \in Worker : WorkerStep(w)
    \/ \E c \in Cruise : DeleteCruise(c)
    \/ \E s \in ScanId : AgeOut(s)
    \/ Shutdown
    \/ Startup
    \/ Crash

Spec == Init /\ [][Next]_vars

\* The operating system runs every thread, and every step of a job ends: the
\* browser's waits, the retries and the database calls all have timeouts.
Fairness ==
    /\ \A k \in Caller : WF_vars(CallerStep(k))
    /\ \A w \in Worker : WF_vars(WorkerStep(w))

FairSpec == Spec /\ Fairness

------------------------------------------------------------------------------
(* Properties *)

\* Every variable has its type; the current pool is the newest one, there is a
\* pool number left whenever submit may have to build a pool, and a caller that
\* submits and a worker that works have a scan to do it for.
TypeOK ==
    /\ status \in [ScanId -> ScanState]
    /\ owner \in [ScanId -> Cruise \cup {NoCruise}]
    /\ recent \subseteq ScanId
    /\ cruises \subseteq Cruise
    /\ nextId \in 1 .. MaxScans + 1
    /\ process \in {"serving", "stopping", "down"}
    /\ pools \in 0 .. MaxPools
    /\ executor \in {NoPool, pools}
    /\ executor = NoPool => pools < MaxPools
    /\ queued \subseteq ScanId
    /\ running \subseteq ScanId
    /\ work \in [Pool -> Seq(ScanId)]
    /\ callerAt \in [Caller -> {"idle", "insert", "submit"}]
    /\ callerCruise \in [Caller -> Cruise \cup {NoCruise}]
    /\ callerScan \in [Caller -> ScanId \cup {NoScan}]
    /\ \A k \in Caller : callerAt[k] = "insert" => callerCruise[k] # NoCruise
    /\ \A k \in Caller : callerAt[k] = "submit" => callerScan[k] # NoScan
    /\ workerAt \in [Worker -> {"idle", "begin", "load", "start", "exec", "end"}]
    /\ \A w \in BusyWorkers : workerScan[w] # NoScan
    /\ workerScan \in [Worker -> ScanId \cup {NoScan}]
    /\ workerCruise \in [Worker -> Cruise \cup {NoCruise}]
    /\ crashes \in 0 .. MaxCrashes
    /\ stray \subseteq ScanId
    /\ lost \subseteq ScanId

\* _running holds exactly the scans whose job waits in some pool or is in the
\* hands of a worker: no entry leaks and none is dropped early, whatever the
\* interleaving of submit, job and shutdown (queue.py:70-96).  Only scans whose
\* submission raised are missing.
RegisteredExactly == running = Jobs \ stray

\* A scan has at most one job: no two workers run it, none runs it while it
\* waits again, and it waits at most once, also across the pools of an
\* in-process restart (the check on _running, queue.py:84-86).
EachScanOnce ==
    /\ \A v, w \in BusyWorkers : workerScan[v] = workerScan[w] => v = w
    /\ Pending \cap Held = {}
    /\ \A p, q \in Pool : \A i \in DOMAIN work[p], j \in DOMAIN work[q] :
          work[p][i] = work[q][j] => p = q /\ i = j

\* The scans a worker has taken and not begun, and those it has begun.
Taken == {workerScan[w] : w \in {v \in Worker : workerAt[v] = "begin"}}
Begun == {workerScan[w] : w \in {v \in BusyWorkers : workerAt[v] # "begin"}}

\* _queued holds exactly the scans whose job has not begun (queue.py:74-76, 87),
\* and those whose submission raised and left no job.
QueuedExactly ==
    /\ Pending \cup Taken \subseteq queued
    /\ queued \subseteq Pending \cup Taken \cup stray
    /\ queued \cap Begun = {}

\* What the queue tells about itself (status, is_active) is exact.
RegistryExact == RegisteredExactly /\ QueuedExactly

\* The three together survive every step; none of them does on its own.
JobInv == RegisteredExactly /\ EachScanOnce /\ QueuedExactly

\* Which thread will still change the status of row s.
Creating(s) == \E k \in Caller : callerAt[k] = "submit" /\ callerScan[k] = s
Executing(s, places) == \E w \in Worker : workerAt[w] \in places /\ workerScan[w] = s

\* Every unfinished row is in somebody's hands: a QUEUED row belongs to the
\* create_scan call that is about to submit it, to the queue or to a worker that
\* has not started it, and a RUNNING row to the worker executing it.  The only
\* exceptions are rows whose process died, whose session broke, or whose refresh
\* or submission raised (services.py:112, queue.py:88).
AccountedFor ==
    \A s \in ScanId \ lost :
        /\ status[s] = "QUEUED" =>
              Creating(s) \/ s \in queued \/ Executing(s, {"load", "start"})
        /\ status[s] = "RUNNING" => Executing(s, {"exec"})

\* check_rate_limit and the insert are not atomic, so the daily limit can be
\* exceeded, but never by more than the callers that were past the check at
\* the same time: MaxPerDay plus all callers but one (services.py:92-111).
OvershootBounded ==
    \A c \in Cruise : Cardinality(RecentOf(c)) <= MaxPerDay + Cardinality(Caller) - 1

\* The limit as the README states it (README.md:344): at most MaxPerDay checks
\* of a cruise within 24 hours.
DailyLimitHolds == \A c \in Cruise : Cardinality(RecentOf(c)) <= MaxPerDay

\* execute_scan runs a queued scan to completion (runner.py:333): when its job
\* is over, a scan that still exists is DONE or FAILED.
JobLeavesVerdict ==
    \A w \in Worker : workerAt[w] = "end" /\ HasRow(workerScan[w]) =>
        status[workerScan[w]] \in {"DONE", "FAILED"}

\* A job only ever writes the status of the scan it was started for: at the
\* commit, the row still belongs to the cruise that execute_scan loaded.
WritesOwnScan ==
    [][\A w \in Worker :
          workerAt[w] \in {"start", "exec"} /\ status'[workerScan[w]] # status[workerScan[w]]
              => workerCruise[w] = owner[workerScan[w]] \/ status'[workerScan[w]] \in {"none", "QUEUED"}]_vars

\* The strengthening that survives every step: the callers of a cruise that are
\* past the check count as well.
Cleared(c) == {k \in Caller : callerAt[k] = "insert" /\ callerCruise[k] = c}
LimitInv ==
    \A c \in Cruise :
        Cardinality(RecentOf(c)) + Cardinality(Cleared(c))
            <= MaxPerDay + Cardinality(Caller) - 1

\* A scan is submitted once: when submit may raise, ids are not reused, and no
\* caller holds the scan of another one or one whose submission raised.
FreshInv ==
    /\ MaxStray = 0 => stray = {}
    /\ ~ReuseIds =>
          /\ \A s \in stray : s < nextId
          /\ \A k \in Caller : callerAt[k] = "submit" =>
                callerScan[k] < nextId /\ callerScan[k] \notin stray
          /\ \A j, k \in Caller :
                callerAt[j] = "submit" /\ callerAt[k] = "submit"
                    /\ callerScan[j] = callerScan[k] => j = k

\* When ids are not reused, the place of a scan's thread determines its status.
RowInv ==
    /\ \A s \in ScanId : s >= nextId => ~HasRow(s) /\ s \notin Jobs \cup queued
    /\ \A k \in Caller : callerAt[k] = "submit" =>
          /\ callerScan[k] \notin Jobs \cup queued
          /\ status[callerScan[k]] \in {"none", "QUEUED"}
    /\ \A s \in queued : status[s] \in {"none", "QUEUED"}
    /\ \A w \in Worker :
          /\ workerAt[w] \in {"load", "start"} => status[workerScan[w]] \in {"none", "QUEUED"}
          /\ workerAt[w] = "exec" => status[workerScan[w]] \in {"none", "RUNNING"}

\* The pipeline implements the life cycle its users rely on.
Lifecycle == INSTANCE ScanLifecycle WITH Scan <- ScanId, active <- Jobs
LifecycleSpec == Lifecycle!Spec

\* A job always ends and gives its entry in _running back, also when the row
\* vanished, the database failed or the queue was shut down meanwhile.
RegistrationEnds == \A s \in ScanId : s \in running ~> s \notin running

\* An accepted scan reaches DONE or FAILED or is deleted, unless its process or
\* its session died or its submission failed; a shutdown of the queue does not
\* drop it.
EventuallySettled ==
    \A s \in ScanId : status[s] = "QUEUED" ~>
        status[s] \in {"DONE", "FAILED", "none"} \/ s \in lost
==============================================================================
