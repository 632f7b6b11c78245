--------------------------- MODULE ScanQueue_proofs ---------------------------
(***************************************************************************)
(* Theorems about ScanQueue, for every number of cruises, callers, scans,  *)
(* workers and pools and every daily limit.                                *)
(***************************************************************************)
EXTENDS ScanQueue, FiniteSetTheorems, SequenceTheorems, TLAPS

------------------------------------------------------------------------------
(* Facts about the constants and the work queues. *)

LEMMA ConstantTypes ==
    /\ MaxWorkers \in Nat /\ MaxScans \in Nat /\ MaxPools \in Nat /\ MaxPools >= 1
    /\ MaxPerDay \in Nat /\ MaxCrashes \in Nat /\ MaxStray \in Nat
    /\ \A w \in Worker : PoolOf(w) \in Pool
    /\ NoScan \notin ScanId /\ NoPool \notin Pool
BY QueueAssumption DEF Worker, PoolOf, Pool, ScanId, NoScan, NoPool

\* What TakeJob does to the work queue of a pool.
LEMMA TakingFirst ==
    ASSUME NEW S, NEW q \in Seq(S), q # <<>>
    PROVE  /\ Tail(q) \in Seq(S)
           /\ Head(q) \in S
           /\ Head(q) = q[1]
           /\ Len(q) \in Nat /\ Len(q) >= 1
           /\ Len(Tail(q)) = Len(q) - 1
           /\ \A i \in 1 .. Len(q) - 1 : Tail(q)[i] = q[i + 1]
OBVIOUS

\* What Enqueue does to the work queue of a pool.
LEMMA PuttingLast ==
    ASSUME NEW S, NEW q \in Seq(S), NEW s \in S
    PROVE  /\ Append(q, s) \in Seq(S)
           /\ Len(q) \in Nat
           /\ Len(Append(q, s)) = Len(q) + 1
           /\ \A i \in 1 .. Len(q) : Append(q, s)[i] = q[i]
           /\ Append(q, s)[Len(q) + 1] = s
OBVIOUS

------------------------------------------------------------------------------
(* Type correctness. *)

LEMMA InitTypeOK == Init => TypeOK
BY ConstantTypes
   DEF Init, TypeOK, NoWork, AllIdle, BusyWorkers, NoScan, NoPool, ScanState, Pool

LEMMA StepTypeOK == TypeOK /\ [Next]_vars => TypeOK'
  <1> SUFFICES ASSUME TypeOK, [Next]_vars
               PROVE  TypeOK'
    OBVIOUS
  <1> USE ConstantTypes DEF TypeOK, BusyWorkers
  <1>1. ASSUME NEW k \in Caller, NEW c \in Cruise, CheckRateLimit(k, c)
        PROVE  TypeOK'
    BY <1>1, QueueAssumption DEF CheckRateLimit, dbVars, queueVars, workerVars
  <1>2. ASSUME NEW k \in Caller, InsertScan(k)
        PROVE  TypeOK'
    <2>1. NewId \in ScanId /\ NewId + 1 \in 1 .. MaxScans + 1
      BY <1>2 DEF InsertScan, ScanId
    <2>2. QED
      BY <1>2, <2>1 DEF InsertScan, queueVars, workerVars, ScanState
  <1>3. ASSUME NEW k \in Caller, InsertFails(k) \/ RefreshFails(k)
        PROVE  TypeOK'
    <2>1. CASE InsertFails(k)
      BY <2>1 DEF InsertFails, CallerReturns, dbVars, queueVars, workerVars
    <2>2. CASE RefreshFails(k)
      <3>1. lost' \subseteq ScanId
        BY <2>2 DEF RefreshFails
      <3>2. QED
        BY <2>2, <3>1 DEF RefreshFails, CallerReturns, dbVars, queueVars, workerVars
    <2>3. QED
      BY <1>3, <2>1, <2>2
  <1>4. ASSUME NEW k \in Caller, Submit(k)
        PROVE  TypeOK'
    <2>1. callerScan[k] \in ScanId
      BY <1>4 DEF Submit
    <2>2. CASE callerScan[k] \in running
      BY <1>4, <2>2 DEF Submit, CallerReturns, dbVars, queueVars, workerVars
    <2>3. CASE callerScan[k] \notin running
      <3> DEFINE p == IF executor = NoPool THEN pools + 1 ELSE executor
      <3>1. Enqueue(callerScan[k])
        BY <1>4, <2>3 DEF Submit
      <3>2. p \in Pool
        BY DEF Pool, NoPool
      <3>3. work' \in [Pool -> Seq(ScanId)]
        BY <2>1, <3>1, <3>2, PuttingLast DEF Enqueue
      <3>4. /\ pools' \in 0 .. MaxPools
            /\ executor' \in {NoPool, pools'}
            /\ executor' # NoPool
        BY <3>1, <3>2 DEF Enqueue, Pool, NoPool
      <3>5. queued' \subseteq ScanId /\ running' \subseteq ScanId
        BY <2>1, <3>1 DEF Enqueue
      <3>6. QED
        BY <1>4, <3>3, <3>4, <3>5 DEF Submit, CallerReturns, dbVars, workerVars
    <2>4. QED
      BY <2>2, <2>3
  <1>17. ASSUME NEW k \in Caller, SubmitRaises(k)
         PROVE  TypeOK'
    <2> DEFINE p == IF executor = NoPool THEN pools + 1 ELSE executor
    <2>1. callerScan[k] \in ScanId
      BY <1>17 DEF SubmitRaises
    <2>2. p \in Pool
      BY DEF Pool, NoPool
    <2>3. work' \in [Pool -> Seq(ScanId)]
      <3>1. [work EXCEPT ![p] = Append(@, callerScan[k])] \in [Pool -> Seq(ScanId)]
        BY <2>1, <2>2, PuttingLast
      <3>2. QED
        BY <1>17, <3>1 DEF SubmitRaises
    <2>4. /\ pools' \in 0 .. MaxPools
          /\ executor' \in {NoPool, pools'}
          /\ executor' # NoPool
      BY <1>17, <2>2 DEF SubmitRaises, Pool, NoPool
    <2>5. queued' \subseteq ScanId /\ stray' \subseteq ScanId /\ lost' \subseteq ScanId
      BY <1>17, <2>1 DEF SubmitRaises
    <2>6. QED
      BY <1>17, <2>3, <2>4, <2>5 DEF SubmitRaises, CallerReturns, dbVars, workerVars
  <1>5. ASSUME NEW w \in Worker, TakeJob(w)
        PROVE  TypeOK'
    <2>1. /\ Head(work[PoolOf(w)]) \in ScanId
          /\ Tail(work[PoolOf(w)]) \in Seq(ScanId)
      BY <1>5, TakingFirst DEF TakeJob
    <2>2. QED
      BY <1>5, <2>1 DEF TakeJob, GoTo, dbVars, callerVars
  <1>6. ASSUME NEW w \in Worker, BeginJob(w) \/ EndJob(w)
        PROVE  TypeOK'
    <2>1. CASE BeginJob(w)
      BY <2>1 DEF BeginJob, GoTo, dbVars, callerVars
    <2>2. CASE EndJob(w)
      BY <2>2 DEF EndJob, GoTo, dbVars, callerVars
    <2>3. QED
      BY <1>6, <2>1, <2>2
  <1>7. ASSUME NEW w \in Worker, LoadScan(w)
        PROVE  TypeOK'
    <2>1. workerScan[w] \in ScanId
      BY <1>7 DEF LoadScan
    <2>2. CASE HasRow(workerScan[w])
      <3>1. /\ GoTo(w, "start")
            /\ workerCruise' = [workerCruise EXCEPT ![w] = owner[workerScan[w]]]
        BY <1>7, <2>2 DEF LoadScan
      <3>2. owner[workerScan[w]] \in Cruise \cup {NoCruise}
        BY <2>1
      <3>3. QED
        BY <1>7, <3>1, <3>2 DEF LoadScan, GoTo, dbVars, queueVars, callerVars
    <2>3. CASE ~HasRow(workerScan[w])
      BY <1>7, <2>1, <2>3 DEF LoadScan, GoTo, dbVars, queueVars, callerVars
    <2>4. QED
      BY <2>2, <2>3
  <1>8. ASSUME NEW w \in Worker,
               StartScan(w) \/ RefuseScan(w) \/ CompleteScan(w) \/ FailScan(w)
        PROVE  TypeOK'
    <2>1. PICK new \in ScanState, place \in {"exec", "end"} :
            WriteStatus(w, new) /\ GoTo(w, place) /\ workerAt[w] # "idle"
      BY <1>8 DEF StartScan, RefuseScan, CompleteScan, FailScan, ScanState
    <2>2. QED
      BY <2>1 DEF WriteStatus, GoTo, queueVars, callerVars
  <1>9. ASSUME NEW w \in Worker, LoseScan(w)
        PROVE  TypeOK'
    BY <1>9 DEF LoseScan, GoTo, dbVars, queueVars, callerVars
  <1>10. ASSUME NEW c \in Cruise, DeleteCruise(c)
         PROVE  TypeOK'
    BY <1>10 DEF DeleteCruise, queueVars, callerVars, workerVars, ScanState
  <1>11. ASSUME NEW s \in ScanId, AgeOut(s)
         PROVE  TypeOK'
    BY <1>11 DEF AgeOut, queueVars, callerVars, workerVars
  <1>12. CASE Shutdown
    BY <1>12 DEF Shutdown, dbVars, callerVars, workerVars
  <1>13. CASE Startup
    BY <1>13 DEF Startup, dbVars, queueVars, callerVars, workerVars
  <1>14. CASE Crash
    <2>1. lost' \subseteq ScanId /\ crashes' \in 0 .. MaxCrashes
      BY <1>14 DEF Crash
    <2>2. QED
      BY <1>14, <2>1 DEF Crash, dbVars, NoWork, AllIdle, NoPool, NoScan
  <1>15. CASE UNCHANGED vars
    BY <1>15 DEF vars, dbVars, queueVars, callerVars, workerVars
  <1>16. QED
    BY <1>1, <1>2, <1>3, <1>4, <1>5, <1>6, <1>7, <1>8, <1>9, <1>10, <1>11, <1>12,
       <1>13, <1>14, <1>15, <1>17 DEF Next, CallerStep, WorkerStep

\* Every variable keeps its type in every behaviour of the pipeline.
THEOREM TypeCorrect == Spec => []TypeOK
BY InitTypeOK, StepTypeOK, PTL DEF Spec

------------------------------------------------------------------------------
(* A scan is submitted once. *)

LEMMA InitFresh == Init => FreshInv
BY DEF Init, FreshInv

\* Without a raising submission there are no stray scans.
LEMMA NoStray == TypeOK /\ MaxStray = 0 /\ FreshInv => stray = {} /\ \A k \in Caller : ~SubmitRaises(k)
  <1> SUFFICES ASSUME TypeOK, MaxStray = 0, FreshInv
               PROVE  stray = {} /\ \A k \in Caller : ~SubmitRaises(k)
    OBVIOUS
  <1>1. stray = {}
    BY DEF FreshInv
  <1>2. Cardinality(stray) = 0
    BY <1>1, FS_EmptySet
  <1>3. QED
    BY <1>1, <1>2 DEF SubmitRaises

\* The scan of a caller has not been submitted before, unless ids are reused.
LEMMA FreshScan ==
    ASSUME TypeOK, FreshInv, NEW k \in Caller, callerAt[k] = "submit"
    PROVE  callerScan[k] \notin stray
  <1>1. CASE ReuseIds
    BY <1>1, QueueAssumption DEF FreshInv
  <1>2. CASE ~ReuseIds
    BY <1>2 DEF FreshInv
  <1>3. QED
    BY <1>1, <1>2

LEMMA InsertKeepsFresh ==
    ASSUME TypeOK, FreshInv, ~ReuseIds, NEW k \in Caller, InsertScan(k)
    PROVE  FreshInv'
  <1>1. /\ nextId \in ScanId /\ nextId' = nextId + 1 /\ nextId \in Nat
        /\ callerAt' = [callerAt EXCEPT ![k] = "submit"]
        /\ callerScan' = [callerScan EXCEPT ![k] = nextId]
        /\ UNCHANGED stray
    BY ConstantTypes DEF InsertScan, NewId, ScanId
  <1>2. \A s \in stray : s \in Nat /\ s < nextId
    BY DEF FreshInv, TypeOK, ScanId
  <1>3. \A j \in Caller \ {k} : callerAt'[j] = "submit" =>
           /\ callerAt[j] = "submit" /\ callerScan'[j] = callerScan[j]
           /\ callerScan[j] \in Nat /\ callerScan[j] < nextId
           /\ callerScan[j] \notin stray
    BY <1>1 DEF FreshInv, TypeOK, ScanId, NoScan
  <1>4. callerScan'[k] = nextId /\ nextId \notin stray
    BY <1>1, <1>2 DEF TypeOK
  <1>5. \A s \in stray' : s < nextId'
    BY <1>1, <1>2
  <1>6. \A j \in Caller : callerAt'[j] = "submit" =>
           callerScan'[j] < nextId' /\ callerScan'[j] \notin stray'
    BY <1>1, <1>3, <1>4
  <1>7. \A i, j \in Caller :
           callerAt'[i] = "submit" /\ callerAt'[j] = "submit" /\ callerScan'[i] = callerScan'[j]
               => i = j
    BY <1>1, <1>3, <1>4 DEF FreshInv
  <1>8. QED
    BY <1>1, <1>5, <1>6, <1>7 DEF FreshInv

LEMMA StepFresh == TypeOK /\ FreshInv /\ [Next]_vars => FreshInv'
  <1> SUFFICES ASSUME TypeOK, FreshInv, [Next]_vars
               PROVE  FreshInv'
    OBVIOUS
  <1>1. CASE UNCHANGED <<nextId, stray, callerAt, callerScan>>
    BY <1>1 DEF FreshInv
  <1>2. ASSUME NEW k \in Caller, InsertScan(k)
        PROVE  FreshInv'
    <2>1. CASE ReuseIds
      BY <1>2, <2>1 DEF InsertScan, FreshInv
    <2>2. CASE ~ReuseIds
      BY <1>2, <2>2, InsertKeepsFresh
    <2>3. QED
      BY <2>1, <2>2
  <1>3. ASSUME NEW k \in Caller, UNCHANGED <<nextId, stray>>,
               \/ \E c \in Cruise : CheckRateLimit(k, c)
               \/ CallerReturns(k)
        PROVE  FreshInv'
    <2>1. \A j \in Caller : callerAt'[j] = "submit" =>
             callerAt[j] = "submit" /\ callerScan'[j] = callerScan[j]
      BY <1>3 DEF CheckRateLimit, CallerReturns, TypeOK
    <2>2. QED
      BY <1>3, <2>1 DEF FreshInv
  <1>4. ASSUME NEW k \in Caller, SubmitRaises(k)
        PROVE  FreshInv'
    <2>1. MaxStray # 0
      BY <1>4, NoStray
    <2>2. ~ReuseIds
      BY <2>1, QueueAssumption
    <2>3. /\ callerAt[k] = "submit"
          /\ stray' = stray \cup {callerScan[k]}
          /\ CallerReturns(k) /\ UNCHANGED nextId
      BY <1>4 DEF SubmitRaises, dbVars
    <2>4. \A j \in Caller : callerAt'[j] = "submit" =>
             j # k /\ callerAt[j] = "submit" /\ callerScan'[j] = callerScan[j]
      BY <2>3 DEF CallerReturns, TypeOK
    <2>5. QED
      BY <2>1, <2>2, <2>3, <2>4 DEF FreshInv
  <1>5. CASE Crash
    BY <1>5 DEF Crash, FreshInv
  <1>6. ASSUME NEW w \in Worker, WorkerStep(w)
        PROVE  UNCHANGED <<nextId, stray, callerAt, callerScan>>
    BY <1>6 DEF WorkerStep, TakeJob, BeginJob, LoadScan, StartScan, RefuseScan,
                CompleteScan, FailScan, LoseScan, EndJob, WriteStatus, dbVars, callerVars
  <1>7. ASSUME \/ \E c \in Cruise : DeleteCruise(c)
               \/ \E s \in ScanId : AgeOut(s)
               \/ Shutdown \/ Startup \/ UNCHANGED vars
        PROVE  UNCHANGED <<nextId, stray, callerAt, callerScan>>
    BY <1>7 DEF DeleteCruise, AgeOut, Shutdown, Startup, vars, dbVars, callerVars
  <1>8. ASSUME NEW k \in Caller, InsertFails(k) \/ Submit(k) \/ RefreshFails(k)
        PROVE  CallerReturns(k) /\ UNCHANGED <<nextId, stray>>
    BY <1>8 DEF InsertFails, Submit, RefreshFails, dbVars
  <1>9. ASSUME NEW k \in Caller, NEW c \in Cruise, CheckRateLimit(k, c)
        PROVE  UNCHANGED <<nextId, stray>>
    BY <1>9 DEF CheckRateLimit, dbVars
  <1>10. QED
    BY <1>1, <1>2, <1>3, <1>4, <1>5, <1>6, <1>7, <1>8, <1>9 DEF Next, CallerStep

\* Submissions do not repeat where they may raise, so a scan that is not
\* registered has no job.
THEOREM FreshInvariant == Spec => []FreshInv
BY InitFresh, StepFresh, TypeCorrect, PTL DEF Spec

------------------------------------------------------------------------------
(* The queue's bookkeeping: _running, _queued and the pools agree. *)

LEMMA InitJobs == Init => Jobs = {}
BY DEF Init, Jobs, Pending, Range, NoWork, AllIdle, BusyWorkers, Held

LEMMA InitJobInv == Init => JobInv
  <1> SUFFICES ASSUME Init PROVE JobInv
    OBVIOUS
  <1>1. Pending = {} /\ BusyWorkers = {} /\ Held = {} /\ Taken = {} /\ Begun = {}
    BY DEF Init, Pending, Range, NoWork, AllIdle, BusyWorkers, Held, Taken, Begun
  <1>2. \A p \in Pool : DOMAIN work[p] = {}
    BY DEF Init, NoWork
  <1>3. QED
    BY <1>1, <1>2 DEF Init, JobInv, RegisteredExactly, EachScanOnce, QueuedExactly, Jobs

\* A step that leaves the work queues and the workers' jobs alone.  A worker may
\* move between the places of its job, as long as it neither takes nor begins one.
LEMMA SameJobs ==
    ASSUME TypeOK, UNCHANGED <<work, workerScan>>,
           \A w \in Worker : /\ workerAt'[w] = "idle" <=> workerAt[w] = "idle"
                             /\ workerAt'[w] = "begin" <=> workerAt[w] = "begin"
    PROVE  /\ Pending' = Pending /\ BusyWorkers' = BusyWorkers /\ Held' = Held
           /\ Jobs' = Jobs /\ Taken' = Taken /\ Begun' = Begun
           /\ EachScanOnce => EachScanOnce'
  <1>1. Pending' = Pending
    BY DEF Pending
  <1>2. BusyWorkers' = BusyWorkers /\ Held' = Held
    BY DEF BusyWorkers, Held
  <1>3. Taken' = Taken /\ Begun' = Begun
    BY <1>2 DEF Taken, Begun, BusyWorkers
  <1>4. QED
    BY <1>1, <1>2, <1>3 DEF EachScanOnce, Jobs

LEMMA JobInvKept ==
    ASSUME TypeOK, JobInv, UNCHANGED <<queued, running, stray, work, workerScan>>,
           \A w \in Worker : /\ workerAt'[w] = "idle" <=> workerAt[w] = "idle"
                             /\ workerAt'[w] = "begin" <=> workerAt[w] = "begin"
    PROVE  JobInv'
  <1>1. /\ Pending' = Pending /\ Jobs' = Jobs /\ Taken' = Taken /\ Begun' = Begun
        /\ EachScanOnce'
    BY SameJobs DEF JobInv
  <1>2. QED
    BY <1>1 DEF JobInv, RegisteredExactly, QueuedExactly

\* A scan without a job gets one in the work queue of pool p.
LEMMA AddJob ==
    ASSUME TypeOK, EachScanOnce, NEW s \in ScanId, s \notin Jobs, NEW p \in Pool,
           work' = [work EXCEPT ![p] = Append(@, s)], UNCHANGED workerVars
    PROVE  /\ Pending' = Pending \cup {s} /\ Held' = Held
           /\ Jobs' = Jobs \cup {s} /\ Taken' = Taken /\ Begun' = Begun
           /\ EachScanOnce'
  <1> DEFINE n == Len(work[p]) + 1
  <1>1. /\ work[p] \in Seq(ScanId) /\ Len(work[p]) \in Nat
        /\ work'[p] \in Seq(ScanId) /\ Len(work'[p]) = n
        /\ \A i \in 1 .. n - 1 : work'[p][i] = work[p][i]
        /\ work'[p][n] = s
        /\ \A q \in Pool \ {p} : work'[q] = work[q]
    BY PuttingLast DEF TypeOK
  <1> HIDE DEF n
  <1>2. n \in Nat /\ n = Len(work[p]) + 1 /\ n \in 1 .. n
    BY <1>1 DEF n
  <1>3. /\ \A q \in Pool : DOMAIN work[q] = 1 .. Len(work[q]) /\ Len(work[q]) \in Nat
        /\ DOMAIN work'[p] = 1 .. n /\ DOMAIN work[p] = 1 .. n - 1
    BY <1>1, <1>2 DEF TypeOK
  <1>4. s \notin Pending /\ s \notin Held
    BY DEF Jobs
  <1>5. Pending' = Pending \cup {s}
    <2>1. ASSUME NEW x \in Range(work'[p]) PROVE x \in Range(work[p]) \cup {s}
      <3>1. PICK i \in 1 .. n : x = work'[p][i]
        BY <1>3 DEF Range
      <3>2. i = n \/ i \in 1 .. n - 1
        BY <1>2
      <3>3. QED
        BY <1>1, <1>3, <3>1, <3>2 DEF Range
    <2>2. ASSUME NEW x \in Range(work[p]) \cup {s} PROVE x \in Range(work'[p])
      <3>1. CASE x = s
        <4>1. n \in DOMAIN work'[p] /\ x = work'[p][n]
          BY <1>1, <1>2, <1>3, <3>1
        <4>2. QED
          BY <4>1 DEF Range
      <3>2. CASE x \in Range(work[p])
        <4>1. PICK i \in 1 .. n - 1 : x = work[p][i]
          BY <1>3, <3>2 DEF Range
        <4>2. i \in 1 .. n /\ x = work'[p][i]
          BY <1>1, <1>2, <4>1
        <4>3. QED
          BY <1>3, <4>2 DEF Range
      <3>3. QED
        BY <2>2, <3>1, <3>2
    <2>3. Range(work'[p]) = Range(work[p]) \cup {s}
      BY <2>1, <2>2
    <2>4. ASSUME NEW t \in Pending' PROVE t \in Pending \cup {s}
      BY <1>1, <2>3 DEF Pending
    <2>5. ASSUME NEW t \in Pending \cup {s} PROVE t \in Pending'
      <3>1. PICK q \in Pool : t \in Range(work'[q])
        BY <1>1, <2>3, <2>5 DEF Pending
      <3>2. QED
        BY <3>1 DEF Pending
    <2>6. QED
      BY <2>4, <2>5
  <1>6. /\ BusyWorkers' = BusyWorkers /\ Held' = Held
        /\ Taken' = Taken /\ Begun' = Begun
    BY DEF workerVars, BusyWorkers, Held, Taken, Begun
  <1>7. EachScanOnce'
    <2>1. \A v, w \in BusyWorkers' : workerScan'[v] = workerScan'[w] => v = w
      BY <1>6 DEF EachScanOnce, workerVars
    <2>2. Pending' \cap Held' = {}
      BY <1>4, <1>5, <1>6 DEF EachScanOnce
    <2>3. ASSUME NEW q \in Pool, NEW r \in Pool, NEW i \in DOMAIN work'[q],
                 NEW j \in DOMAIN work'[r], work'[q][i] = work'[r][j]
          PROVE  q = r /\ i = j
      <3>1. \A t \in Pool : \A m \in DOMAIN work[t] : work[t][m] # s
        BY <1>4 DEF Pending, Range
      <3>2. ASSUME NEW t \in Pool, NEW m \in DOMAIN work'[t], ~(t = p /\ m = n)
            PROVE  m \in DOMAIN work[t] /\ work'[t][m] = work[t][m]
        <4>1. CASE t = p
          BY <1>1, <1>3, <1>2, <3>2, <4>1
        <4>2. CASE t # p
          BY <1>1, <3>2, <4>2
        <4>3. QED
          BY <4>1, <4>2
      <3>3. CASE q = p /\ i = n
        BY <2>3, <3>1, <3>2, <3>3, <1>1
      <3>4. CASE r = p /\ j = n
        BY <2>3, <3>1, <3>2, <3>4, <1>1
      <3>5. CASE ~(q = p /\ i = n) /\ ~(r = p /\ j = n)
        BY <2>3, <3>2, <3>5 DEF EachScanOnce
      <3>6. QED
        BY <3>3, <3>4, <3>5
    <2>4. QED
      BY <2>1, <2>2, <2>3 DEF EachScanOnce
  <1>8. QED
    BY <1>5, <1>6, <1>7 DEF Jobs

LEMMA SubmitKeepsJobInv ==
    ASSUME TypeOK, JobInv, NEW s \in ScanId, s \notin running, s \notin stray, Enqueue(s),
           UNCHANGED workerVars, UNCHANGED stray
    PROVE  JobInv' /\ Jobs' = Jobs \cup {s}
  <1> DEFINE p == IF executor = NoPool THEN pools + 1 ELSE executor
  <1> USE DEF JobInv
  <1>1. p \in Pool
    BY ConstantTypes DEF TypeOK, Pool, NoPool
  <1>2. /\ work' = [work EXCEPT ![p] = Append(@, s)]
        /\ queued' = queued \cup {s}
        /\ running' = running \cup {s}
    BY DEF Enqueue
  <1> HIDE DEF p
  <1>3. s \notin Jobs
    BY DEF RegisteredExactly
  <1>4. /\ Pending' = Pending \cup {s} /\ Jobs' = Jobs \cup {s}
        /\ Taken' = Taken /\ Begun' = Begun /\ EachScanOnce'
    BY <1>1, <1>2, <1>3, AddJob
  <1>5. s \notin Begun
    BY <1>3 DEF Jobs, Held, Begun, BusyWorkers
  <1>6. RegisteredExactly' /\ QueuedExactly'
    BY <1>2, <1>4, <1>5 DEF RegisteredExactly, QueuedExactly
  <1>7. QED
    BY <1>4, <1>6

\* A submission that raises may leave a job that is not registered.
LEMMA SubmitRaisesKeepsJobInv ==
    ASSUME TypeOK, JobInv, FreshInv, NEW k \in Caller, SubmitRaises(k)
    PROVE  /\ JobInv'
           /\ Jobs' \in {Jobs, Jobs \cup {callerScan[k]}}
           /\ callerScan[k] \notin Jobs
  <1> DEFINE s == callerScan[k]
             p == IF executor = NoPool THEN pools + 1 ELSE executor
  <1> USE DEF JobInv
  <1>1. p \in Pool
    BY ConstantTypes DEF TypeOK, Pool, NoPool
  <1>2. /\ s \in ScanId /\ s \notin running /\ s \notin stray
        /\ work' \in {work, [work EXCEPT ![p] = Append(@, s)]}
        /\ queued' = queued \cup {s}
        /\ stray' = stray \cup {s}
        /\ running' = running /\ UNCHANGED workerVars
    BY FreshScan DEF SubmitRaises, TypeOK
  <1> HIDE DEF p, s
  <1>3. s \notin Jobs
    BY <1>2 DEF RegisteredExactly
  <1>4. CASE work' = work
    <2>1. /\ Pending' = Pending /\ Jobs' = Jobs /\ Taken' = Taken /\ Begun' = Begun
          /\ EachScanOnce'
      BY <1>2, <1>4, SameJobs DEF workerVars
    <2>2. s \notin Begun
      BY <1>3 DEF Jobs, Held, Begun, BusyWorkers
    <2>3. RegisteredExactly' /\ QueuedExactly'
      BY <1>2, <2>1, <2>2 DEF RegisteredExactly, QueuedExactly
    <2>4. QED
      BY <1>3, <2>1, <2>3 DEF s
  <1>5. CASE work' = [work EXCEPT ![p] = Append(@, s)]
    <2>1. /\ Pending' = Pending \cup {s} /\ Jobs' = Jobs \cup {s}
          /\ Taken' = Taken /\ Begun' = Begun /\ EachScanOnce'
      BY <1>1, <1>2, <1>3, <1>5, AddJob
    <2>2. s \notin Begun
      BY <1>3 DEF Jobs, Held, Begun, BusyWorkers
    <2>3. RegisteredExactly' /\ QueuedExactly'
      BY <1>2, <2>1, <2>2 DEF RegisteredExactly, QueuedExactly
    <2>4. QED
      BY <1>3, <2>1, <2>3 DEF s
  <1>6. QED
    BY <1>2, <1>3, <1>4, <1>5 DEF s

LEMMA TakeJobKeepsJobInv ==
    ASSUME TypeOK, JobInv, NEW w \in Worker, TakeJob(w)
    PROVE  JobInv' /\ Jobs' = Jobs
  <1> DEFINE p == PoolOf(w)
             s == Head(work[p])
  <1> USE DEF JobInv
  <1>1. p \in Pool /\ work[p] \in Seq(ScanId) /\ work[p] # <<>>
    BY ConstantTypes DEF TypeOK, TakeJob
  <1>2. /\ s \in ScanId /\ s = work[p][1]
        /\ Len(work[p]) \in Nat /\ Len(work[p]) >= 1
        /\ DOMAIN work[p] = 1 .. Len(work[p])
        /\ work'[p] = Tail(work[p])
        /\ DOMAIN work'[p] = 1 .. Len(work[p]) - 1
        /\ \A i \in 1 .. Len(work[p]) - 1 : work'[p][i] = work[p][i + 1]
        /\ \A q \in Pool \ {p} : work'[q] = work[q]
    BY <1>1, TakingFirst DEF TypeOK, TakeJob
  <1>3. /\ workerAt[w] = "idle"
        /\ workerAt' = [workerAt EXCEPT ![w] = "begin"]
        /\ workerScan' = [workerScan EXCEPT ![w] = s]
        /\ queued' = queued /\ running' = running /\ stray' = stray
    BY DEF TakeJob, GoTo
  <1>4. s \in Pending
    BY <1>1, <1>2 DEF Pending, Range
  <1>5. \A q \in Pool : \A i \in DOMAIN work[q] : work[q][i] = s => q = p /\ i = 1
    BY <1>1, <1>2 DEF EachScanOnce
  <1> HIDE DEF p, s
  <1>6. Pending' = Pending \ {s}
    <2>1. \A q \in Pool \ {p} : Range(work'[q]) = Range(work[q]) /\ s \notin Range(work[q])
      BY <1>2, <1>5 DEF Range
    <2>2. Range(work'[p]) = Range(work[p]) \ {s}
      <3>1. ASSUME NEW t \in Range(work'[p]) PROVE t \in Range(work[p]) /\ t # s
        <4>1. PICK i \in 1 .. Len(work[p]) - 1 : t = work[p][i + 1]
          BY <1>2 DEF Range
        <4>2. i + 1 \in DOMAIN work[p] /\ i + 1 # 1
          BY <1>2
        <4>3. QED
          BY <1>1, <1>5, <4>1, <4>2 DEF Range
      <3>2. ASSUME NEW t \in Range(work[p]), t # s PROVE t \in Range(work'[p])
        <4>1. PICK i \in 1 .. Len(work[p]) : t = work[p][i]
          BY <1>2 DEF Range
        <4>2. i # 1
          BY <1>2, <3>2, <4>1
        <4>3. i - 1 \in 1 .. Len(work[p]) - 1 /\ (i - 1) + 1 = i
          BY <1>2, <4>2
        <4>4. work'[p][i - 1] = t
          BY <1>2, <4>1, <4>3
        <4>5. QED
          BY <1>2, <4>3, <4>4 DEF Range
      <3>3. QED
        BY <3>1, <3>2
    <2>3. QED
      BY <1>1, <2>1, <2>2 DEF Pending
  <1>7. BusyWorkers' = BusyWorkers \cup {w} /\ w \notin BusyWorkers
    BY <1>3 DEF TypeOK, BusyWorkers
  <1>8. \A v \in Worker : workerScan'[v] = IF v = w THEN s ELSE workerScan[v]
    BY <1>3 DEF TypeOK
  <1>9. Held' = Held \cup {s}
    BY <1>7, <1>8 DEF Held, BusyWorkers
  <1>10. Taken' = Taken \cup {s}
    BY <1>3, <1>8 DEF Taken, TypeOK
  <1>14. Begun' = Begun
    <2>1. {v \in BusyWorkers' : workerAt'[v] # "begin"} = {v \in BusyWorkers : workerAt[v] # "begin"}
      BY <1>3, <1>7 DEF TypeOK, BusyWorkers
    <2>2. \A v \in BusyWorkers : workerScan'[v] = workerScan[v]
      BY <1>7, <1>8 DEF BusyWorkers
    <2>3. QED
      BY <2>1, <2>2 DEF Begun
  <1>15. Jobs' = Jobs
    BY <1>4, <1>6, <1>9 DEF Jobs
  <1>11. RegisteredExactly' /\ QueuedExactly'
    <2>1. Pending' \cup Taken' = Pending \cup Taken
      BY <1>4, <1>6, <1>10
    <2>2. RegisteredExactly'
      BY <1>3, <1>15 DEF RegisteredExactly
    <2>3. QueuedExactly'
      BY <1>3, <1>14, <2>1 DEF QueuedExactly
    <2>4. QED
      BY <2>2, <2>3
  <1>12. EachScanOnce'
    <2>1. \A u, v \in BusyWorkers' : workerScan'[u] = workerScan'[v] => u = v
      <3>1. \A v \in BusyWorkers : workerScan[v] # s /\ v \in Worker
        BY <1>4 DEF EachScanOnce, Held, BusyWorkers
      <3>2. QED
        BY <3>1, <1>7, <1>8 DEF EachScanOnce
    <2>2. Pending' \cap Held' = {}
      BY <1>6, <1>9 DEF EachScanOnce
    <2>3. ASSUME NEW q \in Pool, NEW r \in Pool, NEW i \in DOMAIN work'[q],
                 NEW j \in DOMAIN work'[r], work'[q][i] = work'[r][j]
          PROVE  q = r /\ i = j
      <3> DEFINE shift(t, m) == IF t = p THEN m + 1 ELSE m
      <3>1. ASSUME NEW t \in Pool, NEW m \in DOMAIN work'[t]
            PROVE  /\ shift(t, m) \in DOMAIN work[t]
                   /\ work'[t][m] = work[t][shift(t, m)]
        <4>1. CASE t = p
          <5>1. m \in 1 .. Len(work[p]) - 1
            BY <1>2, <4>1
          <5>2. m + 1 \in 1 .. Len(work[p]) /\ work'[p][m] = work[p][m + 1]
            BY <1>2, <5>1
          <5>3. QED
            BY <1>2, <4>1, <5>2
        <4>2. CASE t # p
          BY <1>2, <4>2
        <4>3. QED
          BY <4>1, <4>2
      <3>2. q = r /\ shift(q, i) = shift(r, j)
        <4> HIDE DEF shift
        <4>1. QED
          BY <2>3, <3>1 DEF EachScanOnce
      <3>3. CASE q = p
        <4>1. i \in 1 .. Len(work[p]) - 1 /\ j \in 1 .. Len(work[p]) - 1 /\ i + 1 = j + 1
          BY <1>2, <2>3, <3>2, <3>3
        <4>2. QED
          BY <3>2, <4>1
      <3>4. CASE q # p
        BY <3>2, <3>4
      <3>5. QED
        BY <3>3, <3>4
    <2>4. QED
      BY <2>1, <2>2, <2>3 DEF EachScanOnce
  <1>13. QED
    BY <1>11, <1>12, <1>15

LEMMA BeginJobKeepsJobInv ==
    ASSUME TypeOK, JobInv, NEW w \in Worker, BeginJob(w)
    PROVE  JobInv' /\ Jobs' = Jobs
  <1> USE DEF JobInv
  <1>1. /\ workerAt[w] = "begin"
        /\ workerAt' = [workerAt EXCEPT ![w] = "load"]
        /\ queued' = queued \ {workerScan[w]}
        /\ UNCHANGED <<running, stray, work, workerScan>>
    BY DEF BeginJob, GoTo
  <1>2. Pending' = Pending /\ BusyWorkers' = BusyWorkers /\ Held' = Held /\ Jobs' = Jobs
    BY <1>1 DEF TypeOK, Pending, BusyWorkers, Held, Jobs
  <1>3. workerScan[w] \notin Pending
    BY <1>1 DEF EachScanOnce, Held, BusyWorkers
  <1>4. Taken' = Taken \ {workerScan[w]}
    <2>1. \A v \in Worker : workerAt[v] = "begin" /\ v # w => workerScan[v] # workerScan[w]
      BY <1>1 DEF EachScanOnce, BusyWorkers
    <2>2. QED
      BY <1>1, <2>1 DEF Taken, TypeOK
  <1>5. Begun' = Begun \cup {workerScan[w]}
    <2>1. {v \in BusyWorkers' : workerAt'[v] # "begin"}
            = {v \in BusyWorkers : workerAt[v] # "begin"} \cup {w}
      BY <1>1, <1>2 DEF TypeOK, BusyWorkers
    <2>2. QED
      BY <1>1, <2>1 DEF Begun
  <1>6. EachScanOnce' /\ RegisteredExactly'
    BY <1>1, <1>2 DEF RegisteredExactly, EachScanOnce
  <1>7. QueuedExactly'
    BY <1>1, <1>2, <1>3, <1>4, <1>5 DEF QueuedExactly
  <1>8. QED
    BY <1>2, <1>6, <1>7

LEMMA EndJobKeepsJobInv ==
    ASSUME TypeOK, JobInv, NEW w \in Worker, EndJob(w)
    PROVE  JobInv' /\ Jobs' = Jobs \ {workerScan[w]}
  <1> USE DEF JobInv
  <1>1. /\ workerAt[w] = "end"
        /\ workerAt' = [workerAt EXCEPT ![w] = "idle"]
        /\ workerScan' = [workerScan EXCEPT ![w] = NoScan]
        /\ running' = running \ {workerScan[w]}
        /\ UNCHANGED <<queued, stray, work>>
    BY DEF EndJob, GoTo
  <1>2. Pending' = Pending
    BY <1>1 DEF Pending
  <1>3. BusyWorkers' = BusyWorkers \ {w} /\ w \in BusyWorkers
    BY <1>1 DEF TypeOK, BusyWorkers
  <1>4. \A v \in BusyWorkers' : workerScan'[v] = workerScan[v] /\ workerScan[v] # workerScan[w]
    BY <1>1, <1>3 DEF TypeOK, EachScanOnce, BusyWorkers
  <1>5. Held' = Held \ {workerScan[w]}
    BY <1>3, <1>4 DEF Held
  <1>6. workerScan[w] \notin Pending
    BY <1>3 DEF EachScanOnce, Held
  <1>7. Taken' = Taken
    BY <1>1 DEF Taken, TypeOK
  <1>11. Begun' \subseteq Begun
    BY <1>1, <1>3, <1>4 DEF Begun, TypeOK
  <1>12. Jobs' = Jobs \ {workerScan[w]}
    BY <1>2, <1>5, <1>6 DEF Jobs
  <1>8. RegisteredExactly' /\ QueuedExactly'
    BY <1>1, <1>2, <1>7, <1>11, <1>12 DEF RegisteredExactly, QueuedExactly
  <1>9. EachScanOnce'
    BY <1>1, <1>2, <1>3, <1>4, <1>5 DEF EachScanOnce
  <1>10. QED
    BY <1>8, <1>9, <1>12

LEMMA CrashKeepsJobInv == TypeOK /\ Crash => JobInv' /\ Jobs' = {}
  <1> SUFFICES ASSUME TypeOK, Crash PROVE JobInv' /\ Jobs' = {}
    OBVIOUS
  <1>1. Pending' = {} /\ BusyWorkers' = {} /\ Held' = {}
        /\ Taken' = {} /\ Begun' = {}
    BY DEF Crash, Pending, Range, NoWork, AllIdle, BusyWorkers, Held, Taken, Begun
  <1>2. \A p \in Pool : DOMAIN work'[p] = {}
    BY DEF Crash, NoWork
  <1>3. QED
    BY <1>1, <1>2 DEF Crash, JobInv, RegisteredExactly, EachScanOnce, QueuedExactly, Jobs

\* A worker that neither takes, begins nor ends a job.
LEMMA SameJobsOfMove ==
    ASSUME TypeOK, NEW w \in Worker,
           \/ LoadScan(w) \/ LoseScan(w)
           \/ StartScan(w) \/ RefuseScan(w) \/ CompleteScan(w) \/ FailScan(w)
    PROVE  /\ UNCHANGED <<queued, running, stray, work, workerScan>>
           /\ \A v \in Worker : /\ workerAt'[v] = "idle" <=> workerAt[v] = "idle"
                                /\ workerAt'[v] = "begin" <=> workerAt[v] = "begin"
           /\ Jobs' = Jobs
  <1>1. /\ workerAt[w] \in {"load", "start", "exec"}
        /\ \E place \in {"start", "exec", "end"} : GoTo(w, place)
        /\ UNCHANGED <<queued, running, stray, work, workerScan>>
    BY DEF LoadScan, LoseScan, StartScan, RefuseScan, CompleteScan, FailScan,
           WriteStatus, queueVars
  <1>2. \A v \in Worker : /\ workerAt'[v] = "idle" <=> workerAt[v] = "idle"
                          /\ workerAt'[v] = "begin" <=> workerAt[v] = "begin"
    BY <1>1 DEF GoTo, TypeOK
  <1>3. QED
    BY <1>1, <1>2, SameJobs

LEMMA StepJobInv == TypeOK /\ FreshInv /\ JobInv /\ [Next]_vars => JobInv'
  <1> SUFFICES ASSUME TypeOK, FreshInv, JobInv, [Next]_vars
               PROVE  JobInv'
    OBVIOUS
  <1>1. ASSUME NEW k \in Caller, Submit(k), callerScan[k] \notin running
        PROVE  JobInv'
    <2>1. callerScan[k] \in ScanId /\ callerScan[k] \notin stray
      BY <1>1, FreshScan DEF TypeOK, Submit
    <2>2. QED
      BY <1>1, <2>1, SubmitKeepsJobInv DEF Submit
  <1>2. ASSUME NEW k \in Caller, SubmitRaises(k)
        PROVE  JobInv'
    BY <1>2, SubmitRaisesKeepsJobInv
  <1>3. ASSUME NEW w \in Worker, TakeJob(w) \/ BeginJob(w) \/ EndJob(w)
        PROVE  JobInv'
    BY <1>3, TakeJobKeepsJobInv, BeginJobKeepsJobInv, EndJobKeepsJobInv
  <1>4. ASSUME NEW w \in Worker,
               \/ LoadScan(w) \/ LoseScan(w)
               \/ StartScan(w) \/ RefuseScan(w) \/ CompleteScan(w) \/ FailScan(w)
        PROVE  JobInv'
    BY <1>4, SameJobsOfMove, JobInvKept
  <1>5. CASE Crash
    BY <1>5, CrashKeepsJobInv
  <1>6. CASE UNCHANGED <<queued, running, stray, work, workerVars>>
    BY <1>6, JobInvKept DEF workerVars
  <1>7. ASSUME NEW k \in Caller, CallerStep(k), ~SubmitRaises(k),
               ~(Submit(k) /\ callerScan[k] \notin running)
        PROVE  UNCHANGED <<queued, running, stray, work, workerVars>>
    BY <1>7 DEF CallerStep, CheckRateLimit, InsertScan, InsertFails, Submit, RefreshFails,
                queueVars
  <1>8. ASSUME \/ \E c \in Cruise : DeleteCruise(c)
               \/ \E s \in ScanId : AgeOut(s)
               \/ Shutdown
               \/ Startup
               \/ UNCHANGED vars
        PROVE  UNCHANGED <<queued, running, stray, work, workerVars>>
    BY <1>8 DEF DeleteCruise, AgeOut, Shutdown, Startup, vars, queueVars
  <1>9. QED
    BY <1>1, <1>2, <1>3, <1>4, <1>5, <1>6, <1>7, <1>8 DEF Next, WorkerStep

THEOREM JobInvariant == Spec => []JobInv
BY InitJobInv, StepJobInv, TypeCorrect, FreshInvariant, PTL DEF Spec

\* _running holds exactly the scans whose job waits or is being worked on, and
\* _queued exactly those whose job has not begun (queue.py:73-90).
THEOREM Registration == Spec => []RegistryExact
BY JobInvariant, PTL DEF JobInv, RegistryExact

\* A scan never has two jobs, whatever the interleaving of submissions, jobs,
\* in-process restarts and crashes, and also when row ids are reused.
THEOREM NoDoubleExecution == Spec => []EachScanOnce
BY JobInvariant, PTL DEF JobInv

------------------------------------------------------------------------------
(* The daily limit. *)

LEMMA FiniteSets ==
    ASSUME TypeOK, NEW c
    PROVE  /\ IsFiniteSet(RecentOf(c)) /\ Cardinality(RecentOf(c)) \in Nat
           /\ IsFiniteSet(Cleared(c)) /\ Cardinality(Cleared(c)) \in Nat
           /\ IsFiniteSet(Caller) /\ Cardinality(Caller) \in Nat
           /\ Cardinality(Cleared(c)) <= Cardinality(Caller)
  <1>1. IsFiniteSet(ScanId)
    BY ConstantTypes, FS_Interval DEF ScanId
  <1>2. RecentOf(c) \in SUBSET ScanId /\ Cleared(c) \in SUBSET Caller
    BY DEF TypeOK, RecentOf, Cleared
  <1>3. IsFiniteSet(RecentOf(c)) /\ IsFiniteSet(Cleared(c)) /\ IsFiniteSet(Caller)
    BY <1>1, <1>2, FS_Subset, QueueAssumption
  <1>4. Cardinality(Cleared(c)) <= Cardinality(Caller)
    BY <1>2, FS_Subset, QueueAssumption
  <1>5. QED
    BY <1>3, <1>4, FS_CardinalityType

LEMMA InitLimitInv == Init => LimitInv
  <1> SUFFICES ASSUME Init, NEW c \in Cruise
               PROVE  Cardinality(RecentOf(c)) + Cardinality(Cleared(c))
                        <= MaxPerDay + Cardinality(Caller) - 1
    BY DEF LimitInv
  <1>1. RecentOf(c) = {} /\ Cleared(c) = {}
    BY DEF Init, RecentOf, Cleared
  <1>2. Cardinality(RecentOf(c)) = 0 /\ Cardinality(Cleared(c)) = 0
    BY <1>1, FS_EmptySet
  <1>3. Cardinality(Caller) \in Nat
    BY FS_CardinalityType, QueueAssumption
  <1>4. QED
    BY <1>2, <1>3, QueueAssumption

\* Fewer rows in the window and fewer callers past the check: nothing to show.
LEMMA LimitInvShrinks ==
    ASSUME TypeOK, TypeOK', LimitInv,
           \A c \in Cruise : RecentOf(c)' \subseteq RecentOf(c) /\ Cleared(c)' \subseteq Cleared(c)
    PROVE  LimitInv'
  <1> SUFFICES ASSUME NEW c \in Cruise
               PROVE  Cardinality(RecentOf(c)') + Cardinality(Cleared(c)')
                        <= MaxPerDay + Cardinality(Caller) - 1
    BY DEF LimitInv
  <1>1. /\ Cardinality(RecentOf(c)') <= Cardinality(RecentOf(c))
        /\ Cardinality(Cleared(c)') <= Cardinality(Cleared(c))
    BY FiniteSets, FS_Subset
  <1>2. /\ Cardinality(RecentOf(c)') \in Nat /\ Cardinality(RecentOf(c)) \in Nat
        /\ Cardinality(Cleared(c)') \in Nat /\ Cardinality(Cleared(c)) \in Nat
        /\ Cardinality(Caller) \in Nat
    BY <1>1, FiniteSets, FS_Subset, FS_CardinalityType
  <1>3. QED
    BY <1>1, <1>2, QueueAssumption DEF LimitInv

LEMMA CheckKeepsLimitInv ==
    ASSUME TypeOK, TypeOK', LimitInv, NEW k \in Caller, NEW b \in Cruise, CheckRateLimit(k, b)
    PROVE  LimitInv'
  <1> SUFFICES ASSUME NEW c \in Cruise
               PROVE  Cardinality(RecentOf(c)') + Cardinality(Cleared(c)')
                        <= MaxPerDay + Cardinality(Caller) - 1
    BY DEF LimitInv
  <1>1. RecentOf(c)' = RecentOf(c)
    BY DEF CheckRateLimit, RecentOf, dbVars
  <1>2. /\ IsFiniteSet(Cleared(c)') /\ Cardinality(Cleared(c)') \in Nat
        /\ Cardinality(Cleared(c)') <= Cardinality(Caller)
    <2>1. Cleared(c)' \in SUBSET Caller
      BY DEF Cleared
    <2>2. QED
      BY <2>1, FS_Subset, FS_CardinalityType, QueueAssumption
  <1>3. CASE c = b
    BY <1>1, <1>2, <1>3, FiniteSets, QueueAssumption DEF CheckRateLimit
  <1>4. CASE c # b
    <2>1. Cleared(c)' = Cleared(c)
      BY <1>4 DEF CheckRateLimit, Cleared, TypeOK
    <2>2. QED
      BY <1>1, <2>1 DEF LimitInv
  <1>5. QED
    BY <1>3, <1>4

LEMMA InsertKeepsLimitInv ==
    ASSUME TypeOK, TypeOK', LimitInv, NEW k \in Caller, InsertScan(k)
    PROVE  LimitInv'
  <1> DEFINE b == callerCruise[k]
  <1> SUFFICES ASSUME NEW c \in Cruise
               PROVE  Cardinality(RecentOf(c)') + Cardinality(Cleared(c)')
                        <= MaxPerDay + Cardinality(Caller) - 1
    BY DEF LimitInv
  <1>1. NewId \in ScanId /\ callerAt[k] = "insert"
    BY DEF InsertScan
  <1>2. CASE c = b
    <2>1. RecentOf(c)' = RecentOf(c) \cup {NewId}
      BY <1>1, <1>2 DEF InsertScan, RecentOf, TypeOK
    <2>2. Cleared(c)' = Cleared(c) \ {k} /\ k \in Cleared(c)
      BY <1>1, <1>2 DEF InsertScan, Cleared, TypeOK
    <2>3. Cardinality(RecentOf(c)') \in {Cardinality(RecentOf(c)), Cardinality(RecentOf(c)) + 1}
      BY <2>1, FiniteSets, FS_AddElement
    <2>4. Cardinality(Cleared(c)') = Cardinality(Cleared(c)) - 1
      BY <2>2, FiniteSets, FS_RemoveElement
    <2>5. QED
      BY <2>3, <2>4, FiniteSets, QueueAssumption DEF LimitInv
  <1>3. CASE c # b
    <2>1. RecentOf(c)' \subseteq RecentOf(c)
      BY <1>1, <1>3 DEF InsertScan, RecentOf, TypeOK
    <2>2. Cleared(c)' = Cleared(c)
      BY <1>1, <1>3 DEF InsertScan, Cleared, TypeOK
    <2>3. Cardinality(RecentOf(c)') <= Cardinality(RecentOf(c)) /\ Cardinality(RecentOf(c)') \in Nat
      BY <2>1, FiniteSets, FS_Subset, FS_CardinalityType
    <2>4. QED
      BY <2>2, <2>3, FiniteSets, QueueAssumption DEF LimitInv
  <1>4. QED
    BY <1>2, <1>3

LEMMA StepLimitInv == TypeOK /\ TypeOK' /\ LimitInv /\ [Next]_vars => LimitInv'
  <1> SUFFICES ASSUME TypeOK, TypeOK', LimitInv, [Next]_vars
               PROVE  LimitInv'
    OBVIOUS
  <1>1. ASSUME NEW k \in Caller, CallerStep(k)
        PROVE  LimitInv'
    <2>1. ASSUME NEW c \in Cruise, CheckRateLimit(k, c)
          PROVE  LimitInv'
      BY <2>1, CheckKeepsLimitInv
    <2>2. CASE InsertScan(k)
      BY <2>2, InsertKeepsLimitInv
    <2>3. CASE InsertFails(k) \/ Submit(k) \/ SubmitRaises(k) \/ RefreshFails(k)
      <3>1. \A c \in Cruise : RecentOf(c)' \subseteq RecentOf(c) /\ Cleared(c)' \subseteq Cleared(c)
        BY <2>3 DEF InsertFails, Submit, SubmitRaises, RefreshFails, CallerReturns, RecentOf, Cleared,
                    TypeOK, dbVars
      <3>2. QED
        BY <3>1, LimitInvShrinks
    <2>4. QED
      BY <1>1, <2>1, <2>2, <2>3 DEF CallerStep
  <1>2. ASSUME NEW w \in Worker, WorkerStep(w)
        PROVE  LimitInv'
    <2>1. UNCHANGED <<owner, recent, callerVars>>
      BY <1>2 DEF WorkerStep, TakeJob, BeginJob, LoadScan, StartScan, RefuseScan,
                  CompleteScan, FailScan, LoseScan, EndJob, WriteStatus, dbVars
    <2>2. QED
      BY <2>1, LimitInvShrinks DEF RecentOf, Cleared, callerVars
  <1>3. ASSUME NEW b \in Cruise, DeleteCruise(b)
        PROVE  LimitInv'
    <2>1. \A c \in Cruise : RecentOf(c)' \subseteq RecentOf(c) /\ Cleared(c)' \subseteq Cleared(c)
      BY <1>3, QueueAssumption
         DEF DeleteCruise, RecentOf, RowsOf, Cleared, callerVars, TypeOK
    <2>2. QED
      BY <2>1, LimitInvShrinks
  <1>4. ASSUME NEW s \in ScanId, AgeOut(s)
        PROVE  LimitInv'
    BY <1>4, LimitInvShrinks DEF AgeOut, RecentOf, Cleared, callerVars
  <1>5. CASE Shutdown \/ Startup \/ UNCHANGED vars
    BY <1>5, LimitInvShrinks DEF Shutdown, Startup, vars, RecentOf, Cleared, callerVars, dbVars
  <1>6. CASE Crash
    BY <1>6, LimitInvShrinks DEF Crash, RecentOf, Cleared, dbVars
  <1>7. QED
    BY <1>1, <1>2, <1>3, <1>4, <1>5, <1>6 DEF Next

LEMMA LimitInvImplies == TypeOK /\ LimitInv => OvershootBounded
BY FiniteSets, QueueAssumption DEF LimitInv, OvershootBounded

\* The number of scans of a cruise within 24 hours never exceeds the daily limit
\* by more than the number of other threads that can be inside create_scan.
THEOREM OvershootTheorem == Spec => []OvershootBounded
  <1>1. Spec => []LimitInv
    BY InitLimitInv, StepLimitInv, TypeCorrect, PTL DEF Spec
  <1>2. QED
    BY <1>1, TypeCorrect, LimitInvImplies, PTL

------------------------------------------------------------------------------
(* Rows and threads, when row ids are not reused. *)

LEMMA InitRowInv == Init => RowInv
BY InitJobs DEF Init, RowInv, HasRow, AllIdle

\* The scan of a busy worker has a job, and nobody else works on it.
LEMMA WorkerAlone ==
    ASSUME TypeOK, JobInv, NEW w \in Worker, workerAt[w] # "idle"
    PROVE  /\ workerScan[w] \in ScanId
           /\ workerScan[w] \in Jobs
           /\ \A v \in Worker : workerAt[v] # "idle" /\ workerScan[v] = workerScan[w] => v = w
           /\ workerAt[w] # "begin" => workerScan[w] \notin queued
  <1>1. w \in BusyWorkers /\ workerScan[w] \in Held
    BY DEF BusyWorkers, Held
  <1>2. \A v \in Worker : workerAt[v] # "idle" /\ workerScan[v] = workerScan[w] => v = w
    BY <1>1 DEF JobInv, EachScanOnce, BusyWorkers
  <1>3. workerScan[w] \in ScanId /\ workerScan[w] \in Jobs
    BY <1>1 DEF TypeOK, Jobs
  <1>4. workerAt[w] # "begin" => workerScan[w] \notin queued
    BY <1>1 DEF JobInv, QueuedExactly, Begun
  <1>5. QED
    BY <1>2, <1>3, <1>4

\* Work that waits or has just been taken is queued.
LEMMA WaitingQueued ==
    ASSUME TypeOK, JobInv
    PROVE  /\ \A w \in Worker : workerAt[w] = "begin" => workerScan[w] \in queued
           /\ \A w \in Worker : work[PoolOf(w)] # <<>> => Head(work[PoolOf(w)]) \in queued
  <1>1. \A w \in Worker : work[PoolOf(w)] # <<>> => Head(work[PoolOf(w)]) \in Pending
    <2> SUFFICES ASSUME NEW w \in Worker, work[PoolOf(w)] # <<>>
                 PROVE  Head(work[PoolOf(w)]) \in Pending
      OBVIOUS
    <2>1. PoolOf(w) \in Pool /\ work[PoolOf(w)] \in Seq(ScanId)
      BY ConstantTypes DEF TypeOK
    <2>2. 1 \in DOMAIN work[PoolOf(w)] /\ Head(work[PoolOf(w)]) = work[PoolOf(w)][1]
      BY <2>1
    <2>3. QED
      BY <2>1, <2>2 DEF Pending, Range
  <1>2. QED
    BY <1>1 DEF JobInv, QueuedExactly, Taken

\* Steps that write no status and move no scan between threads.
LEMMA RowInvKept ==
    ASSUME RowInv, UNCHANGED <<nextId, queued, work, callerVars, workerVars>>,
           \A s \in ScanId : status'[s] = status[s] \/ status'[s] = "none",
           TypeOK, JobInv
    PROVE  RowInv'
  <1>1. \A w \in Worker : workerAt[w] # "idle" => workerScan[w] \in ScanId
    BY DEF TypeOK, BusyWorkers
  <1>2. \A k \in Caller : callerAt[k] = "submit" => callerScan[k] \in ScanId
    BY DEF TypeOK
  <1>3. queued \subseteq ScanId
    BY DEF TypeOK
  <1>4. Jobs' = Jobs
    BY SameJobs DEF workerVars
  <1>5. QED
    BY <1>1, <1>2, <1>3, <1>4 DEF RowInv, HasRow, callerVars, workerVars

LEMMA InsertKeepsRowInv ==
    ASSUME TypeOK, JobInv, FreshInv, RowInv, ~ReuseIds, NEW k \in Caller, InsertScan(k)
    PROVE  RowInv'
  <1>1. /\ nextId \in ScanId /\ nextId' = nextId + 1 /\ nextId \in Nat
        /\ status' = [status EXCEPT ![nextId] = "QUEUED"]
        /\ callerAt' = [callerAt EXCEPT ![k] = "submit"]
        /\ callerScan' = [callerScan EXCEPT ![k] = nextId]
        /\ UNCHANGED <<queued, work, workerAt, workerScan>>
    BY ConstantTypes DEF InsertScan, NewId, queueVars, workerVars, ScanId
  <1>2. ~HasRow(nextId) /\ nextId \notin Jobs /\ nextId \notin queued
    BY <1>1 DEF RowInv
  <1>3. \A w \in Worker : workerAt[w] # "idle" => workerScan[w] # nextId
    BY <1>2, WorkerAlone
  <1>4. \A j \in Caller : callerAt[j] = "submit" => callerScan[j] \in ScanId /\ callerScan[j] < nextId
    BY DEF FreshInv, TypeOK
  <1>5. Jobs' = Jobs
    BY <1>1, SameJobs
  <1>6. \A s \in ScanId : s >= nextId' => ~HasRow(s)' /\ s \notin Jobs' \cup queued'
    BY <1>1, <1>5 DEF RowInv, HasRow, TypeOK, ScanId
  <1>7. \A j \in Caller : callerAt'[j] = "submit" =>
           /\ callerScan'[j] \notin Jobs' \cup queued'
           /\ status'[callerScan'[j]] \in {"none", "QUEUED"}
    <2> SUFFICES ASSUME NEW j \in Caller, callerAt'[j] = "submit"
                 PROVE  /\ callerScan'[j] \notin Jobs \cup queued
                        /\ status'[callerScan'[j]] \in {"none", "QUEUED"}
      BY <1>1, <1>5
    <2>1. CASE j = k
      BY <1>1, <1>2, <2>1 DEF TypeOK
    <2>2. CASE j # k
      <3>1. callerAt[j] = "submit" /\ callerScan'[j] = callerScan[j]
        BY <1>1, <2>2 DEF TypeOK
      <3>2. /\ callerScan[j] \notin Jobs \cup queued
            /\ status[callerScan[j]] \in {"none", "QUEUED"}
        BY <3>1 DEF RowInv
      <3>3. status'[callerScan[j]] \in {"none", "QUEUED"}
        BY <1>1, <1>4, <3>1, <3>2 DEF TypeOK, ScanId
      <3>4. QED
        BY <3>1, <3>2, <3>3
    <2>3. QED
      BY <2>1, <2>2
  <1>8. \A s \in queued' : status'[s] \in {"none", "QUEUED"}
    BY <1>1, <1>2 DEF RowInv, TypeOK
  <1>9. \A w \in Worker :
           /\ workerAt'[w] \in {"load", "start"} => status'[workerScan'[w]] \in {"none", "QUEUED"}
           /\ workerAt'[w] = "exec" => status'[workerScan'[w]] \in {"none", "RUNNING"}
    BY <1>1, <1>3 DEF RowInv, TypeOK
  <1>10. QED
    BY <1>6, <1>7, <1>8, <1>9 DEF RowInv

\* A caller that returns has handed its scan over or leaves it behind.
LEMMA ReturnKeepsRowInv ==
    ASSUME TypeOK, JobInv, FreshInv, RowInv, ~ReuseIds, NEW k \in Caller,
           InsertFails(k) \/ Submit(k) \/ SubmitRaises(k) \/ RefreshFails(k)
    PROVE  RowInv'
  <1>1. /\ callerAt' = [callerAt EXCEPT ![k] = "idle"]
        /\ callerScan' = [callerScan EXCEPT ![k] = NoScan]
        /\ UNCHANGED <<status, nextId, workerAt, workerScan>>
    BY DEF InsertFails, Submit, SubmitRaises, RefreshFails, CallerReturns, dbVars, workerVars
  <1>2. \A j \in Caller : callerAt'[j] = "submit" =>
           j # k /\ callerAt[j] = "submit" /\ callerScan'[j] = callerScan[j]
    BY <1>1 DEF TypeOK
  <1>3. CASE UNCHANGED <<queued, work>>
    <2>1. Jobs' = Jobs
      BY <1>1, <1>3, SameJobs
    <2>2. QED
      BY <1>1, <1>2, <1>3, <2>1 DEF RowInv, HasRow
  <1>4. CASE SubmitRaises(k) \/ (Submit(k) /\ callerScan[k] \notin running)
    <2>1. /\ callerAt[k] = "submit" /\ callerScan[k] \in ScanId
          /\ queued' = queued \cup {callerScan[k]}
      BY <1>4 DEF Submit, SubmitRaises, Enqueue, TypeOK
    <2>2. Jobs' \subseteq Jobs \cup {callerScan[k]}
      <3>1. CASE SubmitRaises(k)
        BY <3>1, SubmitRaisesKeepsJobInv
      <3>2. CASE Submit(k) /\ callerScan[k] \notin running
        BY <2>1, <3>2, FreshScan, SubmitKeepsJobInv DEF Submit
      <3>3. QED
        BY <1>4, <3>1, <3>2
    <2>3. /\ \A s \in ScanId : s >= nextId => s # callerScan[k]
          /\ \A j \in Caller \ {k} : callerAt[j] = "submit" => callerScan[j] # callerScan[k]
      BY <2>1 DEF FreshInv, TypeOK, ScanId
    <2>4. status[callerScan[k]] \in {"none", "QUEUED"}
      BY <2>1 DEF RowInv
    <2>5. \A s \in ScanId : s >= nextId' => ~HasRow(s)' /\ s \notin Jobs' \cup queued'
      BY <1>1, <2>1, <2>2, <2>3 DEF RowInv, HasRow
    <2>6. \A j \in Caller : callerAt'[j] = "submit" => callerScan'[j] \notin Jobs' \cup queued'
      BY <1>2, <2>1, <2>2, <2>3 DEF RowInv
    <2>7. \A s \in queued' : status'[s] \in {"none", "QUEUED"}
      BY <1>1, <2>1, <2>4 DEF RowInv
    <2>8. QED
      BY <1>1, <1>2, <2>5, <2>6, <2>7 DEF RowInv
  <1>5. QED
    BY <1>3, <1>4 DEF InsertFails, Submit, RefreshFails, queueVars

\* A worker that moves on without writing a status.
LEMMA MoveKeepsRowInv ==
    ASSUME TypeOK, JobInv, RowInv, NEW w \in Worker,
           TakeJob(w) \/ BeginJob(w) \/ LoadScan(w) \/ LoseScan(w) \/ EndJob(w)
    PROVE  RowInv'
  <1>1. UNCHANGED <<status, nextId, callerAt, callerScan>>
    BY DEF TakeJob, BeginJob, LoadScan, LoseScan, EndJob, dbVars, callerVars
  <1>2. queued' \subseteq queued /\ Jobs' \subseteq Jobs
    <2>1. CASE LoadScan(w) \/ LoseScan(w)
      BY <2>1, SameJobsOfMove DEF LoadScan, LoseScan, queueVars
    <2>2. CASE TakeJob(w) \/ BeginJob(w) \/ EndJob(w)
      BY <2>2, TakeJobKeepsJobInv, BeginJobKeepsJobInv, EndJobKeepsJobInv
         DEF TakeJob, BeginJob, EndJob
    <2>3. QED
      BY <2>1, <2>2
  <1>3. \A v \in Worker : v # w => workerAt'[v] = workerAt[v] /\ workerScan'[v] = workerScan[v]
    BY DEF TakeJob, BeginJob, LoadScan, LoseScan, EndJob, GoTo, TypeOK
  <1>4. /\ workerAt'[w] # "exec"
        /\ workerAt'[w] \in {"load", "start"} => status[workerScan'[w]] \in {"none", "QUEUED"}
    <2>1. CASE BeginJob(w)
      <3>1. workerScan[w] \in queued
        BY <2>1, WaitingQueued DEF BeginJob
      <3>2. QED
        BY <2>1, <3>1 DEF BeginJob, GoTo, RowInv, TypeOK
    <2>2. CASE LoadScan(w)
      BY <2>2 DEF LoadScan, GoTo, RowInv, TypeOK
    <2>3. CASE TakeJob(w) \/ LoseScan(w) \/ EndJob(w)
      BY <2>3 DEF TakeJob, LoseScan, EndJob, GoTo, TypeOK
    <2>4. QED
      BY <2>1, <2>2, <2>3
  <1>5. QED
    BY <1>1, <1>2, <1>3, <1>4 DEF RowInv, HasRow

LEMMA WriteKeepsRowInv ==
    ASSUME TypeOK, JobInv, RowInv, NEW w \in Worker,
           StartScan(w) \/ RefuseScan(w) \/ CompleteScan(w) \/ FailScan(w)
    PROVE  RowInv'
  <1> DEFINE s == workerScan[w]
  <1>1. PICK new \in ScanState :
           /\ status' = [status EXCEPT ![s] = new]
           /\ HasRow(s)
           /\ \/ new = "RUNNING" /\ workerAt' = [workerAt EXCEPT ![w] = "exec"]
              \/ workerAt' = [workerAt EXCEPT ![w] = "end"]
           /\ workerAt[w] \in {"start", "exec"}
           /\ UNCHANGED <<nextId, queued, work, callerAt, callerScan, workerScan>>
    BY DEF StartScan, RefuseScan, CompleteScan, FailScan, WriteStatus, GoTo, queueVars,
           callerVars, ScanState
  <1>2. /\ s \in ScanId /\ s \in Jobs /\ s \notin queued
        /\ \A v \in Worker : workerAt[v] # "idle" /\ workerScan[v] = s => v = w
    BY <1>1, WorkerAlone
  <1>3. \A k \in Caller : callerAt[k] = "submit" => callerScan[k] # s
    BY <1>2 DEF RowInv
  <1>4. \A t \in ScanId : t # s => status'[t] = status[t]
    BY <1>1 DEF TypeOK
  <1>5. \A t \in ScanId : t >= nextId => ~HasRow(t)' /\ t \notin Jobs \cup queued
    BY <1>1, <1>2, <1>4 DEF RowInv, HasRow
  <1>6. \A k \in Caller : callerAt[k] = "submit" => status'[callerScan[k]] = status[callerScan[k]]
    BY <1>3, <1>4 DEF TypeOK
  <1>7. \A t \in queued : status'[t] = status[t]
    BY <1>2, <1>4 DEF TypeOK
  <1>8. \A v \in Worker : v # w /\ workerAt[v] # "idle" => status'[workerScan[v]] = status[workerScan[v]]
    BY <1>2, <1>4 DEF TypeOK, BusyWorkers
  <1>9. \A v \in Worker :
           /\ workerAt'[v] \in {"load", "start"} => status'[workerScan[v]] \in {"none", "QUEUED"}
           /\ workerAt'[v] = "exec" => status'[workerScan[v]] \in {"none", "RUNNING"}
    <2> SUFFICES ASSUME NEW v \in Worker
                 PROVE  /\ workerAt'[v] \in {"load", "start"} =>
                              status'[workerScan[v]] \in {"none", "QUEUED"}
                        /\ workerAt'[v] = "exec" => status'[workerScan[v]] \in {"none", "RUNNING"}
      OBVIOUS
    <2>1. CASE v = w
      BY <1>1, <1>2, <2>1 DEF TypeOK
    <2>2. CASE v # w
      BY <1>1, <1>8, <2>2 DEF TypeOK, RowInv
    <2>3. QED
      BY <2>1, <2>2
  <1>10. Jobs' = Jobs
    BY SameJobsOfMove
  <1>11. QED
    BY <1>1, <1>5, <1>6, <1>7, <1>9, <1>10 DEF RowInv

LEMMA StepRowInv ==
    ASSUME TypeOK, JobInv, FreshInv, RowInv, ~ReuseIds, [Next]_vars
    PROVE  RowInv'
  <1>1. ASSUME NEW k \in Caller, CallerStep(k)
        PROVE  RowInv'
    <2>1. ASSUME NEW c \in Cruise, CheckRateLimit(k, c)
          PROVE  RowInv'
      <3>1. /\ UNCHANGED <<status, nextId, queued, work, callerScan, workerAt, workerScan>>
            /\ \A j \in Caller : callerAt'[j] = "submit" => callerAt[j] = "submit"
        BY <2>1 DEF CheckRateLimit, dbVars, queueVars, workerVars, TypeOK
      <3>2. Jobs' = Jobs
        BY <3>1, SameJobs
      <3>3. QED
        BY <3>1, <3>2 DEF RowInv, HasRow
    <2>2. CASE InsertScan(k)
      BY <2>2, InsertKeepsRowInv
    <2>3. CASE InsertFails(k) \/ Submit(k) \/ SubmitRaises(k) \/ RefreshFails(k)
      BY <2>3, ReturnKeepsRowInv
    <2>4. QED
      BY <1>1, <2>1, <2>2, <2>3 DEF CallerStep
  <1>2. ASSUME NEW w \in Worker, WorkerStep(w)
        PROVE  RowInv'
    BY <1>2, MoveKeepsRowInv, WriteKeepsRowInv DEF WorkerStep
  <1>3. ASSUME NEW c \in Cruise, DeleteCruise(c)
        PROVE  RowInv'
    BY <1>3, RowInvKept DEF DeleteCruise, queueVars
  <1>4. ASSUME NEW s \in ScanId, AgeOut(s)
        PROVE  RowInv'
    BY <1>4, RowInvKept DEF AgeOut, queueVars
  <1>5. CASE Shutdown \/ Startup \/ UNCHANGED vars
    BY <1>5, RowInvKept DEF Shutdown, Startup, vars, dbVars, queueVars
  <1>6. CASE Crash
    BY <1>6, CrashKeepsJobInv DEF Crash, RowInv, HasRow, dbVars, AllIdle
  <1>7. QED
    BY <1>1, <1>2, <1>3, <1>4, <1>5, <1>6 DEF Next

\* Thread and status agree, when ids are not reused.
THEOREM RowInvariant ==
    ASSUME ~ReuseIds
    PROVE  Spec => []RowInv
  <1>1. TypeOK /\ JobInv /\ FreshInv /\ RowInv /\ [Next]_vars => RowInv'
    BY StepRowInv
  <1>2. QED
    BY <1>1, InitRowInv, TypeCorrect, JobInvariant, FreshInvariant, PTL DEF Spec

------------------------------------------------------------------------------
(* No unfinished row is forgotten. *)

\* The row s is in somebody's hands.
Accounted(s) ==
    /\ status[s] = "QUEUED" => Creating(s) \/ s \in queued \/ Executing(s, {"load", "start"})
    /\ status[s] = "RUNNING" => Executing(s, {"exec"})

LEMMA AccountedByCaller ==
    ASSUME TypeOK, TypeOK', JobInv, FreshInv, RowInv, AccountedFor, NEW k \in Caller, CallerStep(k),
           NEW s \in ScanId, s \notin lost'
    PROVE  Accounted(s)'
  <1>1. /\ UNCHANGED <<workerAt, workerScan>>
        /\ lost \subseteq lost' /\ queued \subseteq queued'
    BY DEF CallerStep, CheckRateLimit, InsertScan, InsertFails, Submit, Enqueue,
           SubmitRaises, RefreshFails, queueVars, workerVars
  <1>2. \A places : Executing(s, places)' <=> Executing(s, places)
    BY <1>1 DEF Executing
  <1>3. Accounted(s)
    BY <1>1 DEF AccountedFor, Accounted
  <1>4. ASSUME NEW c \in Cruise, CheckRateLimit(k, c)
        PROVE  Accounted(s)'
    <2>1. UNCHANGED <<status, callerScan>> /\ callerAt[k] = "idle"
          /\ callerAt' = [callerAt EXCEPT ![k] = "insert"]
      BY <1>4 DEF CheckRateLimit, dbVars
    <2>2. Creating(s) => Creating(s)'
      BY <2>1 DEF Creating, TypeOK
    <2>3. QED
      BY <1>1, <1>2, <1>3, <2>1, <2>2 DEF Accounted
  <1>5. CASE InsertScan(k)
    <2>1. PICK n \in ScanId :
            /\ status' = [status EXCEPT ![n] = "QUEUED"]
            /\ callerAt' = [callerAt EXCEPT ![k] = "submit"]
            /\ callerScan' = [callerScan EXCEPT ![k] = n]
            /\ callerAt[k] = "insert"
      BY <1>5 DEF InsertScan
    <2>2. CASE s = n
      <3>1. Creating(s)' /\ status'[s] = "QUEUED"
        BY <2>1, <2>2 DEF Creating, TypeOK
      <3>2. QED
        BY <3>1 DEF Accounted
    <2>3. CASE s # n
      <3>1. status'[s] = status[s] /\ (Creating(s) => Creating(s)')
        BY <2>1, <2>3 DEF Creating, TypeOK
      <3>2. QED
        BY <1>1, <1>2, <1>3, <3>1 DEF Accounted
    <2>4. QED
      BY <2>2, <2>3
  <1>6. CASE InsertFails(k) \/ Submit(k) \/ SubmitRaises(k) \/ RefreshFails(k)
    <2>1. /\ UNCHANGED status
          /\ callerAt' = [callerAt EXCEPT ![k] = "idle"]
          /\ callerScan' = [callerScan EXCEPT ![k] = NoScan]
      BY <1>6 DEF InsertFails, Submit, SubmitRaises, RefreshFails, CallerReturns, dbVars
    <2>2. CASE callerAt[k] = "submit" /\ callerScan[k] = s /\ HasRow(s)
      <3>1. Submit(k) /\ s \notin running
        BY <1>6, <2>2 DEF InsertFails, SubmitRaises, RefreshFails, RowInv, JobInv,
                          RegisteredExactly
      <3>2. s \in queued' /\ status[s] = "QUEUED"
        BY <2>2, <3>1 DEF Submit, Enqueue, RowInv, HasRow
      <3>3. QED
        BY <2>1, <3>2 DEF Accounted
    <2>3. CASE ~(callerAt[k] = "submit" /\ callerScan[k] = s)
      <3>1. Creating(s) => Creating(s)'
        BY <2>1, <2>3 DEF Creating, TypeOK
      <3>2. QED
        BY <1>1, <1>2, <1>3, <2>1, <3>1 DEF Accounted
    <2>4. CASE ~HasRow(s)
      BY <2>1, <2>4 DEF HasRow, Accounted
    <2>5. QED
      BY <2>2, <2>3, <2>4
  <1>7. QED
    BY <1>4, <1>5, <1>6 DEF CallerStep

LEMMA AccountedByWorker ==
    ASSUME TypeOK, TypeOK', JobInv, RowInv, AccountedFor, NEW w \in Worker, WorkerStep(w),
           NEW s \in ScanId, s \notin lost'
    PROVE  Accounted(s)'
  <1>1. UNCHANGED <<callerAt, callerScan>> /\ lost \subseteq lost'
    BY DEF WorkerStep, TakeJob, BeginJob, LoadScan, StartScan, RefuseScan, CompleteScan,
           FailScan, LoseScan, EndJob, WriteStatus, callerVars
  <1>2. Accounted(s) /\ (Creating(s)' <=> Creating(s))
    BY <1>1 DEF AccountedFor, Accounted, Creating
  <1>3. \A v \in Worker : v # w => workerAt'[v] = workerAt[v] /\ workerScan'[v] = workerScan[v]
    BY DEF WorkerStep, TakeJob, BeginJob, LoadScan, StartScan, RefuseScan, CompleteScan,
           FailScan, LoseScan, EndJob, WriteStatus, GoTo, TypeOK
  <1>4. CASE workerAt[w] \notin {"idle", "end"} /\ workerScan[w] = s
    <2>1. CASE BeginJob(w)
      <3>1. workerAt'[w] = "load" /\ workerScan'[w] = s /\ status' = status
        BY <1>4, <2>1 DEF BeginJob, GoTo, TypeOK, dbVars
      <3>2. Executing(s, {"load", "start"})'
        BY <3>1 DEF Executing
      <3>3. status[s] # "RUNNING"
        BY <1>4, <2>1, WaitingQueued DEF RowInv, BeginJob
      <3>4. QED
        BY <3>1, <3>2, <3>3 DEF Accounted
    <2>2. CASE LoadScan(w) /\ HasRow(s)
      <3>1. workerAt'[w] = "start" /\ workerScan'[w] = s /\ status' = status
        BY <1>4, <2>2 DEF LoadScan, GoTo, TypeOK, dbVars
      <3>2. Executing(s, {"load", "start"})' /\ status[s] # "RUNNING"
        BY <1>4, <2>2, <3>1 DEF Executing, RowInv, LoadScan
      <3>3. QED
        BY <3>1, <3>2 DEF Accounted
    <2>3. CASE LoadScan(w) /\ ~HasRow(s)
      BY <2>3 DEF LoadScan, HasRow, Accounted, dbVars
    <2>4. CASE StartScan(w)
      <3>1. workerAt'[w] = "exec" /\ workerScan'[w] = s /\ status'[s] = "RUNNING"
        BY <1>4, <2>4 DEF StartScan, WriteStatus, GoTo, TypeOK
      <3>2. QED
        BY <3>1 DEF Executing, Accounted
    <2>5. CASE RefuseScan(w) \/ CompleteScan(w) \/ FailScan(w)
      BY <1>4, <2>5 DEF RefuseScan, CompleteScan, FailScan, WriteStatus, Accounted, TypeOK
    <2>6. CASE LoseScan(w)
      <3>1. ~HasRow(s) /\ status' = status
        BY <1>4, <2>6 DEF LoseScan, dbVars
      <3>2. QED
        BY <3>1 DEF HasRow, Accounted
    <2>7. QED
      BY <1>4, <2>1, <2>2, <2>3, <2>4, <2>5, <2>6 DEF WorkerStep, TakeJob, EndJob
  <1>5. CASE ~(workerAt[w] \notin {"idle", "end"} /\ workerScan[w] = s)
    <2>1. ASSUME NEW places, places \subseteq {"load", "start", "exec"}, Executing(s, places)
          PROVE  Executing(s, places)'
      BY <1>3, <1>5, <2>1 DEF Executing
    <2>2. s \in queued => s \in queued'
      BY <1>5 DEF WorkerStep, TakeJob, BeginJob, LoadScan, StartScan, RefuseScan,
                  CompleteScan, FailScan, LoseScan, EndJob, WriteStatus, queueVars
    <2>3. status'[s] = status[s]
      BY <1>5 DEF WorkerStep, TakeJob, BeginJob, LoadScan, StartScan, RefuseScan,
                  CompleteScan, FailScan, LoseScan, EndJob, WriteStatus, dbVars, TypeOK
    <2>4. QED
      BY <1>2, <2>1, <2>2, <2>3 DEF Accounted
  <1>6. QED
    BY <1>4, <1>5

LEMMA StepAccountedFor ==
    ASSUME TypeOK, TypeOK', JobInv, FreshInv, RowInv, AccountedFor, [Next]_vars
    PROVE  AccountedFor'
  <1> SUFFICES ASSUME NEW s \in ScanId, s \notin lost'
               PROVE  Accounted(s)'
    BY DEF AccountedFor, Accounted
  <1>1. CASE \E k \in Caller : CallerStep(k)
    BY <1>1, AccountedByCaller
  <1>2. CASE \E w \in Worker : WorkerStep(w)
    BY <1>2, AccountedByWorker
  <1>3. ASSUME NEW c \in Cruise, DeleteCruise(c)
        PROVE  Accounted(s)'
    <2>1. CASE owner[s] = c
      BY <1>3, <2>1 DEF DeleteCruise, Accounted
    <2>2. CASE owner[s] # c
      <3>1. s \notin lost /\ status'[s] = status[s]
        BY <1>3, <2>2 DEF DeleteCruise, RowsOf
      <3>2. QED
        BY <1>3, <3>1 DEF DeleteCruise, AccountedFor, Accounted, Creating, Executing,
                          queueVars, callerVars, workerVars
    <2>3. QED
      BY <2>1, <2>2
  <1>4. ASSUME UNCHANGED <<status, lost, queued, callerVars, workerVars>>
        PROVE  Accounted(s)'
    BY <1>4 DEF AccountedFor, Accounted, Creating, Executing, callerVars, workerVars
  <1>5. ASSUME \/ \E r \in ScanId : AgeOut(r)
               \/ Shutdown \/ Startup \/ UNCHANGED vars
        PROVE  Accounted(s)'
    BY <1>4, <1>5 DEF AgeOut, Shutdown, Startup, vars, dbVars, queueVars
  <1>6. CASE Crash
    BY <1>6 DEF Crash, Accounted, dbVars, Unfinished
  <1>7. QED
    BY <1>1, <1>2, <1>3, <1>5, <1>6 DEF Next

\* As long as row ids are not reused, every QUEUED or RUNNING row is in the hands
\* of the thread that will change its status, unless that thread's process or
\* session died or the refresh or submission of the row raised.
THEOREM NothingForgotten ==
    ASSUME ~ReuseIds
    PROVE  Spec => []AccountedFor
  <1>1. TypeOK /\ TypeOK' /\ JobInv /\ FreshInv /\ RowInv /\ AccountedFor /\ [Next]_vars
           => AccountedFor'
    BY StepAccountedFor
  <1>2. Init => AccountedFor
    BY DEF Init, AccountedFor
  <1>3. Spec => []RowInv
    BY RowInvariant
  <1>4. QED
    BY <1>1, <1>2, <1>3, TypeCorrect, JobInvariant, FreshInvariant, PTL DEF Spec

------------------------------------------------------------------------------
(* The pipeline implements ScanLifecycle. *)

LEMMA WorkerImplements ==
    ASSUME TypeOK, JobInv, RowInv, NEW w \in Worker, WorkerStep(w)
    PROVE  Lifecycle!Next \/ UNCHANGED <<status, Jobs>>
  <1> USE DEF Lifecycle!Next
  <1> DEFINE s == workerScan[w]
  <1>1. CASE TakeJob(w) \/ BeginJob(w) \/ LoadScan(w) \/ LoseScan(w)
    <2>1. Jobs' = Jobs
      BY <1>1, TakeJobKeepsJobInv, BeginJobKeepsJobInv, SameJobsOfMove
    <2>2. QED
      BY <1>1, <2>1 DEF TakeJob, BeginJob, LoadScan, LoseScan, dbVars
  <1>2. CASE StartScan(w)
    <2>1. s \in ScanId /\ s \in Jobs /\ status[s] = "QUEUED"
      BY <1>2, WorkerAlone DEF StartScan, WriteStatus, HasRow, RowInv
    <2>2. Lifecycle!Start(s)
      BY <1>2, <2>1, SameJobsOfMove DEF StartScan, WriteStatus, Lifecycle!Start
    <2>3. QED
      BY <2>1, <2>2
  <1>3. CASE RefuseScan(w)
    <2>1. s \in ScanId /\ s \in Jobs /\ status[s] = "QUEUED"
      BY <1>3, WorkerAlone DEF RefuseScan, WriteStatus, HasRow, RowInv
    <2>2. Lifecycle!Refuse(s)
      BY <1>3, <2>1, SameJobsOfMove DEF RefuseScan, WriteStatus, Lifecycle!Refuse
    <2>3. QED
      BY <2>1, <2>2
  <1>4. CASE CompleteScan(w) \/ FailScan(w)
    <2>1. s \in ScanId /\ s \in Jobs /\ status[s] = "RUNNING"
      BY <1>4, WorkerAlone DEF CompleteScan, FailScan, WriteStatus, HasRow, RowInv
    <2>2. Lifecycle!Settle(s, "DONE") \/ Lifecycle!Settle(s, "FAILED")
      BY <1>4, <2>1, SameJobsOfMove DEF CompleteScan, FailScan, WriteStatus, Lifecycle!Settle
    <2>3. QED
      BY <2>1, <2>2
  <1>5. CASE EndJob(w)
    <2>1. s \in ScanId /\ s \in Jobs
      BY <1>5, WorkerAlone DEF EndJob
    <2>2. Lifecycle!Release(s)
      BY <1>5, <2>1, EndJobKeepsJobInv DEF EndJob, dbVars, Lifecycle!Release
    <2>3. QED
      BY <2>1, <2>2
  <1>6. QED
    BY <1>1, <1>2, <1>3, <1>4, <1>5 DEF WorkerStep

LEMMA CallerImplements ==
    ASSUME TypeOK, JobInv, FreshInv, RowInv, ~ReuseIds, NEW k \in Caller, CallerStep(k)
    PROVE  Lifecycle!Next \/ UNCHANGED <<status, Jobs>>
  <1> USE DEF Lifecycle!Next
  <1>1. CASE InsertScan(k)
    <2>1. nextId \in ScanId /\ status[nextId] = "none"
      BY <1>1 DEF InsertScan, NewId, RowInv, HasRow, ScanId
    <2>2. Jobs' = Jobs
      BY <1>1, SameJobs DEF InsertScan, queueVars, workerVars
    <2>3. Lifecycle!Create(nextId)
      BY <1>1, <2>1, <2>2 DEF InsertScan, NewId, Lifecycle!Create
    <2>4. QED
      BY <2>1, <2>3
  <1>2. CASE Submit(k) /\ callerScan[k] \notin running
    <2>1. callerScan[k] \in ScanId /\ callerScan[k] \notin stray
      BY <1>2, FreshScan DEF Submit, TypeOK
    <2>2. Jobs' = Jobs \cup {callerScan[k]} /\ callerScan[k] \notin Jobs
      BY <1>2, <2>1, SubmitKeepsJobInv DEF Submit, JobInv, RegisteredExactly
    <2>3. Lifecycle!Accept(callerScan[k])
      BY <1>2, <2>2 DEF Submit, dbVars, Lifecycle!Accept
    <2>4. QED
      BY <2>1, <2>3
  <1>3. CASE SubmitRaises(k)
    <2>1. callerScan[k] \in ScanId /\ UNCHANGED status
      BY <1>3 DEF SubmitRaises, TypeOK, dbVars
    <2>2. CASE Jobs' = Jobs
      BY <2>1, <2>2
    <2>3. CASE Jobs' = Jobs \cup {callerScan[k]}
      <3>1. Lifecycle!Accept(callerScan[k])
        BY <1>3, <2>1, <2>3, SubmitRaisesKeepsJobInv DEF Lifecycle!Accept
      <3>2. QED
        BY <2>1, <3>1
    <2>4. QED
      BY <1>3, <2>2, <2>3, SubmitRaisesKeepsJobInv
  <1>4. CASE ~InsertScan(k) /\ ~SubmitRaises(k) /\ ~(Submit(k) /\ callerScan[k] \notin running)
    <2>1. UNCHANGED <<status, work, workerScan, workerAt>>
      BY <1>4 DEF CallerStep, CheckRateLimit, InsertFails, Submit, RefreshFails, dbVars,
                  queueVars, workerVars
    <2>2. QED
      BY <2>1, SameJobs
  <1>5. QED
    BY <1>1, <1>2, <1>3, <1>4

LEMMA StepImplements ==
    ASSUME TypeOK, JobInv, FreshInv, RowInv, ~ReuseIds, [Next]_vars
    PROVE  [Lifecycle!Next]_<<status, Jobs>>
  <1>1. ASSUME NEW k \in Caller, CallerStep(k)
        PROVE  Lifecycle!Next \/ UNCHANGED <<status, Jobs>>
    BY <1>1, CallerImplements
  <1>2. ASSUME NEW w \in Worker, WorkerStep(w)
        PROVE  Lifecycle!Next \/ UNCHANGED <<status, Jobs>>
    BY <1>2, WorkerImplements
  <1>3. ASSUME NEW c \in Cruise, DeleteCruise(c)
        PROVE  Lifecycle!Next
    <2>1. Lifecycle!Remove(RowsOf(c))
      BY <1>3, SameJobs DEF DeleteCruise, RowsOf, queueVars, workerVars, Lifecycle!Remove
    <2>2. RowsOf(c) \in SUBSET ScanId
      BY DEF RowsOf
    <2>3. QED
      BY <2>1, <2>2 DEF Lifecycle!Next
  <1>4. CASE Crash
    BY <1>4, CrashKeepsJobInv DEF Crash, dbVars, Lifecycle!Next, Lifecycle!Die
  <1>5. CASE (\E s \in ScanId : AgeOut(s)) \/ Shutdown \/ Startup \/ UNCHANGED vars
    BY <1>5, SameJobs DEF AgeOut, Shutdown, Startup, vars, dbVars, queueVars, workerVars
  <1>6. QED
    BY <1>1, <1>2, <1>3, <1>4, <1>5 DEF Next

\* The queue implements the life cycle its users rely on, when row ids are not
\* reused: rows change only through a job of theirs, move forward only, and
\* DONE and FAILED are final.
THEOREM ImplementsLifecycle ==
    ASSUME ~ReuseIds
    PROVE  Spec => LifecycleSpec
  <1>1. Init => Lifecycle!Init
    BY InitJobs DEF Init, Lifecycle!Init
  <1>2. TypeOK /\ JobInv /\ FreshInv /\ RowInv /\ [Next]_vars => [Lifecycle!Next]_<<status, Jobs>>
    BY StepImplements
  <1>3. Spec => []RowInv
    BY RowInvariant
  <1>4. QED
    BY <1>1, <1>2, <1>3, TypeCorrect, JobInvariant, FreshInvariant, PTL
       DEF Spec, LifecycleSpec, Lifecycle!Spec, Lifecycle!lifecycleVars
==============================================================================
