----------------------------- MODULE Scheduler -----------------------------
(***************************************************************************)
(* Periodic checks: the tick of the scheduler (scheduler/service.py), the  *)
(* requests that change a cruise or ask for a scan (api/routes.py), and    *)
(* the next check a finished scan sets (scanner/runner.py,                 *)
(* _update_schedule), with one thread that executes scans in their order.  *)
(*                                                                         *)
(* Time goes in steps of CHECK_EVERY_MINUTES and is kept relative: next is *)
(* the time left until a cruise is due, and a scan counts for the daily    *)
(* limit as long as its own time is left, a day from its creation.         *)
(***************************************************************************)
EXTENDS Integers, FiniteSets, Sequences

CONSTANTS
    Cruise,
    Edited,       \* those whose settings requests change
    Asked,        \* those that requests ask a scan for
    Caller,       \* the threads that can be inside create_scan at once
    Ticker,       \* the one among them that runs the tick
    Interval,     \* the keys of INTERVAL_HOURS
    Length,       \* their lengths
    Day,          \* the window of check_rate_limit
    MaxPerDay,    \* MAX_SCANS_PER_CRUISE_PER_DAY
    MaxScanTicks, \* bound on how long a scan takes
    MaxMishaps,   \* bound on failing ticks, failing requests and crashes
    None          \* NULL

ASSUME EditedAssumption == Edited \subseteq Cruise /\ Asked \subseteq Cruise
ASSUME CallerAssumption == IsFiniteSet(Caller) /\ Ticker \in Caller
ASSUME LengthAssumption == Length \in [Interval -> Nat \ {0}]
ASSUME NumbersAssumption ==
    /\ Day \in Nat \ {0} /\ MaxPerDay \in Nat \ {0}
    /\ MaxScanTicks \in Nat /\ MaxMishaps \in Nat
ASSUME NamesAssumption ==
    "manual" \notin Interval /\ None \notin Nat /\ None \notin Cruise

VARIABLES
    interval,  \* schedule_interval
    monitored, \* monitoring_enabled
    next,      \* next_check_at
    callerAt,  \* where in create_scan a caller is
    callerFor, \* its argument `cruise'
    waiting,   \* the registered scans that have not started
    jobs,      \* the one that runs, with the cruise as it was loaded
    recent,    \* per cruise how many of the scans that no longer wait, or never
               \* did, have so much time left
    tick,      \* "idle", "due" or "running"
    todo,      \* the due cruises the tick has loaded and not yet reached
    mishaps    \* failures so far

settings == <<interval, monitored>>
callers == <<callerAt, callerFor>>
vars == <<settings, next, callers, waiting, jobs, recent, tick, todo, mishaps>>

-----------------------------------------------------------------------------

\* The cruises have just been created, with some interval.
Init ==
    /\ interval \in [Cruise -> Interval \cup {"manual"}]
    /\ monitored = [c \in Cruise |-> TRUE]
    /\ next = [c \in Cruise |-> None]
    /\ callerAt = [k \in Caller |-> "idle"]
    /\ callerFor = [k \in Caller |-> None]
    /\ waiting = <<>>
    /\ jobs = {}
    /\ recent = [c \in Cruise |-> [t \in 1 .. Day |-> 0]]
    /\ tick = "idle"
    /\ todo = {}
    /\ mishaps = 0

Watched(c) == monitored[c] /\ interval[c] \in Interval

Due(c) == Watched(c) /\ next[c] \in {0, None}

\* queue.status()["running"]
Registered == DOMAIN waiting # {} \/ jobs # {}

\* The scans of a cruise that were created within a day: those that have
\* started, or never will, told apart by a number,
Started(c) == UNION {{t} \X (1 .. recent[c][t]) : t \in 1 .. Day}

\* those that wait,
Waiting(c) == {i \in DOMAIN waiting : waiting[i].cruise = c /\ waiting[i].left > 0}

\* and those that are about to be submitted.
Committed(c) == {k \in Caller : callerAt[k] = "submit" /\ callerFor[k] = c}

\* what check_rate_limit counts: started_at is the time of the creation
Count(c) ==
    Cardinality(Started(c)) + Cardinality(Waiting(c)) + Cardinality(Committed(c))

WithinLimit(c) == Count(c) < MaxPerDay

-----------------------------------------------------------------------------
\* create_scan, run by requests and by the tick

Requests == Caller \ {Ticker}

Enter(k, place, c) ==
    /\ callerAt' = [callerAt EXCEPT ![k] = place]
    /\ callerFor' = [callerFor EXCEPT ![k] = c]

Return(k) == Enter(k, "idle", None)

\* A request for a scan, start_scan or the one in create_cruise, that is not
\* answered with RateLimitExceeded.
RequestScan(k, c) ==
    /\ callerAt[k] = "idle"
    /\ WithinLimit(c)
    /\ Enter(k, "insert", c)
    /\ UNCHANGED <<settings, next, waiting, jobs, recent, tick, todo, mishaps>>

\* Faulty variant: RateLimitExceeded ends the tick like any other exception.
CheckRateLimitEndsTick ==
    /\ callerAt[Ticker] = "check"
    /\ IF WithinLimit(callerFor[Ticker])
       THEN Enter(Ticker, "insert", callerFor[Ticker]) /\ UNCHANGED <<tick, todo>>
       ELSE Return(Ticker) /\ tick' = "idle" /\ todo' = {}
    /\ UNCHANGED <<settings, next, waiting, jobs, recent, mishaps>>

\* The tick: after RateLimitExceeded the next cruise has its turn.
CheckRateLimit ==
    /\ callerAt[Ticker] = "check"
    /\ IF WithinLimit(callerFor[Ticker])
       THEN Enter(Ticker, "insert", callerFor[Ticker])
       ELSE Return(Ticker)
    /\ UNCHANGED <<settings, next, waiting, jobs, recent, tick, todo, mishaps>>

\* The commit: the scan is counted from now on.
InsertScan(k) ==
    /\ callerAt[k] = "insert"
    /\ Enter(k, "submit", callerFor[k])
    /\ UNCHANGED <<settings, next, waiting, jobs, recent, tick, todo, mishaps>>

Submit(k) ==
    /\ callerAt[k] = "submit"
    /\ waiting' = Append(waiting,
           [cruise |-> callerFor[k], auto |-> k = Ticker, left |-> Day])
    /\ Return(k)
    /\ UNCHANGED <<settings, next, jobs, recent, tick, todo, mishaps>>

Mishap == mishaps < MaxMishaps /\ mishaps' = mishaps + 1

\* An exception leaves create_scan.  A scan that is committed stays as it is:
\* counted, and never submitted.
Abandon(k) ==
    /\ Return(k)
    /\ recent' = IF callerAt[k] = "submit"
                 THEN [recent EXCEPT ![callerFor[k]][Day] = @ + 1]
                 ELSE recent

RequestFails(k) ==
    /\ callerAt[k] # "idle"
    /\ Mishap
    /\ Abandon(k)
    /\ UNCHANGED <<settings, next, waiting, jobs, tick, todo>>

-----------------------------------------------------------------------------
\* Requests that change a cruise

\* A POST for a link that is known sets the interval and leaves next alone; the
\* scan it may ask for comes after that commit, as a RequestScan.
CreateCruise(c) ==
    /\ \E i \in Interval \cup {"manual"} : interval' = [interval EXCEPT ![c] = i]
    /\ UNCHANGED << monitored, next, callers, waiting, jobs, recent, tick, todo,
                    mishaps >>

\* A PATCH of both is one of each in a row.
UpdateCruise(c) ==
    /\ \/ /\ monitored' = [monitored EXCEPT ![c] = ~@]
          /\ UNCHANGED <<interval, next>>
       \/ \E i \in Interval \cup {"manual"} :
              /\ interval' = [interval EXCEPT ![c] = i]
              /\ next' = [next EXCEPT ![c] =
                     IF i = "manual" THEN None ELSE IF @ = None THEN 0 ELSE @]
              /\ UNCHANGED monitored
    /\ UNCHANGED <<callers, waiting, jobs, recent, tick, todo, mishaps>>

-----------------------------------------------------------------------------
\* The tick

LoadCruises ==
    /\ tick = "due"
    /\ tick' = "running"
    /\ todo' = {c \in Cruise : Due(c)}
    /\ UNCHANGED <<settings, next, callers, waiting, jobs, recent, mishaps>>

\* Faulty variant: the queue is not asked again for every cruise.
AskQueueNot(c) ==
    /\ tick = "running" /\ callerAt[Ticker] = "idle"
    /\ c \in todo
    /\ Enter(Ticker, "check", c)
    /\ todo' = todo \ {c}
    /\ UNCHANGED <<settings, next, waiting, jobs, recent, tick, mishaps>>

\* No scan is registered, and the tick goes on to create one for c, whatever the
\* requests do meanwhile.  The cruises loaded come in any order.
AskQueue(c) ==
    /\ tick = "running" /\ callerAt[Ticker] = "idle"
    /\ c \in todo
    /\ ~Registered
    /\ Enter(Ticker, "check", c)
    /\ todo' = todo \ {c}
    /\ UNCHANGED <<settings, next, waiting, jobs, recent, tick, mishaps>>

\* Nothing is left, or the tick gives way to a scan.
EndTick ==
    /\ tick = "running" /\ callerAt[Ticker] = "idle"
    /\ todo = {} \/ Registered
    /\ tick' = "idle"
    /\ todo' = {}
    /\ UNCHANGED <<settings, next, callers, waiting, jobs, recent, mishaps>>

\* Any other exception drops what is left.
TickFails ==
    /\ tick = "running"
    /\ Mishap
    /\ Abandon(Ticker)
    /\ tick' = "idle"
    /\ todo' = {}
    /\ UNCHANGED <<settings, next, waiting, jobs>>

-----------------------------------------------------------------------------
\* The scan

StartJob ==
    LET w == Head(waiting) IN
        /\ jobs' = jobs \cup {[cruise |-> w.cruise, auto |-> w.auto,
                               interval |-> interval[w.cruise],
                               monitored |-> monitored[w.cruise],
                               set |-> next[w.cruise] # None,
                               age |-> 0]}
        /\ recent' = IF w.left = 0 THEN recent
                     ELSE [recent EXCEPT ![w.cruise][w.left] = @ + 1]
        /\ waiting' = Tail(waiting)

\* Faulty variant: one more thread than MAX_CONCURRENT_SCANS.
BeginScanAnyway ==
    /\ Cardinality(jobs) <= 1
    /\ waiting # <<>>
    /\ StartJob
    /\ UNCHANGED <<settings, next, callers, tick, todo, mishaps>>

\* execute_scan loads the cruise once.  The scan keeps the time of its creation,
\* and counts for as long as is left of its day.
BeginScan ==
    /\ jobs = {}
    /\ waiting # <<>>
    /\ StartJob
    /\ UNCHANGED <<settings, next, callers, tick, todo, mishaps>>

\* Faulty variant: runner.py has a table of its own, and it is out of date.
UpdateScheduleDaily(j) ==
    next' = [next EXCEPT ![j.cruise] =
        IF j.interval \in Interval /\ j.monitored
        THEN Length[CHOOSE i \in Interval : \A k \in Interval : Length[k] <= Length[i]]
        ELSE IF j.set THEN None
        ELSE @]

\* The session has the cruise as it was; NULL for a NULL is not written.
UpdateSchedule(j) ==
    next' = [next EXCEPT ![j.cruise] =
        IF j.interval \in Interval /\ j.monitored THEN Length[j.interval]
        ELSE IF j.set THEN None
        ELSE @]

CompleteScan ==
    /\ \E j \in jobs : UpdateSchedule(j)
    /\ jobs' = {}
    /\ UNCHANGED <<settings, callers, waiting, recent, tick, todo, mishaps>>

\* Faulty variant: the thread tries a scan that failed again and again.
FailScanRetries ==
    /\ jobs # {}
    /\ jobs' = {[j EXCEPT !.age = 0] : j \in jobs}
    /\ UNCHANGED <<settings, next, callers, waiting, recent, tick, todo, mishaps>>

\* A scan that fails leaves the schedule as it is.
FailScan ==
    /\ jobs # {}
    /\ jobs' = {}
    /\ UNCHANGED <<settings, next, callers, waiting, recent, tick, todo, mishaps>>

-----------------------------------------------------------------------------
\* Time and failures

Less(t) == IF t \in {0, None} THEN t ELSE t - 1

\* those that still count after one more step
Aged(h) == [t \in 1 .. Day |-> IF t < Day THEN h[t + 1] ELSE 0]

\* A tick, a request, and the start of a scan on an idle thread take less than a
\* step.
Pass ==
    /\ tick = "idle"
    /\ \A k \in Caller : callerAt[k] = "idle"
    /\ jobs = {} => waiting = <<>>
    /\ \A j \in jobs : j.age < MaxScanTicks
    /\ next' = [c \in Cruise |-> Less(next[c])]
    /\ waiting' = [i \in DOMAIN waiting |->
                      [waiting[i] EXCEPT !.left = Less(@)]]
    /\ jobs' = {[j EXCEPT !.age = @ + 1] : j \in jobs}
    /\ recent' = [c \in Cruise |-> Aged(recent[c])]
    /\ tick' = "due"
    /\ UNCHANGED <<settings, callers, todo, mishaps>>

\* The process ends and starts again: no scan is resumed, but those that
\* waited or were about to are still counted.
Crash ==
    /\ Mishap
    /\ recent' = [c \in Cruise |->
           [t \in 1 .. Day |->
               recent[c][t]
               + Cardinality({i \in Waiting(c) : waiting[i].left = t})
               + IF t = Day THEN Cardinality(Committed(c)) ELSE 0]]
    /\ callerAt' = [k \in Caller |-> "idle"]
    /\ callerFor' = [k \in Caller |-> None]
    /\ waiting' = <<>>
    /\ jobs' = {}
    /\ tick' = "idle"
    /\ todo' = {}
    /\ UNCHANGED <<settings, next>>

Scheduling ==
    \/ LoadCruises
    \/ \E c \in Cruise : AskQueue(c)
    \/ CheckRateLimit \/ InsertScan(Ticker) \/ Submit(Ticker)
    \/ EndTick

Next ==
    \/ \E c \in Edited : CreateCruise(c) \/ UpdateCruise(c)
    \/ \E k \in Requests :
        \/ \E c \in Asked : RequestScan(k, c)
        \/ InsertScan(k) \/ Submit(k) \/ RequestFails(k)
    \/ Scheduling \/ TickFails
    \/ BeginScan \/ CompleteScan \/ FailScan
    \/ Pass
    \/ Crash

Spec == Init /\ [][Next]_vars

\* The scheduler's thread, those of the requests, the thread of the queue and the
\* clock go on; whether a scan succeeds is up to the site.
FairSpec ==
    /\ Spec
    /\ WF_vars(Scheduling)
    /\ \A k \in Requests : WF_vars(InsertScan(k) \/ Submit(k))
    /\ WF_vars(BeginScan)
    /\ WF_vars(CompleteScan \/ FailScan)
    /\ WF_vars(Pass)

-----------------------------------------------------------------------------
\* Properties

Names == Interval \cup {"manual"}
Lengths == {Length[i] : i \in Interval}
Within(n) == \E l \in Lengths : n \in 0 .. l

\* The types; one scan runs at a time and none outlasts its bound.
TypeOK ==
    /\ interval \in [Cruise -> Names]
    /\ monitored \in [Cruise -> BOOLEAN]
    /\ DOMAIN next = Cruise
    /\ \A c \in Cruise : next[c] = None \/ Within(next[c])
    /\ callerAt \in [Caller -> {"idle", "check", "insert", "submit"}]
    /\ \A k \in Caller : callerAt[k] # "idle" => callerFor[k] \in Cruise
    /\ callerFor \in [Caller -> Cruise \cup {None}]
    /\ tick # "running" => callerAt[Ticker] = "idle"
    /\ waiting \in Seq([cruise: Cruise, auto: BOOLEAN, left: 0 .. Day])
    /\ jobs \subseteq [cruise: Cruise, auto: BOOLEAN, interval: Names,
                       monitored: BOOLEAN, set: BOOLEAN, age: 0 .. MaxScanTicks]
    /\ Cardinality(jobs) <= 1
    /\ recent \in [Cruise -> [1 .. Day -> Nat]]
    /\ tick \in {"idle", "due", "running"}
    /\ todo \subseteq Cruise
    /\ mishaps \in 0 .. MaxMishaps

\* scheduler/service.py:100: however requests and the ends of scans fall
\* between the question to the queue, the creation and the next cruise of a tick,
\* at most one of the scans that wait or run was put there by the scheduler.
OneScheduledAtATime ==
    /\ \A i, k \in DOMAIN waiting : waiting[i].auto /\ waiting[k].auto => i = k
    /\ \A i \in DOMAIN waiting, j \in jobs : ~(waiting[i].auto /\ j.auto)

\* models.py:118: a scan counts for a day from its creation, not from its visit
\* to the site.  All the same the queue does not hold a scan so long that it is
\* no longer counted when it starts, although a tick and requests that check at
\* the same time pass the limit together.
CountedAtStart == \A i \in DOMAIN waiting : waiting[i].left > 0

\* scheduler/service.py:100 and :111: a watched cruise is visited again and
\* again, although a tick gives way to any scan and may always begin with the
\* same cruise, and although the scans of others may always fail and leave them
\* due.  It holds while the scans of the others, each of which keeps the ticks
\* off for up to MaxScanTicks + 1 steps, cannot fill a day: Day is larger than
\* (Cardinality(Cruise) - 1) * (MaxPerDay + Cardinality(Caller) - 1)
\*     * (MaxScanTicks + 1).
WatchedVisited ==
    \A c \in Cruise : []<>(~Watched(c) \/ \E j \in jobs : j.cruise = c)

\* runner.py:441: a next check computed from an interval that was changed
\* during the scan is corrected once the settings stay as they are.
StaleScheduleHeals ==
    \A c \in Cruise :
        <>[][UNCHANGED settings]_vars =>
            <>[](Watched(c) => next[c] = None \/ next[c] <= Length[interval[c]])
=============================================================================
