-------------------------- MODULE Scheduler_proofs --------------------------
(***************************************************************************)
(* Proofs about Scheduler, for any number of cruises, callers, intervals,  *)
(* limits and time steps.                                                  *)
(*                                                                         *)
(* The invariant is OneScheduledAtATime, with the types it rests on and    *)
(* with what the tick knows from its question to the queue: while it       *)
(* creates a scan, no other scan of the scheduler waits or runs.           *)
(***************************************************************************)
EXTENDS Scheduler, FiniteSetTheorems, FunctionTheorems, TLAPS

Entry == [cruise: Cruise, auto: BOOLEAN, left: 0 .. Day]
Job == [cruise: Cruise, auto: BOOLEAN, interval: Names, monitored: BOOLEAN,
        set: BOOLEAN, age: 0 .. MaxScanTicks]

CallerTypes ==
    /\ callerAt \in [Caller -> {"idle", "check", "insert", "submit"}]
    /\ callerFor \in [Caller -> Cruise \cup {None}]
    /\ \A k \in Caller : callerAt[k] # "idle" => callerFor[k] \in Cruise

Types ==
    /\ interval \in [Cruise -> Names]
    /\ monitored \in [Cruise -> BOOLEAN]
    /\ CallerTypes
    /\ tick # "running" => callerAt[Ticker] = "idle"
    /\ waiting \in Seq(Entry)
    /\ jobs \subseteq Job
    /\ \A j, k \in jobs : j = k
    /\ todo \subseteq Cruise

NoneScheduled ==
    /\ \A i \in DOMAIN waiting : ~waiting[i].auto
    /\ \A j \in jobs : ~j.auto

TickAlone == callerAt[Ticker] # "idle" => NoneScheduled

Inv == Types /\ TickAlone /\ OneScheduledAtATime

LEMMA InitInv == Init => Inv
  BY CallerAssumption
  DEF Init, Inv, Types, CallerTypes, Names, TickAlone, OneScheduledAtATime

\* Where a caller goes, and nobody else does.
LEMMA EnterTypes ==
    ASSUME CallerTypes, NEW k \in Caller,
           NEW place \in {"idle", "check", "insert", "submit"}, NEW c,
           c \in Cruise \/ (place = "idle" /\ c = None), Enter(k, place, c)
    PROVE  /\ CallerTypes'
           /\ callerAt'[k] = place /\ callerFor'[k] = c
           /\ \A l \in Caller \ {k} :
                  callerAt'[l] = callerAt[l] /\ callerFor'[l] = callerFor[l]
  BY DEF CallerTypes, Enter

\* Steps of callers and of the tick that leave the queue and its thread alone.
LEMMA CallerKeeps ==
    ASSUME Inv, CallerTypes', UNCHANGED <<interval, monitored, waiting, jobs>>,
           todo' \subseteq Cruise,
           tick' # "running" => callerAt'[Ticker] = "idle",
           callerAt'[Ticker] # "idle" =>
               callerAt[Ticker] # "idle" \/ ~Registered
    PROVE  Inv'
  <1>1. ~Registered => NoneScheduled
    BY DEF Registered, NoneScheduled
  <1>2. TickAlone'
    BY <1>1 DEF Inv, TickAlone, NoneScheduled
  <1> QED BY <1>2 DEF Inv, Types, OneScheduledAtATime

\* A scan joins the queue; one of the scheduler's finds no other there.
LEMMA SubmitKeeps ==
    ASSUME Inv, NEW k \in Caller, Submit(k)
    PROVE  Inv'
  <1> DEFINE w == [cruise |-> callerFor[k], auto |-> k = Ticker, left |-> Day]
  <1>1. w \in Entry /\ w.auto = (k = Ticker)
    BY NumbersAssumption DEF Entry, Submit, Inv, Types, CallerTypes
  <1>2. waiting' = Append(waiting, w)
    BY DEF Submit
  <1>3. k = Ticker => NoneScheduled
    BY DEF Submit, Inv, TickAlone
  <1> HIDE DEF w
  <1>4. /\ waiting' \in Seq(Entry)
        /\ \A i \in DOMAIN waiting' :
               \/ i \in DOMAIN waiting /\ waiting'[i] = waiting[i]
               \/ i = Len(waiting) + 1 /\ waiting'[i] = w
    BY <1>1, <1>2 DEF Inv, Types
  <1>5. /\ CallerTypes' /\ callerAt'[k] = "idle"
        /\ \A l \in Caller \ {k} : callerAt'[l] = callerAt[l]
    BY EnterTypes DEF Submit, Return, Inv, Types
  <1>6. UNCHANGED <<interval, monitored, jobs, tick, todo>>
    BY DEF Submit, settings
  <1>7. OneScheduledAtATime'
    <2>1. CASE k = Ticker
      BY <1>3, <1>4, <1>6, <2>1 DEF NoneScheduled, OneScheduledAtATime
    <2>2. CASE k # Ticker
      BY <1>1, <1>4, <1>6, <2>2 DEF Inv, OneScheduledAtATime
    <2> QED BY <2>1, <2>2
  <1>8. TickAlone'
    <2>1. CASE k = Ticker
      BY <1>5, <2>1 DEF TickAlone
    <2>2. CASE k # Ticker
      <3>1. callerAt'[Ticker] = callerAt[Ticker]
        BY <1>5, <2>2, CallerAssumption
      <3> QED BY <1>1, <1>4, <1>6, <2>2, <3>1 DEF Inv, TickAlone, NoneScheduled
    <2> QED BY <2>1, <2>2
  <1>9. tick' # "running" => callerAt'[Ticker] = "idle"
    BY <1>5, <1>6, CallerAssumption DEF Inv, Types
  <1> QED BY <1>4, <1>5, <1>6, <1>7, <1>8, <1>9 DEF Inv, Types

\* The thread of the queue takes the scan in front.
LEMMA BeginKeeps ==
    ASSUME Inv, BeginScan
    PROVE  Inv'
  <1> DEFINE w == waiting[1]
             j == [cruise |-> w.cruise, auto |-> w.auto,
                   interval |-> interval[w.cruise],
                   monitored |-> monitored[w.cruise],
                   set |-> next[w.cruise] # None,
                   age |-> 0]
  <1>1. /\ waiting \in Seq(Entry) /\ Len(waiting) > 0 /\ 1 \in DOMAIN waiting
        /\ w \in Entry /\ Head(waiting) = w
    BY DEF BeginScan, Inv, Types
  <1>2. jobs' = {j}
    BY <1>1 DEF BeginScan, StartJob
  <1>3. j \in Job /\ j.auto = w.auto
    BY <1>1, NumbersAssumption DEF Entry, Job, Inv, Types
  <1>4. /\ waiting' \in Seq(Entry)
        /\ \A i \in DOMAIN waiting' :
               i + 1 \in DOMAIN waiting /\ waiting'[i] = waiting[i + 1]
        /\ \A i \in DOMAIN waiting' : i \in Nat \ {0}
    BY <1>1 DEF BeginScan, StartJob
  <1>8. UNCHANGED <<interval, monitored, callerAt, callerFor, tick, todo>>
    BY DEF BeginScan, settings, callers
  <1>9. TickAlone'
    BY <1>1, <1>2, <1>3, <1>4, <1>8 DEF Inv, TickAlone, NoneScheduled
  <1> HIDE DEF j, w
  <1>5. ASSUME NEW i \in DOMAIN waiting', NEW k \in DOMAIN waiting',
               waiting'[i].auto, waiting'[k].auto
        PROVE  i = k
    <2>1. i + 1 = k + 1
      BY <1>4, <1>5 DEF Inv, OneScheduledAtATime
    <2> QED BY <1>4, <2>1
  <1>6. ASSUME NEW i \in DOMAIN waiting', waiting'[i].auto, j.auto
        PROVE  FALSE
    <2>1. i + 1 = 1
      BY <1>1, <1>3, <1>4, <1>6 DEF w, Inv, OneScheduledAtATime
    <2> QED BY <1>4, <2>1
  <1>7. OneScheduledAtATime'
    BY <1>2, <1>5, <1>6 DEF OneScheduledAtATime
  <1> QED BY <1>2, <1>3, <1>4, <1>7, <1>8, <1>9 DEF Inv, Types, CallerTypes

\* Time changes nothing about who asked for a scan.
LEMMA PassKeeps ==
    ASSUME Inv, Pass
    PROVE  Inv'
  <1>1. /\ waiting' = [i \in DOMAIN waiting |->
                         [waiting[i] EXCEPT !.left = Less(waiting[i].left)]]
        /\ jobs' = {[j EXCEPT !.age = j.age + 1] : j \in jobs}
        /\ UNCHANGED <<interval, monitored, callerAt, callerFor, todo>>
        /\ callerAt[Ticker] = "idle"
        /\ \A j \in jobs : j.age < MaxScanTicks
    BY CallerAssumption DEF Pass, settings, callers
  <1>2. ASSUME NEW w \in Entry
        PROVE  /\ [w EXCEPT !.left = Less(w.left)] \in Entry
               /\ [w EXCEPT !.left = Less(w.left)].auto = w.auto
    <2>1. Less(w.left) \in 0 .. Day
      BY NumbersAssumption DEF Entry, Less
    <2> QED BY <2>1 DEF Entry
  <1>3. /\ waiting' \in Seq(Entry)
        /\ DOMAIN waiting' = DOMAIN waiting
        /\ \A i \in DOMAIN waiting : waiting'[i].auto = waiting[i].auto
    <2>1. \A i \in DOMAIN waiting : waiting[i] \in Entry
      BY DEF Inv, Types
    <2>2. /\ DOMAIN waiting = 1 .. Len(waiting) /\ Len(waiting) \in Nat
      BY DEF Inv, Types
    <2>3. \A i \in DOMAIN waiting :
              /\ waiting'[i] \in Entry
              /\ waiting'[i].auto = waiting[i].auto
      BY <1>1, <1>2, <2>1
    <2>4. DOMAIN waiting' = DOMAIN waiting
      BY <1>1
    <2>5. waiting' \in [1 .. Len(waiting) -> Entry]
      BY <1>1, <2>2, <2>3
    <2>6. waiting' \in Seq(Entry)
      BY <2>2, <2>5
    <2> QED BY <2>3, <2>4, <2>6
  <1>4. ASSUME NEW j \in jobs
        PROVE  /\ [j EXCEPT !.age = j.age + 1] \in Job
               /\ [j EXCEPT !.age = j.age + 1].auto = j.auto
    BY <1>1, NumbersAssumption DEF Inv, Types, Job
  <1>5. /\ jobs' \subseteq Job
        /\ \A j, k \in jobs' : j = k
        /\ \A j \in jobs' : \E k \in jobs : j.auto = k.auto
    BY <1>1, <1>4 DEF Inv, Types
  <1>6. OneScheduledAtATime'
    BY <1>3, <1>5 DEF Inv, OneScheduledAtATime
  <1> QED BY <1>1, <1>3, <1>5, <1>6 DEF Inv, Types, CallerTypes, TickAlone

LEMMA NextInv == Inv /\ [Next]_vars => Inv'
  <1> SUFFICES ASSUME Inv, [Next]_vars PROVE Inv'
    OBVIOUS
  <1> USE DEF settings, callers
  <1>1. ASSUME NEW c \in Edited, CreateCruise(c) \/ UpdateCruise(c)
        PROVE  Inv'
    <2>1. interval' \in [Cruise -> Names] /\ monitored' \in [Cruise -> BOOLEAN]
      BY <1>1, EditedAssumption
      DEF CreateCruise, UpdateCruise, Inv, Types, Names
    <2>2. UNCHANGED <<callerAt, callerFor, waiting, jobs, tick, todo>>
      BY <1>1 DEF CreateCruise, UpdateCruise
    <2> QED BY <2>1, <2>2
            DEF Inv, Types, CallerTypes, TickAlone, NoneScheduled,
                OneScheduledAtATime
  <1>2. ASSUME NEW k \in Requests, NEW c \in Asked, RequestScan(k, c)
        PROVE  Inv'
    <2>1. k \in Caller \ {Ticker} /\ c \in Cruise
      BY EditedAssumption DEF Requests
    <2>2. CallerTypes' /\ callerAt'[Ticker] = callerAt[Ticker]
      BY <1>2, <2>1, EnterTypes, CallerAssumption DEF RequestScan, Inv, Types
    <2>3. UNCHANGED <<interval, monitored, waiting, jobs, tick, todo>>
      BY <1>2 DEF RequestScan
    <2> QED BY <2>2, <2>3, CallerKeeps DEF Inv, Types
  <1>3. ASSUME NEW k \in Caller, InsertScan(k)
        PROVE  Inv'
    <2>1. callerAt[k] = "insert" /\ callerFor[k] \in Cruise
      BY <1>3 DEF InsertScan, Inv, Types, CallerTypes
    <2>2. /\ CallerTypes'
          /\ callerAt'[Ticker] # "idle" => callerAt[Ticker] # "idle"
          /\ callerAt[Ticker] = "idle" => callerAt'[Ticker] = "idle"
      BY <1>3, <2>1, EnterTypes, CallerAssumption DEF InsertScan, Inv, Types
    <2>3. UNCHANGED <<interval, monitored, waiting, jobs, tick, todo>>
      BY <1>3 DEF InsertScan
    <2> QED BY <2>2, <2>3, CallerKeeps DEF Inv, Types
  <1>4. ASSUME NEW k \in Requests, RequestFails(k)
        PROVE  Inv'
    <2>1. k \in Caller \ {Ticker}
      BY DEF Requests
    <2>2. CallerTypes' /\ callerAt'[Ticker] = callerAt[Ticker]
      BY <1>4, <2>1, EnterTypes, CallerAssumption
      DEF RequestFails, Abandon, Return, Inv, Types
    <2>3. UNCHANGED <<interval, monitored, waiting, jobs, tick, todo>>
      BY <1>4 DEF RequestFails
    <2> QED BY <2>2, <2>3, CallerKeeps DEF Inv, Types
  <1>5. ASSUME NEW c \in Cruise, AskQueue(c)
        PROVE  Inv'
    <2>1. CallerTypes'
      BY <1>5, EnterTypes, CallerAssumption DEF AskQueue, Inv, Types
    <2>2. /\ UNCHANGED <<interval, monitored, waiting, jobs, tick>>
          /\ tick = "running" /\ ~Registered /\ todo' \subseteq Cruise
      BY <1>5 DEF AskQueue, Inv, Types
    <2> QED BY <2>1, <2>2, CallerKeeps
  <1>6. CASE CheckRateLimit
    <2>1. callerAt[Ticker] = "check" /\ callerFor[Ticker] \in Cruise
      BY <1>6, CallerAssumption DEF CheckRateLimit, Inv, Types, CallerTypes
    <2>2. CallerTypes'
      BY <1>6, <2>1, EnterTypes, CallerAssumption
      DEF CheckRateLimit, Return, Inv, Types
    <2>3. UNCHANGED <<interval, monitored, waiting, jobs, tick, todo>>
      BY <1>6 DEF CheckRateLimit
    <2>4. tick = "running"
      BY <2>1 DEF Inv, Types
    <2> QED BY <2>1, <2>2, <2>3, <2>4, CallerKeeps DEF Inv, Types
  <1>7. CASE LoadCruises \/ EndTick
    <2>1. /\ UNCHANGED <<interval, monitored, callerAt, callerFor, waiting, jobs>>
          /\ callerAt[Ticker] = "idle" /\ todo' \subseteq Cruise
      BY <1>7 DEF LoadCruises, EndTick, Inv, Types
    <2>2. CallerTypes'
      BY <2>1 DEF Inv, Types, CallerTypes
    <2> QED BY <2>1, <2>2, CallerKeeps
  <1>8. CASE TickFails
    <2>1. CallerTypes' /\ callerAt'[Ticker] = "idle"
      BY <1>8, EnterTypes, CallerAssumption
      DEF TickFails, Abandon, Return, Inv, Types
    <2>2. UNCHANGED <<interval, monitored, waiting, jobs>> /\ todo' \subseteq Cruise
      BY <1>8 DEF TickFails
    <2> QED BY <2>1, <2>2, CallerKeeps
  <1>9. CASE CompleteScan \/ FailScan
    BY <1>9
    DEF CompleteScan, FailScan, Inv, Types, CallerTypes, TickAlone,
        NoneScheduled, OneScheduledAtATime
  <1>10. CASE Crash
    BY <1>10, CallerAssumption
    DEF Crash, Inv, Types, CallerTypes, TickAlone, OneScheduledAtATime
  <1>11. CASE UNCHANGED vars
    BY <1>11
    DEF vars, Inv, Types, CallerTypes, TickAlone, NoneScheduled,
        OneScheduledAtATime
  <1> QED
    BY <1>1, <1>2, <1>3, <1>4, <1>5, <1>6, <1>7, <1>8, <1>9, <1>10, <1>11,
       SubmitKeeps, BeginKeeps, PassKeeps, CallerAssumption
    DEF Next, Scheduling, Requests

\* service.py:100: at most one of the scans that wait or run is one of the
\* scheduler's, whatever the requests do between the question and the creation.
THEOREM ScheduledOnce == Spec => []OneScheduledAtATime
  <1>1. Inv => OneScheduledAtATime
    BY DEF Inv
  <1> QED BY <1>1, InitInv, NextInv, PTL DEF Spec

-----------------------------------------------------------------------------
\* Counting

\* What is finite in every part of few parts is finite and small.
LEMMA Fibres ==
    ASSUME NEW S, IsFiniteSet(S), NEW T, IsFiniteSet(T), NEW f \in [S -> T],
           NEW m \in Nat,
           \A t \in T : Cardinality({s \in S : f[s] = t}) <= m
    PROVE  Cardinality(S) <= Cardinality(T) * m
  <1> DEFINE Part(t) == {s \in S : f[s] = t}
             number == [t \in T |->
                 CHOOSE b : b \in Bijection(Part(t), 1 .. Cardinality(Part(t)))]
             g == [s \in S |-> <<f[s], number[f[s]][s]>>]
  <1>1. ASSUME NEW t \in T
        PROVE  /\ Cardinality(Part(t)) \in 0 .. m
               /\ number[t] \in Bijection(Part(t), 1 .. Cardinality(Part(t)))
    <2>1. IsFiniteSet(Part(t))
      BY FS_Subset
    <2>2. /\ Cardinality(Part(t)) \in Nat
          /\ ExistsBijection(1 .. Cardinality(Part(t)), Part(t))
      BY <2>1, FS_CardinalityType
    <2>3. ExistsBijection(Part(t), 1 .. Cardinality(Part(t)))
      BY <2>2, Fun_ExistsBijSymmetric
    <2>4. PICK b : b \in Bijection(Part(t), 1 .. Cardinality(Part(t)))
      BY <2>3, Fun_ExistsBij
    <2>5. number[t] \in Bijection(Part(t), 1 .. Cardinality(Part(t)))
      BY <2>4
    <2> QED BY <2>2, <2>5
  <1> HIDE DEF number, Part
  <1>2. ASSUME NEW t \in T, NEW s \in Part(t)
        PROVE  number[t][s] \in 1 .. m
    <2>1. number[t] \in [Part(t) -> 1 .. Cardinality(Part(t))]
      BY <1>1, Fun_BijectionProperties
    <2>2. number[t][s] \in 1 .. Cardinality(Part(t))
      BY <2>1
    <2> QED BY <1>1, <2>2
  <1>3. ASSUME NEW t \in T, NEW s \in Part(t), NEW r \in Part(t),
               number[t][s] = number[t][r]
        PROVE  s = r
    BY <1>1, <1>3, Fun_BijectionProperties
  <1>4. g \in [S -> T \X (1 .. m)]
    <2>1. ASSUME NEW s \in S PROVE g[s] \in T \X (1 .. m)
      <3>1. f[s] \in T /\ s \in Part(f[s])
        BY DEF Part
      <3>2. number[f[s]][s] \in 1 .. m
        BY <1>2, <3>1
      <3> QED BY <3>1, <3>2
    <2> QED BY <2>1
  <1>5. ASSUME NEW s \in S, NEW r \in S, g[s] = g[r]
        PROVE  s = r
    <2>1. f[s] = f[r] /\ number[f[s]][s] = number[f[s]][r]
      BY <1>5
    <2>2. f[s] \in T /\ s \in Part(f[s]) /\ r \in Part(f[s])
      BY <2>1 DEF Part
    <2> QED BY <1>3, <2>1, <2>2
  <1>6. g \in Injection(S, T \X (1 .. m))
    BY <1>4, <1>5, Fun_IsInj
  <1>7. IsFiniteSet(1 .. m) /\ Cardinality(1 .. m) = m
    BY FS_Interval
  <1>8. /\ IsFiniteSet(T \X (1 .. m))
        /\ Cardinality(T \X (1 .. m)) = Cardinality(T) * m
    BY <1>7, FS_Product
  <1> HIDE DEF g
  <1> QED BY <1>6, <1>8, FS_Injection

-----------------------------------------------------------------------------
\* Histograms

Pairs(h) == UNION {{t} \X (1 .. h[t]) : t \in 1 .. Day}
Histogram == [1 .. Day -> Nat]

LEMMA PairsMember ==
    ASSUME NEW h, NEW t, NEW n
    PROVE  <<t, n>> \in Pairs(h) <=> t \in 1 .. Day /\ n \in 1 .. h[t]
  BY DEF Pairs

LEMMA PairsElement ==
    ASSUME NEW h, NEW p \in Pairs(h)
    PROVE  p = <<p[1], p[2]>> /\ p[1] \in 1 .. Day /\ p[2] \in 1 .. h[p[1]]
  BY DEF Pairs

LEMMA PairsFinite ==
    ASSUME NEW h \in Histogram
    PROVE  IsFiniteSet(Pairs(h)) /\ Cardinality(Pairs(h)) \in Nat
  <1> DEFINE part == [t \in 1 .. Day |-> {t} \X (1 .. h[t])]
             Parts == {{t} \X (1 .. h[t]) : t \in 1 .. Day}
  <1>1. part \in Surjection(1 .. Day, Parts)
    <2>1. part \in [1 .. Day -> Parts]
      OBVIOUS
    <2>2. \A q \in Parts : \E t \in 1 .. Day : part[t] = q
      OBVIOUS
    <2> QED BY <2>1, <2>2, Fun_IsSurj
  <1>2. IsFiniteSet(1 .. Day)
    BY NumbersAssumption, FS_Interval
  <1>3. IsFiniteSet(Parts)
    BY <1>1, <1>2, FS_Surjection
  <1>4. ASSUME NEW q \in Parts PROVE IsFiniteSet(q)
    <2>1. PICK t \in 1 .. Day : q = {t} \X (1 .. h[t])
      OBVIOUS
    <2>2. h[t] \in Nat
      BY DEF Histogram
    <2>3. IsFiniteSet({t})
      BY FS_Singleton
    <2>4. IsFiniteSet(1 .. h[t])
      BY <2>2, FS_Interval
    <2> QED BY <2>1, <2>3, <2>4, FS_Product
  <1>5. IsFiniteSet(Pairs(h))
    BY <1>3, <1>4, FS_UNION DEF Pairs
  <1> QED BY <1>5, FS_CardinalityType

\* One more scan with the time t left.
LEMMA PairsAdded ==
    ASSUME NEW h \in Histogram, NEW t \in 1 .. Day
    PROVE  /\ [h EXCEPT ![t] = @ + 1] \in Histogram
           /\ Cardinality(Pairs([h EXCEPT ![t] = @ + 1]))
                  = Cardinality(Pairs(h)) + 1
  <1> DEFINE k == [h EXCEPT ![t] = @ + 1]
             p == <<t, h[t] + 1>>
  <1>2. /\ k \in [1 .. Day -> Nat]
        /\ \A s \in 1 .. Day : k[s] = IF s = t THEN h[s] + 1 ELSE h[s]
        /\ \A s \in 1 .. Day : h[s] \in Nat
    BY DEF Histogram
  <1> HIDE DEF k
  <1>3. ASSUME NEW q \in Pairs(k) PROVE q \in Pairs(h) \cup {p}
    <2>1. q = <<q[1], q[2]>> /\ q[1] \in 1 .. Day /\ q[2] \in 1 .. k[q[1]]
      BY <1>3, PairsElement
    <2>2. q[2] \in 1 .. h[q[1]] \/ (q[1] = t /\ q[2] = h[t] + 1)
      BY <1>2, <2>1
    <2> QED BY <2>1, <2>2, PairsMember
  <1>4. ASSUME NEW q \in Pairs(h) PROVE q \in Pairs(k)
    <2>1. q = <<q[1], q[2]>> /\ q[1] \in 1 .. Day /\ q[2] \in 1 .. h[q[1]]
      BY <1>4, PairsElement
    <2>2. q[2] \in 1 .. k[q[1]]
      BY <1>2, <2>1
    <2> QED BY <2>1, <2>2, PairsMember
  <1>5. p \in Pairs(k)
    <2>1. h[t] + 1 \in 1 .. k[t]
      BY <1>2
    <2> QED BY <2>1, PairsMember
  <1>6. p \notin Pairs(h)
    <2>1. ~(h[t] + 1 \in 1 .. h[t])
      BY <1>2
    <2> QED BY <2>1, PairsMember
  <1>7. Pairs(k) = Pairs(h) \cup {p}
    BY <1>3, <1>4, <1>5
  <1>8. Cardinality(Pairs(k)) = Cardinality(Pairs(h)) + 1
    BY <1>6, <1>7, PairsFinite, FS_AddElement
  <1> QED BY <1>2, <1>8 DEF k, Histogram

\* No scan is counted that was not counted before.
LEMMA PairsAged ==
    ASSUME NEW h \in Histogram
    PROVE  /\ Aged(h) \in Histogram
           /\ Cardinality(Pairs(Aged(h))) <= Cardinality(Pairs(h))
  <1> DEFINE k == Aged(h)
             g == [q \in Pairs(k) |-> <<q[1] + 1, q[2]>>]
  <1>1. Day \in Nat /\ \A t \in 1 .. Day : h[t] \in Nat
    BY NumbersAssumption DEF Histogram
  <1>2. k \in [1 .. Day -> Nat]
    BY <1>1 DEF Aged
  <1>3. \A t \in 1 .. Day : k[t] = IF t < Day THEN h[t + 1] ELSE 0
    BY DEF Aged
  <1> HIDE DEF k
  <1>4. ASSUME NEW q \in Pairs(k)
        PROVE  <<q[1] + 1, q[2]>> \in Pairs(h)
    <2>1. q[1] \in 1 .. Day /\ q[2] \in 1 .. k[q[1]]
      BY PairsElement
    <2>2. q[1] + 1 \in 1 .. Day /\ q[2] \in 1 .. h[q[1] + 1]
      BY <1>1, <1>3, <2>1
    <2> QED BY <2>2, PairsMember
  <1>5. g \in [Pairs(k) -> Pairs(h)]
    BY <1>4
  <1>6. ASSUME NEW q \in Pairs(k), NEW r \in Pairs(k), g[q] = g[r]
        PROVE  q = r
    <2>1. q = <<q[1], q[2]>> /\ r = <<r[1], r[2]>> /\ q[1] \in 1 .. Day
          /\ r[1] \in 1 .. Day
      BY PairsElement
    <2>2. q[1] + 1 = r[1] + 1 /\ q[2] = r[2]
      BY <1>6
    <2>3. q[1] = r[1]
      BY <1>1, <2>1, <2>2
    <2> QED BY <2>1, <2>2, <2>3
  <1>7. g \in Injection(Pairs(k), Pairs(h))
    BY <1>5, <1>6, Fun_IsInj
  <1> HIDE DEF g
  <1>8. Cardinality(Pairs(k)) <= Cardinality(Pairs(h))
    BY <1>7, PairsFinite, FS_Injection
  <1> QED BY <1>2, <1>8 DEF k, Histogram

\* Scans that waited are counted along with those that had started.
LEMMA PairsMerged ==
    ASSUME NEW h \in Histogram, NEW W, IsFiniteSet(W),
           NEW left \in [W -> 1 .. Day], NEW k,
           k = [t \in 1 .. Day |-> h[t] + Cardinality({w \in W : left[w] = t})]
    PROVE  /\ k \in Histogram
           /\ Cardinality(Pairs(k)) <= Cardinality(Pairs(h)) + Cardinality(W)
  <1> DEFINE Part(t) == {w \in W : left[w] = t}
             numbered == [t \in 1 .. Day |->
                 CHOOSE b : b \in Bijection(1 .. Cardinality(Part(t)), Part(t))]
             Extra == {0} \X W
             g == [q \in Pairs(k) |->
                 IF q[2] <= h[q[1]] THEN q
                 ELSE <<0, numbered[q[1]][q[2] - h[q[1]]]>>]
  <1>1. ASSUME NEW t \in 1 .. Day
        PROVE  /\ Cardinality(Part(t)) \in Nat
               /\ numbered[t] \in Bijection(1 .. Cardinality(Part(t)), Part(t))
    <2>1. IsFiniteSet(Part(t))
      BY FS_Subset
    <2>2. /\ Cardinality(Part(t)) \in Nat
          /\ ExistsBijection(1 .. Cardinality(Part(t)), Part(t))
      BY <2>1, FS_CardinalityType
    <2>3. PICK b : b \in Bijection(1 .. Cardinality(Part(t)), Part(t))
      BY <2>2, Fun_ExistsBij
    <2> QED BY <2>2, <2>3
  <1>2. \A t \in 1 .. Day : h[t] \in Nat /\ k[t] = h[t] + Cardinality(Part(t))
    BY DEF Histogram
  <1>4. \A t \in 1 .. Day : \A w \in Part(t) : w \in W /\ left[w] = t
    OBVIOUS
  <1> HIDE DEF numbered, Part
  <1>3. k \in [1 .. Day -> Nat]
    <2>1. \A t \in 1 .. Day : k[t] \in Nat
      BY <1>1, <1>2
    <2>2. k = [t \in 1 .. Day |-> k[t]]
      OBVIOUS
    <2> QED BY <2>1, <2>2
  <1>14. ASSUME NEW t \in 1 .. Day, NEW a \in 1 .. Cardinality(Part(t)),
                NEW b \in 1 .. Cardinality(Part(t)),
                numbered[t][a] = numbered[t][b]
         PROVE  a = b
    <2> DEFINE I == 1 .. Cardinality(Part(t))
    <2>1. numbered[t] \in Bijection(I, Part(t)) /\ a \in I /\ b \in I
      BY <1>1
    <2> HIDE DEF I
    <2>2. \A x, y \in I : numbered[t][x] = numbered[t][y] => x = y
      BY <2>1, Fun_BijectionProperties
    <2> QED BY <1>14, <2>1, <2>2
  <1>5. ASSUME NEW q \in Pairs(k), ~(q[2] <= h[q[1]])
        PROVE  /\ q[1] \in 1 .. Day
               /\ q[2] - h[q[1]] \in 1 .. Cardinality(Part(q[1]))
               /\ numbered[q[1]][q[2] - h[q[1]]] \in Part(q[1])
    <2>1. q[1] \in 1 .. Day /\ q[2] \in 1 .. k[q[1]]
      BY PairsElement
    <2>2. q[2] - h[q[1]] \in 1 .. Cardinality(Part(q[1]))
      BY <1>1, <1>2, <1>5, <2>1
    <2>3. numbered[q[1]] \in [1 .. Cardinality(Part(q[1])) -> Part(q[1])]
      BY <1>1, <2>1, Fun_BijectionProperties
    <2> QED BY <2>1, <2>2, <2>3
  <1>6. ASSUME NEW q \in Pairs(k) PROVE g[q] \in Pairs(h) \cup Extra
    <2>1. CASE q[2] <= h[q[1]]
      <3>1. /\ q = <<q[1], q[2]>> /\ q[1] \in 1 .. Day
            /\ q[2] \in 1 .. k[q[1]]
        BY PairsElement
      <3>2. q[2] \in 1 .. h[q[1]]
        BY <1>2, <1>3, <2>1, <3>1
      <3>3. q \in Pairs(h)
        BY <3>1, <3>2, PairsMember
      <3> QED BY <2>1, <3>3
    <2>2. CASE ~(q[2] <= h[q[1]])
      <3>1. numbered[q[1]][q[2] - h[q[1]]] \in W
        BY <1>4, <1>5, <2>2
      <3> QED BY <2>2, <3>1
    <2> QED BY <2>1, <2>2
  <1>7. ASSUME NEW q \in Pairs(k), NEW r \in Pairs(k), g[q] = g[r]
        PROVE  q = r
    <2>1. /\ q = <<q[1], q[2]>> /\ q[1] \in 1 .. Day
          /\ r = <<r[1], r[2]>> /\ r[1] \in 1 .. Day
          /\ q[2] \in 1 .. k[q[1]] /\ r[2] \in 1 .. k[r[1]]
      BY PairsElement
    <2>2. CASE q[2] <= h[q[1]] /\ r[2] <= h[r[1]]
      BY <1>7, <2>2
    <2>3. CASE q[2] <= h[q[1]] /\ ~(r[2] <= h[r[1]])
      <3>1. q = <<0, numbered[r[1]][r[2] - h[r[1]]]>>
        BY <1>7, <2>3
      <3>2. q[1] = 0
        BY <3>1
      <3> QED BY <2>1, <3>2
    <2>4. CASE ~(q[2] <= h[q[1]]) /\ r[2] <= h[r[1]]
      <3>1. r = <<0, numbered[q[1]][q[2] - h[q[1]]]>>
        BY <1>7, <2>4
      <3>2. r[1] = 0
        BY <3>1
      <3> QED BY <2>1, <3>2
    <2>5. CASE ~(q[2] <= h[q[1]]) /\ ~(r[2] <= h[r[1]])
      <3>1. numbered[q[1]][q[2] - h[q[1]]] = numbered[r[1]][r[2] - h[r[1]]]
        BY <1>7, <2>5
      <3>2. q[1] = r[1]
        BY <1>4, <1>5, <2>5, <3>1
      <3>3. q[2] - h[q[1]] = r[2] - h[q[1]]
        <4>1. /\ q[1] \in 1 .. Day
              /\ q[2] - h[q[1]] \in 1 .. Cardinality(Part(q[1]))
              /\ r[2] - h[q[1]] \in 1 .. Cardinality(Part(q[1]))
          BY <1>5, <2>5, <3>2
        <4>2. numbered[q[1]][q[2] - h[q[1]]] = numbered[q[1]][r[2] - h[q[1]]]
          BY <3>1, <3>2
        <4> QED BY <1>14, <4>1, <4>2
      <3>4. q[2] = r[2]
        BY <1>2, <1>3, <2>1, <3>2, <3>3
      <3> QED BY <2>1, <3>2, <3>4
    <2> QED BY <2>2, <2>3, <2>4, <2>5
  <1>8. g \in [Pairs(k) -> Pairs(h) \cup Extra]
    BY <1>6
  <1>9. g \in Injection(Pairs(k), Pairs(h) \cup Extra)
    BY <1>7, <1>8, Fun_IsInj
  <1>10. IsFiniteSet(Extra) /\ Cardinality(Extra) = Cardinality(W)
    <2>1. IsFiniteSet({0}) /\ Cardinality({0}) = 1
      BY FS_Singleton
    <2>2. IsFiniteSet(Extra) /\ Cardinality(Extra) = 1 * Cardinality(W)
      BY <2>1, FS_Product
    <2>3. Cardinality(W) \in Nat
      BY FS_CardinalityType
    <2> QED BY <2>2, <2>3
  <1>11. Pairs(h) \cap Extra = {}
    BY PairsElement
  <1>12. /\ IsFiniteSet(Pairs(h) \cup Extra)
         /\ Cardinality(Pairs(h) \cup Extra)
                = Cardinality(Pairs(h)) + Cardinality(W)
    <2>1. /\ IsFiniteSet(Pairs(h)) /\ Cardinality(Pairs(h)) \in Nat
          /\ Cardinality(W) \in Nat
      BY PairsFinite, FS_CardinalityType
    <2> HIDE DEF Extra
    <2>2. /\ IsFiniteSet(Pairs(h) \cup Extra)
          /\ Cardinality(Pairs(h) \cup Extra) =
                 Cardinality(Pairs(h)) + Cardinality(Extra)
                     - Cardinality(Pairs(h) \cap Extra)
      BY <1>10, <2>1, FS_Union
    <2>3. Cardinality(Pairs(h) \cap Extra) = 0
      BY <1>11, FS_EmptySet DEF Extra
    <2> QED BY <1>10, <2>1, <2>2, <2>3
  <1> HIDE DEF g, Extra
  <1>13. Cardinality(Pairs(k)) <= Cardinality(Pairs(h)) + Cardinality(W)
    BY <1>9, <1>12, FS_Injection
  <1> QED BY <1>3, <1>13 DEF Histogram

-----------------------------------------------------------------------------
\* Types

Clocks ==
    /\ DOMAIN next = Cruise
    /\ \A c \in Cruise : next[c] = None \/ Within(next[c])
    /\ recent \in [Cruise -> Histogram]
    /\ tick \in {"idle", "due", "running"}
    /\ mishaps \in 0 .. MaxMishaps

\* the places in the queue of the scans of a cruise that count
Held(w, c) == {i \in DOMAIN w : w[i].cruise = c /\ w[i].left > 0}

LEMMA HeldFinite ==
    ASSUME NEW w \in Seq(Entry), NEW c
    PROVE  /\ IsFiniteSet(DOMAIN w) /\ Cardinality(DOMAIN w) = Len(w)
           /\ IsFiniteSet(Held(w, c)) /\ Cardinality(Held(w, c)) \in Nat
  <1>1. DOMAIN w = 1 .. Len(w) /\ Len(w) \in Nat
    OBVIOUS
  <1>2. IsFiniteSet(DOMAIN w) /\ Cardinality(DOMAIN w) = Len(w)
    BY <1>1, FS_Interval
  <1>3. IsFiniteSet(Held(w, c))
    BY <1>2, FS_Subset DEF Held
  <1> QED BY <1>2, <1>3, FS_CardinalityType

-----------------------------------------------------------------------------
\* Counting the callers

\* those that are at a place for a cruise
At(f, g, place, c) == {k \in Caller : f[k] = place /\ g[k] = c}

LEMMA AtFinite ==
    ASSUME NEW f, NEW g, NEW place, NEW c
    PROVE  /\ IsFiniteSet(At(f, g, place, c))
           /\ Cardinality(At(f, g, place, c)) \in Nat
           /\ Cardinality(Caller) \in Nat
           /\ Cardinality(At(f, g, place, c)) <= Cardinality(Caller)
  <1>1. At(f, g, place, c) \subseteq Caller
    BY DEF At
  <1> QED BY <1>1, CallerAssumption, FS_Subset, FS_CardinalityType

\* A caller that moves is one less where it was and one more where it goes.
LEMMA EnterCounts ==
    ASSUME CallerTypes, NEW k \in Caller,
           NEW place \in {"idle", "check", "insert", "submit"}, NEW d,
           d \in Cruise \/ (place = "idle" /\ d = None), Enter(k, place, d),
           NEW p, NEW c
    PROVE  Cardinality(At(callerAt', callerFor', p, c)) =
               Cardinality(At(callerAt, callerFor, p, c))
               - (IF callerAt[k] = p /\ callerFor[k] = c THEN 1 ELSE 0)
               + (IF place = p /\ d = c THEN 1 ELSE 0)
  <1> DEFINE A == At(callerAt, callerFor, p, c)
             B == At(callerAt', callerFor', p, c)
  <1>1. A \ {k} = B \ {k}
    BY EnterTypes DEF At
  <1>2. /\ k \in A <=> callerAt[k] = p /\ callerFor[k] = c
        /\ k \in B <=> place = p /\ d = c
    BY EnterTypes DEF At
  <1>3. /\ IsFiniteSet(A) /\ Cardinality(A) \in Nat
        /\ IsFiniteSet(B) /\ Cardinality(B) \in Nat
    BY AtFinite
  <1> HIDE DEF A, B
  <1>4. Cardinality(A \ {k}) = Cardinality(A) - (IF k \in A THEN 1 ELSE 0)
    <2>1. Cardinality(A \ {k}) =
              IF k \in A THEN Cardinality(A) - 1 ELSE Cardinality(A)
      BY <1>3, FS_RemoveElement
    <2> QED BY <1>3, <2>1
  <1>5. Cardinality(B \ {k}) = Cardinality(B) - (IF k \in B THEN 1 ELSE 0)
    <2>1. Cardinality(B \ {k}) =
              IF k \in B THEN Cardinality(B) - 1 ELSE Cardinality(B)
      BY <1>3, FS_RemoveElement
    <2> QED BY <1>3, <2>1
  <1>6. Cardinality(B) = Cardinality(A) - (IF k \in A THEN 1 ELSE 0)
                                       + (IF k \in B THEN 1 ELSE 0)
    BY <1>1, <1>3, <1>4, <1>5
  <1> QED BY <1>2, <1>6 DEF A, B

-----------------------------------------------------------------------------
\* Counting the scans

\* One more scan of a cruise is counted, with the time t left.
LEMMA RecentAdded ==
    ASSUME recent \in [Cruise -> Histogram], NEW d \in Cruise, NEW t \in 1 .. Day,
           recent' = [recent EXCEPT ![d][t] = @ + 1]
    PROVE  /\ recent' \in [Cruise -> Histogram]
           /\ \A c \in Cruise :
                  Cardinality(Pairs(recent'[c])) = Cardinality(Pairs(recent[c]))
                      + (IF c = d THEN 1 ELSE 0)
  <1>1. recent' = [recent EXCEPT ![d] = [recent[d] EXCEPT ![t] = @ + 1]]
    OBVIOUS
  <1>2. /\ [recent[d] EXCEPT ![t] = @ + 1] \in Histogram
        /\ Cardinality(Pairs([recent[d] EXCEPT ![t] = @ + 1]))
               = Cardinality(Pairs(recent[d])) + 1
    BY PairsAdded
  <1>3. recent' \in [Cruise -> Histogram]
    BY <1>1, <1>2
  <1>4. ASSUME NEW c \in Cruise
        PROVE  Cardinality(Pairs(recent'[c])) = Cardinality(Pairs(recent[c]))
                   + (IF c = d THEN 1 ELSE 0)
    <2>1. CASE c = d
      <3>1. recent'[c] = [recent[d] EXCEPT ![t] = @ + 1]
        BY <1>1, <2>1
      <3> QED BY <1>2, <2>1, <3>1
    <2>2. CASE c # d
      <3>1. recent'[c] = recent[c] /\ recent[c] \in Histogram
        BY <1>1, <2>2
      <3> QED BY <2>2, <3>1, PairsFinite
    <2> QED BY <2>1, <2>2
  <1> QED BY <1>3, <1>4

\* The scans a crash finds waiting or committed go over into the histogram of
\* their cruise.
LEMMA CrashMerges ==
    ASSUME Types, Clocks, Crash, NEW c \in Cruise
    PROVE  /\ recent'[c] \in Histogram
           /\ Cardinality(Pairs(recent'[c])) <=
                  Cardinality(Pairs(recent[c])) + Cardinality(Held(waiting, c))
                      + Cardinality(At(callerAt, callerFor, "submit", c))
  <1> DEFINE W == Held(waiting, c)
             left == [i \in W |-> waiting[i].left]
             V == At(callerAt, callerFor, "submit", c)
             whole == [k \in V |-> Day]
             h == [t \in 1 .. Day |->
                      recent[c][t] + Cardinality({i \in W : left[i] = t})]
             m == [t \in 1 .. Day |->
                      h[t] + Cardinality({k \in V : whole[k] = t})]
  <1>1. IsFiniteSet(W) /\ IsFiniteSet(V)
    BY HeldFinite, AtFinite DEF Types
  <1>2. left \in [W -> 1 .. Day] /\ whole \in [V -> 1 .. Day]
    <2>1. ASSUME NEW i \in W PROVE waiting[i].left \in 1 .. Day
      <3>1. waiting[i] \in Entry /\ waiting[i].left > 0
        BY DEF Types, Held
      <3> QED BY <3>1, NumbersAssumption DEF Entry
    <2> QED BY <2>1, NumbersAssumption
  <1>3. recent[c] \in Histogram
    BY DEF Clocks
  <1>4. recent'[c] = m
    <2>1. \A t : {i \in W : left[i] = t} = {i \in Waiting(c) : waiting[i].left = t}
      BY DEF Held, Waiting
    <2>2. V = Committed(c)
      BY DEF At, Committed
    <2>3. ASSUME NEW t \in 1 .. Day
          PROVE  Cardinality({k \in V : whole[k] = t}) =
                     IF t = Day THEN Cardinality(Committed(c)) ELSE 0
      <3>1. CASE t = Day
        <4>1. {k \in V : whole[k] = t} = V
          BY <3>1
        <4> QED BY <2>2, <3>1, <4>1
      <3>2. CASE t # Day
        <4>1. {k \in V : whole[k] = t} = {}
          BY <3>2
        <4> QED BY <3>2, <4>1, FS_EmptySet
      <3> QED BY <3>1, <3>2
    <2>4. recent'[c] = [t \in 1 .. Day |->
              recent[c][t]
              + Cardinality({i \in Waiting(c) : waiting[i].left = t})
              + IF t = Day THEN Cardinality(Committed(c)) ELSE 0]
      BY DEF Crash
    <2> HIDE DEF W, V, left, whole
    <2>5. m = [t \in 1 .. Day |->
              recent[c][t] + Cardinality({i \in W : left[i] = t})
              + Cardinality({k \in V : whole[k] = t})]
      OBVIOUS
    <2> QED BY <2>1, <2>3, <2>4, <2>5
  <1> HIDE DEF W, V, left, whole
  <1>5. /\ h \in Histogram
        /\ Cardinality(Pairs(h)) <=
               Cardinality(Pairs(recent[c])) + Cardinality(W)
    BY <1>1, <1>2, <1>3, PairsMerged
  <1> HIDE DEF h
  <1>6. /\ m \in Histogram
        /\ Cardinality(Pairs(m)) <= Cardinality(Pairs(h)) + Cardinality(V)
    BY <1>1, <1>2, <1>5, PairsMerged
  <1> HIDE DEF m
  <1>7. /\ Cardinality(Pairs(h)) \in Nat /\ Cardinality(Pairs(m)) \in Nat
        /\ Cardinality(Pairs(recent[c])) \in Nat
        /\ Cardinality(W) \in Nat /\ Cardinality(V) \in Nat
    BY <1>1, <1>3, <1>5, <1>6, PairsFinite, FS_CardinalityType
  <1> QED BY <1>4, <1>5, <1>6, <1>7 DEF W, V

LEMMA FrontEntry ==
    ASSUME Types, BeginScan
    PROVE  Len(waiting) > 0 /\ 1 \in DOMAIN waiting /\ waiting[1] \in Entry
  <1>1. waiting \in Seq(Entry) /\ waiting # <<>>
    BY DEF Types, BeginScan
  <1> QED BY <1>1

\* A started scan is counted once more, for its own cruise, while its day lasts.
LEMMA BeginCounts ==
    ASSUME Types, Clocks, BeginScan
    PROVE  /\ recent' \in [Cruise -> Histogram]
           /\ \A c \in Cruise :
                  Cardinality(Pairs(recent'[c])) = Cardinality(Pairs(recent[c]))
                      + (IF c = waiting[1].cruise /\ waiting[1].left > 0
                         THEN 1 ELSE 0)
  <1> DEFINE d == waiting[1].cruise
             t == waiting[1].left
  <1>1. d \in Cruise /\ t \in 0 .. Day /\ Head(waiting) = waiting[1]
    BY FrontEntry DEF Entry, Types
  <1>2. recent' = IF t = 0 THEN recent ELSE [recent EXCEPT ![d][t] = @ + 1]
    BY <1>1 DEF BeginScan, StartJob
  <1>3. recent \in [Cruise -> Histogram]
    BY DEF Clocks
  <1> HIDE DEF d, t
  <1>4. CASE t = 0
    <2>1. recent' = recent
      BY <1>2, <1>4
    <2>2. \A c \in Cruise : Cardinality(Pairs(recent[c])) \in Nat
      BY <1>3, PairsFinite
    <2> QED BY <1>3, <1>4, <2>1, <2>2 DEF d, t
  <1>5. CASE t # 0
    <2>1. t \in 1 .. Day /\ t > 0
      BY <1>1, <1>5, NumbersAssumption
    <2>2. recent' = [recent EXCEPT ![d][t] = @ + 1]
      BY <1>2, <1>5
    <2> QED BY <1>1, <1>3, <2>1, <2>2, RecentAdded DEF d, t
  <1> QED BY <1>4, <1>5

\* A scan that is committed and given up is counted as the others are.
LEMMA AbandonCounts ==
    ASSUME Types, Clocks, NEW k \in Caller, Abandon(k)
    PROVE  /\ recent' \in [Cruise -> Histogram]
           /\ \A c \in Cruise :
                  Cardinality(Pairs(recent'[c])) = Cardinality(Pairs(recent[c]))
                      + (IF callerAt[k] = "submit" /\ callerFor[k] = c
                         THEN 1 ELSE 0)
  <1>1. recent \in [Cruise -> Histogram] /\ Day \in 1 .. Day
    BY NumbersAssumption DEF Clocks
  <1>2. CASE callerAt[k] = "submit"
    <2>1. callerFor[k] \in Cruise
      BY <1>2 DEF Types, CallerTypes
    <2>2. recent' = [recent EXCEPT ![callerFor[k]][Day] = @ + 1]
      BY <1>2 DEF Abandon
    <2> QED BY <1>1, <1>2, <2>1, <2>2, RecentAdded
  <1>3. CASE callerAt[k] # "submit"
    <2>1. recent' = recent
      BY <1>3 DEF Abandon
    <2>2. \A c \in Cruise : Cardinality(Pairs(recent[c])) \in Nat
      BY <1>1, PairsFinite
    <2> QED BY <1>1, <1>3, <2>1, <2>2
  <1> QED BY <1>2, <1>3

\* The ageing of the counters counts nothing anew.
LEMMA PassAges ==
    ASSUME Clocks, Pass, NEW c \in Cruise
    PROVE  /\ recent'[c] \in Histogram
           /\ Cardinality(Pairs(recent'[c])) <= Cardinality(Pairs(recent[c]))
  <1>1. recent'[c] = Aged(recent[c]) /\ recent[c] \in Histogram
    BY DEF Pass, Clocks
  <1> QED BY <1>1, PairsAged

LEMMA LengthWithin ==
    ASSUME NEW i \in Interval
    PROVE  Within(0) /\ Within(Length[i])
  <1>1. Length[i] \in Nat
    BY LengthAssumption
  <1>2. 0 \in 0 .. Length[i] /\ Length[i] \in 0 .. Length[i]
    BY <1>1
  <1>3. Length[i] \in Lengths
    BY DEF Lengths
  <1> QED BY <1>2, <1>3 DEF Within

LEMMA ClocksStep == Types /\ Clocks /\ [Next]_vars => Clocks'
  <1> SUFFICES ASSUME Types, Clocks, [Next]_vars PROVE Clocks'
    OBVIOUS
  <1>1. ASSUME NEW c \in Edited, CreateCruise(c) \/ UpdateCruise(c)
        PROVE  Clocks'
    <2>1. UNCHANGED << recent, tick, mishaps >>
      BY <1>1 DEF CreateCruise, UpdateCruise
    <2>2. CASE UNCHANGED next
      BY <2>1, <2>2 DEF Clocks
    <2>3. ASSUME NEW i \in Interval \cup {"manual"},
                 next' = [next EXCEPT ![c] =
                     IF i = "manual" THEN None ELSE IF @ = None THEN 0 ELSE @]
          PROVE  Clocks'
      <3>1. i # "manual" => Within(0)
        BY LengthWithin
      <3>2. \A d \in Cruise : \/ next'[d] \in {next[d], None}
                              \/ (next'[d] = 0 /\ i # "manual")
        BY <2>3 DEF Clocks
      <3>3. DOMAIN next' = Cruise
        BY <2>3 DEF Clocks
      <3> QED BY <2>1, <3>1, <3>2, <3>3 DEF Clocks
    <2> QED BY <1>1, <2>2, <2>3 DEF CreateCruise, UpdateCruise
  <1>2. ASSUME NEW k \in Caller, NEW c,
               \/ RequestScan(k, c) \/ InsertScan(k) \/ Submit(k)
               \/ AskQueue(c) \/ CheckRateLimit
        PROVE  Clocks'
    BY <1>2
    DEF RequestScan, InsertScan, Submit, AskQueue, CheckRateLimit, Clocks
  <1>3. CASE LoadCruises \/ EndTick \/ FailScan
    BY <1>3 DEF LoadCruises, EndTick, FailScan, Clocks
  <1>4. ASSUME NEW k \in Caller, RequestFails(k) \/ (k = Ticker /\ TickFails)
        PROVE  Clocks'
    <2>1. mishaps' \in 0 .. MaxMishaps
      BY <1>4, NumbersAssumption DEF RequestFails, TickFails, Mishap, Clocks
    <2>2. recent' \in [Cruise -> Histogram]
      BY <1>4, AbandonCounts DEF RequestFails, TickFails
    <2> QED BY <1>4, <2>1, <2>2 DEF RequestFails, TickFails, Clocks
  <1>5. CASE BeginScan
    <2>1. recent' \in [Cruise -> Histogram]
      BY <1>5, BeginCounts
    <2> QED BY <1>5, <2>1 DEF BeginScan, Clocks
  <1>6. CASE CompleteScan
    <2>1. PICK j \in jobs : UpdateSchedule(j)
      BY <1>6 DEF CompleteScan
    <2>2. j.interval \in Interval => Within(Length[j.interval])
      BY LengthWithin
    <2>3. DOMAIN next' = Cruise
      BY <2>1 DEF UpdateSchedule, Clocks
    <2>4. \A c \in Cruise : \/ next'[c] \in {next[c], None}
                            \/ (/\ j.interval \in Interval
                                /\ next'[c] = Length[j.interval])
      BY <2>1 DEF UpdateSchedule, Clocks
    <2>5. UNCHANGED << recent, tick, mishaps >>
      BY <1>6 DEF CompleteScan
    <2> QED BY <2>2, <2>3, <2>4, <2>5 DEF Clocks
  <1>7. CASE Pass
    <2>1. recent' \in [Cruise -> Histogram]
      BY <1>7, PassAges DEF Pass
    <2>2. next' = [c \in Cruise |-> Less(next[c])]
      BY <1>7 DEF Pass
    <2>3. ASSUME NEW c \in Cruise PROVE next'[c] = None \/ Within(next'[c])
      <3>1. CASE next[c] \in {0, None}
        BY <2>2, <3>1 DEF Less, Clocks
      <3>2. CASE next[c] \notin {0, None}
        <4>1. PICK l \in Lengths : next[c] \in 0 .. l
          BY <3>2 DEF Clocks, Within
        <4>2. l \in Nat
          BY LengthAssumption DEF Lengths
        <4>3. next'[c] = next[c] - 1
          BY <2>2, <3>2 DEF Less
        <4>4. next'[c] \in 0 .. l
          BY <3>2, <4>1, <4>2, <4>3
        <4> QED BY <4>4 DEF Within
      <3> QED BY <3>1, <3>2
    <2>4. tick' = "due" /\ UNCHANGED mishaps
      BY <1>7 DEF Pass
    <2> QED BY <2>1, <2>2, <2>3, <2>4 DEF Clocks
  <1>8. CASE Crash
    <2>1. recent' \in [Cruise -> Histogram]
      BY <1>8, CrashMerges DEF Crash
    <2>2. mishaps' \in 0 .. MaxMishaps
      BY <1>8, NumbersAssumption DEF Crash, Mishap, Clocks
    <2> QED BY <1>8, <2>1, <2>2 DEF Crash, Clocks
  <1>9. CASE UNCHANGED vars
    BY <1>9 DEF vars, Clocks
  <1> QED
    BY <1>1, <1>2, <1>3, <1>4, <1>5, <1>6, <1>7, <1>8, <1>9,
       CallerAssumption
    DEF Next, Scheduling, Requests

LEMMA InitClocks == Init => Clocks
  BY NumbersAssumption DEF Init, Clocks, Histogram

\* The types of the settings, the queue, the running scan and the clocks, with
\* at most one scan at a time.
THEOREM TypeCorrect == Spec => []TypeOK
  <1>1. ASSUME Inv, Clocks PROVE TypeOK
    <2>1. Cardinality(jobs) <= 1
      <3>1. CASE jobs = {}
        BY <3>1, FS_EmptySet
      <3>2. ASSUME NEW j \in jobs PROVE Cardinality(jobs) <= 1
        <4>1. jobs = {j}
          BY <1>1 DEF Inv, Types
        <4> QED BY <4>1, FS_Singleton
      <3> QED BY <3>1, <3>2
    <2> QED BY <1>1, <2>1 DEF Inv, Types, CallerTypes, Clocks, TypeOK, Entry, Job,
            Histogram
  <1>2. Inv => Types
    BY DEF Inv
  <1> QED BY <1>1, <1>2, InitInv, NextInv, InitClocks, ClocksStep, PTL DEF Spec

-----------------------------------------------------------------------------
\* The daily limit

\* What the requests and the tick can reach together: the check lets them pass
\* while one scan less than MaxPerDay counts, and then all of them insert theirs.
Limit == MaxPerDay + Cardinality(Caller) - 1

\* The scans that count at one time could all run within a day.
Places == Cardinality(Cruise) * Limit
LongDay == IsFiniteSet(Cruise) /\ Day > Places * MaxScanTicks

Inserting(c) == At(callerAt, callerFor, "insert", c)

Bounded == \A c \in Cruise : Count(c) + Cardinality(Inserting(c)) <= Limit

\* No scan has waited longer than those ahead of it can have taken.
Behind(i) == (Places - i) * MaxScanTicks
Timely ==
    \A i \in DOMAIN waiting :
        /\ jobs = {} => waiting[i].left >= Day - Behind(i) - MaxScanTicks
        /\ \A j \in jobs : waiting[i].left >= Day - Behind(i) - j.age

LimitInv == Bounded /\ Timely

LEMMA CountIs ==
    /\ \A c : Count(c) =
           Cardinality(Pairs(recent[c])) + Cardinality(Held(waiting, c))
               + Cardinality(At(callerAt, callerFor, "submit", c))
    /\ \A c : Count(c)' =
           Cardinality(Pairs(recent'[c])) + Cardinality(Held(waiting', c))
               + Cardinality(At(callerAt', callerFor', "submit", c))
  BY DEF Count, Started, Waiting, Committed, Pairs, Held, At

LEMMA LimitIs == Limit \in Nat /\ MaxPerDay - 1 + Cardinality(Caller) = Limit
  <1>1. Cardinality(Caller) \in Nat /\ Cardinality(Caller) # 0
    BY CallerAssumption, FS_CardinalityType, FS_EmptySet
  <1> QED BY <1>1, NumbersAssumption DEF Limit

LEMMA PartsFinite ==
    ASSUME NEW h \in Histogram, NEW w \in Seq(Entry), NEW f, NEW g, NEW c
    PROVE  /\ Cardinality(Pairs(h)) \in Nat
           /\ Cardinality(Held(w, c)) \in Nat
           /\ Cardinality(At(f, g, "submit", c)) \in Nat
           /\ Cardinality(At(f, g, "insert", c)) \in Nat
           /\ Cardinality(At(f, g, "insert", c)) <= Cardinality(Caller)
           /\ Cardinality(Caller) \in Nat
  BY PairsFinite, HeldFinite, AtFinite

LEMMA BehindFacts ==
    ASSUME LongDay, NEW i \in Nat
    PROVE  /\ Places \in Nat /\ Behind(i) \in Int
           /\ Behind(i) = Behind(i + 1) + MaxScanTicks
           /\ i <= Places => Behind(i) >= 0
           /\ i > 0 => Behind(i) + MaxScanTicks < Day
  <1>1. Cardinality(Cruise) \in Nat /\ Limit \in Nat
    BY FS_CardinalityType, LimitIs DEF LongDay
  <1>2. Places \in Nat
    BY <1>1 DEF Places
  <1>3. MaxScanTicks \in Nat /\ Day \in Nat
    BY NumbersAssumption
  <1>4. \A a, b \in Int : (a - b) * MaxScanTicks = a * MaxScanTicks - b * MaxScanTicks
    BY <1>3
  <1>5. \A a, b \in Nat : a * b \in Nat
    OBVIOUS
  <1>6. Behind(i) = Places * MaxScanTicks - i * MaxScanTicks
    BY <1>2, <1>4 DEF Behind
  <1>7. Behind(i + 1) = Places * MaxScanTicks - (i + 1) * MaxScanTicks
    BY <1>2, <1>4 DEF Behind
  <1>8. (i + 1) * MaxScanTicks = i * MaxScanTicks + MaxScanTicks
    BY <1>3
  <1>9. i <= Places => (Places - i) * MaxScanTicks \in Nat
    <2>1. i <= Places => Places - i \in Nat
      BY <1>2
    <2> QED BY <1>3, <1>5, <2>1
  <1>10. i > 0 => i * MaxScanTicks >= MaxScanTicks
    <2>1. ASSUME i > 0 PROVE i * MaxScanTicks = (i - 1) * MaxScanTicks + MaxScanTicks
      BY <1>3
    <2>2. ASSUME i > 0 PROVE (i - 1) * MaxScanTicks \in Nat
      <3>1. i - 1 \in Nat
        BY <2>2
      <3> QED BY <1>3, <1>5, <3>1
    <2> QED BY <1>3, <2>1, <2>2
  <1>11. i * MaxScanTicks \in Nat /\ Places * MaxScanTicks \in Nat
    BY <1>2, <1>3, <1>5
  <1>12. Places * MaxScanTicks < Day
    BY DEF LongDay
  <1>13. Behind(i) \in Int /\ Behind(i) = Behind(i + 1) + MaxScanTicks
    BY <1>3, <1>6, <1>7, <1>8, <1>11
  <1>14. i <= Places => Behind(i) >= 0
    BY <1>9 DEF Behind
  <1>15. i > 0 => Behind(i) + MaxScanTicks < Day
    BY <1>3, <1>6, <1>10, <1>11, <1>12
  <1> QED BY <1>2, <1>13, <1>14, <1>15

\* A queue that respects the limits, with scans that all still count, has no
\* more entries than there are places.
LEMMA Short ==
    ASSUME LongDay, NEW w \in Seq(Entry), \A i \in DOMAIN w : w[i].left > 0,
           \A c \in Cruise : Cardinality(Held(w, c)) <= Limit
    PROVE  Len(w) <= Places
  <1> DEFINE f == [i \in DOMAIN w |-> w[i].cruise]
  <1>1. \A i \in DOMAIN w : w[i] \in Entry
    OBVIOUS
  <1>2. f \in [DOMAIN w -> Cruise]
    BY <1>1 DEF Entry
  <1>3. \A c \in Cruise : {i \in DOMAIN w : f[i] = c} = Held(w, c)
    BY DEF Held
  <1>4. \A c \in Cruise : Cardinality({i \in DOMAIN w : f[i] = c}) <= Limit
    BY <1>3
  <1>5. /\ IsFiniteSet(DOMAIN w) /\ Cardinality(DOMAIN w) = Len(w)
        /\ IsFiniteSet(Cruise) /\ Limit \in Nat
    BY HeldFinite, LimitIs DEF LongDay
  <1> HIDE DEF f
  <1> QED BY <1>2, <1>4, <1>5, Fibres DEF Places

\* While the day is long enough, a scan that waits is still counted.
LEMMA Counted ==
    ASSUME LongDay, Types, Timely, NEW i \in DOMAIN waiting
    PROVE  waiting[i].left > 0
  <1>1. i \in Nat /\ i > 0 /\ waiting[i] \in Entry
    BY DEF Types
  <1>2. waiting[i].left \in Nat /\ Day \in Nat /\ MaxScanTicks \in Nat
    BY <1>1, NumbersAssumption DEF Entry
  <1>3. Behind(i) \in Int /\ Behind(i) + MaxScanTicks < Day
    BY <1>1, BehindFacts
  <1>4. CASE jobs = {}
    BY <1>2, <1>3, <1>4 DEF Timely
  <1>5. ASSUME NEW j \in jobs PROVE waiting[i].left > 0
    <2>1. j.age \in 0 .. MaxScanTicks
      BY DEF Types, Job
    <2> QED BY <1>2, <1>3, <2>1 DEF Timely
  <1> QED BY <1>4, <1>5

\* A caller that moves leaves the queue alone; one that goes to insert has
\* passed the check, and one that goes to submit has inserted.
LEMMA MoveKeeps ==
    ASSUME LongDay, Types, Clocks, LimitInv, UNCHANGED <<waiting, jobs, recent>>,
           NEW k \in Caller,
           NEW place \in {"idle", "check", "insert", "submit"}, NEW d,
           d \in Cruise \/ (place = "idle" /\ d = None), Enter(k, place, d),
           place = "insert" => WithinLimit(d) /\ callerAt[k] \in {"idle", "check"},
           place = "submit" => callerAt[k] = "insert" /\ callerFor[k] = d
    PROVE  LimitInv'
  <1>1. ASSUME NEW c \in Cruise
        PROVE  Count(c)' + Cardinality(Inserting(c)') <= Limit
    <2> DEFINE P == Cardinality(Pairs(recent[c]))
               H == Cardinality(Held(waiting, c))
               S == Cardinality(At(callerAt, callerFor, "submit", c))
               I == Cardinality(At(callerAt, callerFor, "insert", c))
               Sn == Cardinality(At(callerAt', callerFor', "submit", c))
               In == Cardinality(At(callerAt', callerFor', "insert", c))
               N == Cardinality(Caller)
    <2>1. /\ P \in Nat /\ H \in Nat /\ S \in Nat /\ I \in Nat
          /\ Sn \in Nat /\ In \in Nat /\ In <= N /\ N \in Nat
      BY PartsFinite, AtFinite DEF Types, Clocks
    <2>2. /\ Count(c) = P + H + S /\ Cardinality(Inserting(c)) = I
          /\ Count(c)' = P + H + Sn /\ Cardinality(Inserting(c)') = In
      BY CountIs DEF Inserting
    <2>3. Sn = S - (IF callerAt[k] = "submit" /\ callerFor[k] = c THEN 1 ELSE 0)
                 + (IF place = "submit" /\ d = c THEN 1 ELSE 0)
      BY EnterCounts DEF Types
    <2>4. In = I - (IF callerAt[k] = "insert" /\ callerFor[k] = c THEN 1 ELSE 0)
                 + (IF place = "insert" /\ d = c THEN 1 ELSE 0)
      BY EnterCounts DEF Types
    <2>5. P + H + S + I <= Limit
      BY <2>2 DEF LimitInv, Bounded
    <2>6. place = "insert" /\ d = c => P + H + S <= MaxPerDay - 1
      BY <2>1, <2>2, NumbersAssumption DEF WithinLimit
    <2>7. Limit \in Nat /\ MaxPerDay - 1 + N = Limit
      BY LimitIs
    <2> HIDE DEF P, H, S, I, Sn, In, N
    <2>8. CASE place = "insert" /\ d = c
      <3>1. Sn = S
        BY <2>1, <2>3, <2>8
      <3> QED BY <2>1, <2>2, <2>6, <2>7, <2>8, <3>1, NumbersAssumption
    <2>9. CASE place = "submit" /\ d = c
      <3>1. Sn = S + 1 /\ In = I - 1
        BY <2>1, <2>3, <2>4, <2>9
      <3> QED BY <2>1, <2>2, <2>5, <2>7, <3>1
    <2>10. CASE ~(place = "insert" /\ d = c) /\ ~(place = "submit" /\ d = c)
      <3>1. Sn <= S /\ In <= I
        BY <2>1, <2>3, <2>4, <2>10
      <3> QED BY <2>1, <2>2, <2>5, <2>7, <3>1
    <2> QED BY <2>8, <2>9, <2>10
  <1>2. Bounded'
    BY <1>1 DEF Bounded
  <1> QED BY <1>2 DEF LimitInv, Timely, Behind, Places

\* A committed scan that is given up is counted as one that no longer waits.
LEMMA AbandonKeeps ==
    ASSUME LongDay, Types, Clocks, LimitInv, UNCHANGED <<waiting, jobs>>,
           NEW k \in Caller, Abandon(k)
    PROVE  LimitInv'
  <1>1. ASSUME NEW c \in Cruise
        PROVE  Count(c)' + Cardinality(Inserting(c)') <= Limit
    <2> DEFINE P == Cardinality(Pairs(recent[c]))
               Pn == Cardinality(Pairs(recent'[c]))
               H == Cardinality(Held(waiting, c))
               S == Cardinality(At(callerAt, callerFor, "submit", c))
               I == Cardinality(At(callerAt, callerFor, "insert", c))
               Sn == Cardinality(At(callerAt', callerFor', "submit", c))
               In == Cardinality(At(callerAt', callerFor', "insert", c))
    <2>1. /\ P \in Nat /\ H \in Nat /\ S \in Nat /\ I \in Nat
          /\ Sn \in Nat /\ In \in Nat
      BY PartsFinite, AtFinite DEF Types, Clocks
    <2>2. /\ Count(c) = P + H + S /\ Cardinality(Inserting(c)) = I
          /\ Count(c)' = Pn + H + Sn /\ Cardinality(Inserting(c)') = In
      BY CountIs DEF Inserting
    <2>3. Sn = S - (IF callerAt[k] = "submit" /\ callerFor[k] = c THEN 1 ELSE 0)
                 + (IF "idle" = "submit" /\ None = c THEN 1 ELSE 0)
      BY EnterCounts DEF Types, Abandon, Return
    <2>4. In = I - (IF callerAt[k] = "insert" /\ callerFor[k] = c THEN 1 ELSE 0)
                 + (IF "idle" = "insert" /\ None = c THEN 1 ELSE 0)
      BY EnterCounts DEF Types, Abandon, Return
    <2>5. Pn = P + (IF callerAt[k] = "submit" /\ callerFor[k] = c THEN 1 ELSE 0)
      BY AbandonCounts
    <2>6. P + H + S + I <= Limit /\ Limit \in Nat
      BY <2>2, LimitIs DEF LimitInv, Bounded
    <2> HIDE DEF P, Pn, H, S, I, Sn, In
    <2> QED BY <2>1, <2>2, <2>3, <2>4, <2>5, <2>6
  <1>2. Bounded'
    BY <1>1 DEF Bounded
  <1> QED BY <1>2 DEF LimitInv, Timely, Behind, Places

\* A scan that is committed joins the queue.
LEMMA SubmitLimit ==
    ASSUME LongDay, Types, Clocks, LimitInv, Types', NEW k \in Caller, Submit(k)
    PROVE  LimitInv'
  <1> DEFINE b == callerFor[k]
             e == [cruise |-> b, auto |-> k = Ticker, left |-> Day]
             n == Len(waiting) + 1
  <1>1. /\ e \in Entry /\ e.cruise = b /\ e.left = Day
        /\ callerAt[k] = "submit" /\ b \in Cruise
    BY NumbersAssumption DEF Entry, Submit, Types, CallerTypes
  <1>2. /\ waiting' = Append(waiting, e) /\ waiting \in Seq(Entry)
        /\ UNCHANGED <<jobs, recent>>
    BY DEF Submit, Types
  <1> HIDE DEF e
  <1>3. /\ DOMAIN waiting' = DOMAIN waiting \cup {n} /\ n \notin DOMAIN waiting
        /\ Len(waiting') = n /\ n \in Nat \ {0}
        /\ waiting'[n] = e
        /\ \A i \in DOMAIN waiting : i \in Nat \ {0} /\ i < n /\ waiting'[i] = waiting[i]
    BY <1>1, <1>2
  <1> HIDE DEF n
  <1>4. ASSUME NEW c \in Cruise
        PROVE  /\ Count(c)' + Cardinality(Inserting(c)') <= Limit
               /\ Cardinality(Held(waiting', c)) <= Limit
    <2> DEFINE P == Cardinality(Pairs(recent[c]))
               H == Cardinality(Held(waiting, c))
               Hn == Cardinality(Held(waiting', c))
               S == Cardinality(At(callerAt, callerFor, "submit", c))
               I == Cardinality(At(callerAt, callerFor, "insert", c))
               Sn == Cardinality(At(callerAt', callerFor', "submit", c))
               In == Cardinality(At(callerAt', callerFor', "insert", c))
    <2>1. /\ P \in Nat /\ H \in Nat /\ Hn \in Nat /\ S \in Nat /\ I \in Nat
          /\ Sn \in Nat /\ In \in Nat
      BY PartsFinite, HeldFinite, AtFinite DEF Types, Clocks
    <2>2. /\ Count(c) = P + H + S /\ Cardinality(Inserting(c)) = I
          /\ Count(c)' = P + Hn + Sn /\ Cardinality(Inserting(c)') = In
      BY <1>2, CountIs DEF Inserting
    <2>3. Sn = S - (IF callerAt[k] = "submit" /\ b = c THEN 1 ELSE 0)
                 + (IF "idle" = "submit" /\ None = c THEN 1 ELSE 0)
      BY EnterCounts DEF Types, Submit, Return
    <2>4. In = I - (IF callerAt[k] = "insert" /\ b = c THEN 1 ELSE 0)
                 + (IF "idle" = "insert" /\ None = c THEN 1 ELSE 0)
      BY EnterCounts DEF Types, Submit, Return
    <2>5. Hn = H + (IF b = c THEN 1 ELSE 0)
      <3>1. IsFiniteSet(Held(waiting, c)) /\ H \in Nat
        BY <1>2, HeldFinite
      <3>2. CASE b = c
        <4>1. Held(waiting', c) = Held(waiting, c) \cup {n}
          BY <1>1, <1>3, <3>2, NumbersAssumption DEF Held
        <4>2. n \notin Held(waiting, c)
          BY <1>3 DEF Held
        <4> QED BY <3>1, <3>2, <4>1, <4>2, FS_AddElement
      <3>3. CASE b # c
        <4>1. Held(waiting', c) = Held(waiting, c)
          BY <1>1, <1>3, <3>3 DEF Held
        <4> QED BY <3>1, <3>3, <4>1
      <3> QED BY <3>2, <3>3
    <2>6. P + H + S + I <= Limit /\ Limit \in Nat
      BY <2>2, LimitIs DEF LimitInv, Bounded
    <2> HIDE DEF P, H, Hn, S, I, Sn, In
    <2>7. Hn + Sn = H + S /\ In = I
      BY <1>1, <2>1, <2>3, <2>4, <2>5
    <2>8. Count(c)' + Cardinality(Inserting(c)') <= Limit
      BY <2>1, <2>2, <2>6, <2>7
    <2>9. Hn <= Limit
      BY <2>1, <2>6, <2>7
    <2> QED BY <2>8, <2>9 DEF Hn
  <1>5. \A i \in DOMAIN waiting' : waiting'[i].left > 0
    BY <1>1, <1>3, Counted, NumbersAssumption DEF LimitInv
  <1>6. n <= Places
    BY <1>3, <1>4, <1>5, Short DEF Types
  <1>7. ASSUME NEW i \in DOMAIN waiting'
        PROVE  /\ jobs' = {} => waiting'[i].left >= Day - Behind(i) - MaxScanTicks
               /\ \A j \in jobs' : waiting'[i].left >= Day - Behind(i) - j.age
    <2>1. CASE i \in DOMAIN waiting
      BY <1>2, <1>3, <2>1 DEF LimitInv, Timely
    <2>2. CASE i = n
      <3>1. Behind(n) \in Int /\ Behind(n) >= 0
        BY <1>3, <1>6, BehindFacts
      <3>2. \A j \in jobs' : j.age \in Nat
        BY NumbersAssumption DEF Types, Job
      <3> QED BY <1>1, <1>3, <2>2, <3>1, <3>2, NumbersAssumption
    <2> QED BY <1>3, <2>1, <2>2
  <1>8. Bounded'
    BY <1>4 DEF Bounded
  <1> QED BY <1>7, <1>8 DEF LimitInv, Timely, Behind, Places

\* The scan in front starts: it is counted as started instead of waiting.
LEMMA BeginLimit ==
    ASSUME LongDay, Types, Clocks, LimitInv, BeginScan
    PROVE  LimitInv'
  <1> DEFINE d == waiting[1].cruise
  <1>1. /\ waiting \in Seq(Entry) /\ Len(waiting) > 0 /\ 1 \in DOMAIN waiting
        /\ waiting[1] \in Entry /\ waiting' = Tail(waiting) /\ jobs = {}
        /\ UNCHANGED <<callerAt, callerFor>>
    BY FrontEntry DEF BeginScan, StartJob, callers, Types
  <1>2. /\ waiting' \in Seq(Entry)
        /\ \A i \in DOMAIN waiting' :
               /\ i \in Nat \ {0} /\ i + 1 \in DOMAIN waiting
               /\ waiting'[i] = waiting[i + 1]
    BY <1>1
  <1>3. waiting[1].left > 0
    BY <1>1, Counted DEF LimitInv
  <1>4. ASSUME NEW c \in Cruise
        PROVE  Count(c)' + Cardinality(Inserting(c)') <= Limit
    <2> DEFINE A == Held(waiting', c)
               B == Held(waiting, c)
               f == [i \in A |-> i + 1]
    <2>1. /\ IsFiniteSet(B) /\ Cardinality(A) \in Nat /\ Cardinality(B) \in Nat
      BY <1>1, <1>2, HeldFinite
    <2>2. \A i \in A : i + 1 \in B \ {1}
      BY <1>2 DEF Held
    <2>3. \A i \in A : i \in Nat
      BY <1>2 DEF Held
    <2>4. c = d => 1 \in B
      BY <1>1, <1>3 DEF Held
    <2> HIDE DEF A, B
    <2>5. f \in [A -> B \ {1}]
      BY <2>2
    <2>6. f \in Injection(A, B \ {1})
      <3>1. \A i, k \in A : f[i] = f[k] => i = k
        BY <2>3
      <3> HIDE DEF f
      <3> QED BY <2>5, <3>1, Fun_IsInj
    <2>7. /\ IsFiniteSet(B \ {1})
          /\ Cardinality(B \ {1}) =
                 IF 1 \in B THEN Cardinality(B) - 1 ELSE Cardinality(B)
      BY <2>1, FS_RemoveElement
    <2> HIDE DEF f
    <2>8. Cardinality(A) <= Cardinality(B \ {1})
      BY <2>6, <2>7, FS_Injection
    <2>9. Cardinality(Pairs(recent'[c])) =
              Cardinality(Pairs(recent[c])) + (IF c = d THEN 1 ELSE 0)
      BY <1>3, BeginCounts
    <2>10. Cardinality(Pairs(recent[c])) \in Nat
      BY PairsFinite DEF Clocks
    <2> HIDE DEF d
    <2>11. Cardinality(Pairs(recent'[c])) + Cardinality(A) <=
               Cardinality(Pairs(recent[c])) + Cardinality(B)
      <3>1. CASE c = d
        <4>1. Cardinality(A) <= Cardinality(B) - 1
          BY <2>1, <2>4, <2>7, <2>8, <3>1
        <4>2. Cardinality(Pairs(recent'[c])) = Cardinality(Pairs(recent[c])) + 1
          BY <2>9, <3>1
        <4> QED BY <2>1, <2>10, <4>1, <4>2
      <3>2. CASE c # d
        <4>1. Cardinality(A) <= Cardinality(B)
          BY <2>1, <2>7, <2>8
        <4>2. Cardinality(Pairs(recent'[c])) = Cardinality(Pairs(recent[c]))
          BY <2>9, <2>10, <3>2
        <4> QED BY <2>1, <2>10, <4>1, <4>2
      <3> QED BY <3>1, <3>2
    <2> DEFINE P == Cardinality(Pairs(recent[c]))
               Pn == Cardinality(Pairs(recent'[c]))
               S == Cardinality(At(callerAt, callerFor, "submit", c))
               I == Cardinality(At(callerAt, callerFor, "insert", c))
    <2>12. /\ Count(c) = P + Cardinality(B) + S
           /\ Cardinality(Inserting(c)) = I
           /\ Count(c)' = Pn + Cardinality(A) + S
           /\ Cardinality(Inserting(c)') = I
      BY <1>1, CountIs DEF A, B, Inserting
    <2>13. /\ P \in Nat /\ Pn \in Nat /\ S \in Nat /\ I \in Nat /\ Limit \in Nat
      BY <2>9, <2>10, AtFinite, LimitIs
    <2>14. P + Cardinality(B) + S + I <= Limit
      BY <2>12 DEF LimitInv, Bounded
    <2> HIDE DEF P, Pn, S, I
    <2>15. Pn + Cardinality(A) <= P + Cardinality(B)
      BY <2>11 DEF P, Pn
    <2> QED BY <2>1, <2>12, <2>13, <2>14, <2>15
  <1>5. \A j \in jobs' : j.age = 0
    BY DEF BeginScan, StartJob
  <1>6. jobs' # {}
    BY DEF BeginScan, StartJob
  <1>7. ASSUME NEW i \in DOMAIN waiting'
        PROVE  waiting'[i].left >= Day - Behind(i) - 0
    <2>1. /\ waiting[i + 1].left >= Day - Behind(i + 1) - MaxScanTicks
          /\ waiting[i + 1].left \in Nat
      <3>1. i + 1 \in DOMAIN waiting
        BY <1>2
      <3>2. waiting[i + 1] \in Entry
        BY <1>1, <3>1
      <3>3. waiting[i + 1].left \in Nat
        BY <3>2, NumbersAssumption DEF Entry
      <3>4. waiting[i + 1].left >= Day - Behind(i + 1) - MaxScanTicks
        BY <1>1, <3>1 DEF LimitInv, Timely
      <3> QED BY <3>3, <3>4
    <2>2. /\ Behind(i) \in Int /\ Behind(i + 1) \in Int
          /\ Behind(i) = Behind(i + 1) + MaxScanTicks
      BY <1>2, BehindFacts
    <2> QED BY <1>2, <2>1, <2>2, NumbersAssumption
  <1> QED BY <1>4, <1>5, <1>6, <1>7 DEF LimitInv, Bounded, Timely, Behind, Places

\* Time passes only while a scan runs or none waits.
LEMMA PassLimit ==
    ASSUME LongDay, Types, Clocks, LimitInv, Pass
    PROVE  LimitInv'
  <1>1. /\ waiting \in Seq(Entry) /\ DOMAIN waiting' = DOMAIN waiting
        /\ \A i \in DOMAIN waiting :
               waiting'[i] = [waiting[i] EXCEPT !.left = Less(waiting[i].left)]
        /\ jobs = {} => waiting = <<>>
        /\ jobs' = {[j EXCEPT !.age = j.age + 1] : j \in jobs}
    BY DEF Pass, Types
  <1>2. ASSUME NEW i \in DOMAIN waiting
        PROVE  /\ waiting[i].left \in Nat /\ waiting[i].left > 0
               /\ waiting'[i].left = waiting[i].left - 1
               /\ waiting'[i].cruise = waiting[i].cruise
    <2>1. waiting[i] \in Entry /\ waiting[i].left > 0
      BY <1>1, Counted DEF LimitInv
    <2>2. waiting[i].left \in Nat
      BY <2>1, NumbersAssumption DEF Entry
    <2>3. Less(waiting[i].left) = waiting[i].left - 1
      BY <2>1, <2>2, NamesAssumption DEF Less
    <2>4. DOMAIN waiting[i] = {"cruise", "auto", "left"}
      BY <2>1 DEF Entry
    <2> QED BY <1>1, <2>1, <2>2, <2>3, <2>4
  <1>3. ASSUME NEW c \in Cruise
        PROVE  Count(c)' + Cardinality(Inserting(c)') <= Limit
    <2>1. Held(waiting', c) \subseteq Held(waiting, c)
      BY <1>1, <1>2 DEF Held
    <2>2. /\ IsFiniteSet(Held(waiting, c))
          /\ Cardinality(Held(waiting, c)) \in Nat
      BY <1>1, HeldFinite
    <2>3. /\ Cardinality(Held(waiting', c)) <= Cardinality(Held(waiting, c))
          /\ Cardinality(Held(waiting', c)) \in Nat
      BY <2>1, <2>2, FS_Subset, FS_CardinalityType
    <2>4. /\ Cardinality(Pairs(recent'[c])) <= Cardinality(Pairs(recent[c]))
          /\ Cardinality(Pairs(recent'[c])) \in Nat
          /\ Cardinality(Pairs(recent[c])) \in Nat
      BY PassAges, PairsFinite DEF Clocks
    <2>5. Count(c) + Cardinality(Inserting(c)) <= Limit /\ Limit \in Nat
      BY LimitIs DEF LimitInv, Bounded
    <2>6. UNCHANGED <<callerAt, callerFor>>
      BY DEF Pass, callers
    <2>7. /\ Cardinality(At(callerAt, callerFor, "submit", c)) \in Nat
          /\ Cardinality(Inserting(c)) \in Nat
      BY AtFinite DEF Inserting
    <2>8. Cardinality(Inserting(c)') = Cardinality(Inserting(c))
      BY <2>6 DEF Inserting
    <2>9. Count(c)' <= Count(c) /\ Count(c)' \in Nat /\ Count(c) \in Nat
      BY <2>2, <2>3, <2>4, <2>6, <2>7, CountIs
    <2> QED BY <2>5, <2>7, <2>8, <2>9
  <1>4. ASSUME NEW i \in DOMAIN waiting'
        PROVE  /\ jobs' # {}
               /\ \A j \in jobs' : waiting'[i].left >= Day - Behind(i) - j.age
    <2>1. i \in DOMAIN waiting /\ i \in Nat
      BY <1>1
    <2>2. jobs # {}
      BY <1>1, <2>1
    <2>3. jobs' # {}
      <3>1. PICK k \in jobs : TRUE
        BY <2>2
      <3>2. [k EXCEPT !.age = k.age + 1] \in jobs'
        BY <1>1, <3>1
      <3> QED BY <3>2
    <2>4. ASSUME NEW j \in jobs'
          PROVE  waiting'[i].left >= Day - Behind(i) - j.age
      <3>1. PICK k \in jobs : j = [k EXCEPT !.age = k.age + 1]
        BY <1>1
      <3>2. k.age \in Nat /\ j.age = k.age + 1
        BY <3>1, NumbersAssumption DEF Types, Job
      <3>3. waiting[i].left >= Day - Behind(i) - k.age
        BY <2>1 DEF LimitInv, Timely
      <3>4. Behind(i) \in Int
        BY <2>1, BehindFacts
      <3> QED BY <1>2, <2>1, <3>2, <3>3, <3>4, NumbersAssumption
    <2> QED BY <2>3, <2>4
  <1> QED BY <1>3, <1>4 DEF LimitInv, Bounded, Timely, Behind, Places

\* A crash empties the queue; what waited in it, or was about to, is counted all
\* the same.
LEMMA CrashLimit ==
    ASSUME Types, Clocks, LimitInv, Crash
    PROVE  LimitInv'
  <1>1. /\ waiting' = <<>>
        /\ \A k \in Caller : callerAt'[k] = "idle"
    BY DEF Crash
  <1>2. ASSUME NEW c \in Cruise
        PROVE  Count(c)' + Cardinality(Inserting(c)') <= Limit
    <2>1. /\ Held(waiting', c) = {}
          /\ At(callerAt', callerFor', "submit", c) = {}
          /\ At(callerAt', callerFor', "insert", c) = {}
      BY <1>1 DEF Held, At
    <2>2. /\ Cardinality(Held(waiting', c)) = 0
          /\ Cardinality(At(callerAt', callerFor', "submit", c)) = 0
          /\ Cardinality(Inserting(c)') = 0
      BY <2>1, FS_EmptySet DEF Inserting
    <2>3. /\ Cardinality(Pairs(recent'[c])) \in Nat
          /\ Cardinality(Pairs(recent'[c])) <=
                 Cardinality(Pairs(recent[c])) + Cardinality(Held(waiting, c))
                     + Cardinality(At(callerAt, callerFor, "submit", c))
      BY CrashMerges, PairsFinite
    <2>4. Count(c)' <= Count(c) /\ Count(c)' \in Nat
      BY <2>2, <2>3, CountIs
    <2>5. Count(c) + Cardinality(Inserting(c)) <= Limit /\ Limit \in Nat
      BY LimitIs DEF LimitInv, Bounded
    <2>6. Count(c) \in Nat /\ Cardinality(Inserting(c)) \in Nat
      BY PartsFinite, CountIs DEF Types, Clocks, Inserting
    <2> QED BY <2>2, <2>4, <2>5, <2>6
  <1>3. Bounded'
    BY <1>2 DEF Bounded
  <1> QED BY <1>1, <1>3 DEF LimitInv, Timely

\* The end of a scan leaves the time it may have taken.
LEMMA EndLimit ==
    ASSUME Types, LimitInv, LongDay, jobs # {}, jobs' = {},
           UNCHANGED <<callers, waiting, recent>>
    PROVE  LimitInv'
  <1>1. Bounded'
    BY DEF LimitInv, Bounded, Count, Started, Waiting, Committed,
           Inserting, At, callers
  <1>2. ASSUME NEW i \in DOMAIN waiting
        PROVE  waiting[i].left >= Day - Behind(i) - MaxScanTicks
    <2>1. PICK j \in jobs : TRUE
      OBVIOUS
    <2>2. /\ j.age \in Nat /\ j.age <= MaxScanTicks
          /\ waiting[i].left >= Day - Behind(i) - j.age
      BY NumbersAssumption DEF Types, Job, LimitInv, Timely
    <2>3. waiting[i].left \in Nat /\ i \in Nat
      <3>1. waiting[i] \in Entry /\ i \in Nat
        BY DEF Types
      <3> QED BY <3>1, NumbersAssumption DEF Entry
    <2>4. Behind(i) \in Int
      BY <2>3, BehindFacts
    <2> QED BY <2>2, <2>3, <2>4, NumbersAssumption
  <1> QED BY <1>1, <1>2 DEF LimitInv, Timely, Behind, Places

LEMMA LimitStep ==
    LongDay /\ Types /\ Clocks /\ LimitInv /\ [Next]_vars /\ Types' => LimitInv'
  <1> SUFFICES ASSUME LongDay, Types, Clocks, LimitInv, [Next]_vars, Types'
               PROVE  LimitInv'
    OBVIOUS
  <1>1. ASSUME UNCHANGED <<callers, waiting, jobs, recent>> PROVE LimitInv'
    BY <1>1
    DEF LimitInv, Bounded, Timely, Count, Started, Waiting, Committed, Inserting,
        At, Behind, Places, callers
  <1>2. ASSUME NEW c \in Edited, CreateCruise(c) \/ UpdateCruise(c)
        PROVE  LimitInv'
    BY <1>1, <1>2 DEF CreateCruise, UpdateCruise
  <1>3. CASE LoadCruises \/ EndTick \/ UNCHANGED vars
    BY <1>1, <1>3 DEF LoadCruises, EndTick, vars
  <1>4. ASSUME NEW k \in Requests, NEW c \in Asked, RequestScan(k, c)
        PROVE  LimitInv'
    <2>1. k \in Caller /\ c \in Cruise
      BY EditedAssumption DEF Requests
    <2>2. /\ callerAt[k] = "idle" /\ WithinLimit(c) /\ Enter(k, "insert", c)
          /\ UNCHANGED <<waiting, jobs, recent>>
      BY <1>4 DEF RequestScan
    <2> QED BY <2>1, <2>2, MoveKeeps
  <1>5. ASSUME NEW k \in Caller, InsertScan(k) PROVE LimitInv'
    <2>1. /\ callerAt[k] = "insert" /\ Enter(k, "submit", callerFor[k])
          /\ UNCHANGED <<waiting, jobs, recent>>
      BY <1>5 DEF InsertScan
    <2>2. callerFor[k] \in Cruise
      BY <2>1 DEF Types, CallerTypes
    <2> QED BY <2>1, <2>2, MoveKeeps
  <1>6. ASSUME NEW c \in Cruise, AskQueue(c) PROVE LimitInv'
    <2>1. Enter(Ticker, "check", c) /\ UNCHANGED <<waiting, jobs, recent>>
      BY <1>6 DEF AskQueue
    <2> QED BY <2>1, MoveKeeps, CallerAssumption
  <1>7. CASE CheckRateLimit
    <2>1. callerAt[Ticker] = "check" /\ callerFor[Ticker] \in Cruise
      BY <1>7, CallerAssumption DEF CheckRateLimit, Types, CallerTypes
    <2>2. UNCHANGED <<waiting, jobs, recent>>
      BY <1>7 DEF CheckRateLimit
    <2>3. CASE WithinLimit(callerFor[Ticker])
      <3>1. Enter(Ticker, "insert", callerFor[Ticker])
        BY <1>7, <2>3 DEF CheckRateLimit
      <3> QED BY <2>1, <2>2, <2>3, <3>1, MoveKeeps, CallerAssumption
    <2>4. CASE ~WithinLimit(callerFor[Ticker])
      <3>1. Enter(Ticker, "idle", None)
        BY <1>7, <2>4 DEF CheckRateLimit, Return
      <3> QED BY <2>2, <3>1, MoveKeeps, CallerAssumption
    <2> QED BY <2>3, <2>4
  <1>8. ASSUME NEW k \in Caller, RequestFails(k) \/ (k = Ticker /\ TickFails)
        PROVE  LimitInv'
    BY <1>8, AbandonKeeps DEF RequestFails, TickFails
  <1>9. CASE CompleteScan \/ FailScan
    BY <1>9, EndLimit DEF CompleteScan, FailScan
  <1> QED
    BY <1>2, <1>3, <1>4, <1>5, <1>6, <1>7, <1>8, <1>9, SubmitLimit, BeginLimit,
       PassLimit, CrashLimit, CallerAssumption
    DEF Next, Scheduling, Requests

LEMMA InitLimit == Init => LimitInv
  <1> SUFFICES ASSUME Init PROVE LimitInv
    OBVIOUS
  <1>1. /\ waiting = <<>> /\ \A c \in Cruise : recent[c] = [t \in 1 .. Day |-> 0]
        /\ \A k \in Caller : callerAt[k] = "idle"
    BY DEF Init
  <1>2. ASSUME NEW c \in Cruise
        PROVE  Count(c) + Cardinality(Inserting(c)) <= Limit
    <2>1. /\ Held(waiting, c) = {}
          /\ At(callerAt, callerFor, "submit", c) = {} /\ Inserting(c) = {}
      BY <1>1 DEF Held, At, Inserting
    <2>2. ASSUME NEW p \in Pairs(recent[c]) PROVE FALSE
      <3>1. p[1] \in 1 .. Day /\ p[2] \in 1 .. recent[c][p[1]]
        BY PairsElement
      <3>2. recent[c][p[1]] = 0
        BY <1>1, <3>1
      <3> QED BY <3>1, <3>2
    <2>3. Pairs(recent[c]) = {}
      BY <2>2
    <2>4. /\ Cardinality(Pairs(recent[c])) = 0
          /\ Cardinality(Held(waiting, c)) = 0
          /\ Cardinality(At(callerAt, callerFor, "submit", c)) = 0
          /\ Cardinality(Inserting(c)) = 0
      BY <2>1, <2>3, FS_EmptySet
    <2>5. Count(c) = 0 + 0 + 0
      BY <2>4, CountIs
    <2>6. Count(c) + Cardinality(Inserting(c)) = 0
      BY <2>4, <2>5
    <2> QED BY <2>6, LimitIs
  <1> QED BY <1>1, <1>2 DEF LimitInv, Bounded, Timely

\* models.py:118 and queue.py:106: on a day in which all the scans that can count
\* at one time could run one after another, a scan that starts is still counted,
\* although its day began with its creation and although a tick and requests that
\* check at the same time pass the limit together.
THEOREM CountedTheorem == LongDay => (Spec => []CountedAtStart)
  <1> SUFFICES ASSUME LongDay PROVE Spec => []CountedAtStart
    OBVIOUS
  <1>1. Inv /\ LimitInv => CountedAtStart
    BY Counted DEF Inv, LimitInv, CountedAtStart
  <1>2. Inv /\ Clocks /\ LimitInv /\ [Next]_vars => LimitInv'
    BY LimitStep, NextInv DEF Inv
  <1>3. Inv => Types
    BY DEF Inv
  <1> QED BY <1>1, <1>2, <1>3, InitInv, NextInv, InitClocks, ClocksStep,
            InitLimit, PTL DEF Spec
=============================================================================
