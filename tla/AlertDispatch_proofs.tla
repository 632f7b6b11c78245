------------------------ MODULE AlertDispatch_proofs ------------------------
(***************************************************************************)
(* Proofs about AlertDispatch, for any number of scans, alerts, threads,   *)
(* prices and time steps.                                                  *)
(*                                                                         *)
(* Progress relates how far a scan is to what it has written, Distinct     *)
(* says that the stamps order the rows, and Remembered relates an alert,   *)
(* and every copy of it, to the last committed record of it.  Frame says   *)
(* what no step can change of a scan that has got so far.                  *)
(***************************************************************************)
EXTENDS AlertDispatch, WellFoundedInduction, TLAPS

Stage == Resting \cup {"stamped", "committed", "loaded", "judging", "recording"}
Copy == UNION {[A -> Row] : A \in SUBSET Alert}
Eval == [copy: Copy, history: SUBSET Scan, at: 0 .. MaxTime, todo: SUBSET Alert,
         heard: Nat]

Types ==
    /\ settings \in Deployments
    /\ clock \in 0 .. MaxTime
    /\ stage \in [Scan -> Stage]
    /\ price \in [Scan -> Price \cup {None}]
    /\ stamps \in Nat
    /\ stamp \in [Scan -> 0 .. stamps]
    /\ rows \subseteq Scan
    /\ alerts \in [Alert -> Row]
    /\ eval \in [Scan -> Eval]
    /\ outcome \in [Scan -> [Alert -> {"none", "delivered", "failed"}]]
    /\ \A s \in Scan, a \in Alert :
           outcome[s][a] = "delivered" => HasAddress(a)
    /\ recorded \in Seq(Scan \X Alert)
    /\ mishaps \in 0 .. MaxMishaps

Committed == {"committed", "loaded", "judging", "recording", "done"}
Judged == {"judging", "recording", "done", "failed"}

Begun(s) ==
    /\ stage[s] # "running" => price[s] \in Price /\ stamp[s] \in 1 .. stamps
    /\ s \in rows => stage[s] # "running"
    /\ stage[s] \in Committed => s \in rows

Evaluated(s) ==
    /\ eval[s].history \subseteq rows
    /\ eval[s].at <= clock
    /\ eval[s].todo \subseteq DOMAIN eval[s].copy
    /\ eval[s].heard <= Len(recorded)

Turns(s) ==
    /\ stage[s] \notin Judged =>
           /\ eval[s].todo = {}
           /\ \A a \in Alert : outcome[s][a] = "none"
    /\ stage[s] = "judging" => \A a \in eval[s].todo : outcome[s][a] = "none"
    /\ stage[s] = "recording" =>
           \E a \in eval[s].todo :
               /\ outcome[s][a] = "delivered"
               /\ \A b \in eval[s].todo \ {a} : outcome[s][b] = "none"
    /\ stage[s] \in {"judging", "recording"} => s \in eval[s].history

Progress == \A s \in Scan : Begun(s) /\ Evaluated(s) /\ Turns(s)

Logged == \A n \in 1 .. Len(recorded) : stage[recorded[n][1]] \in Judged

Distinct == \A s, t \in Scan : stamp[s] = stamp[t] /\ stamp[s] # 0 => s = t

\* the m-th of the first h records is the last one of alert a
LastOf(a, h, m) ==
    /\ m \in 1 .. h
    /\ recorded[m][2] = a
    /\ \A k \in 1 .. h : k > m => recorded[k][2] # a

\* last and p are what the first h records made of alert a
Shows(last, p, a, h) ==
    \/ /\ \A k \in 1 .. h : recorded[k][2] # a
       /\ last = None
    \/ \E m \in 1 .. h :
           /\ LastOf(a, h, m)
           /\ last = eval[recorded[m][1]].at
           /\ p = price[recorded[m][1]]

Remembered ==
    /\ \A a \in Alert :
           Shows(alerts[a].last, alerts[a].price, a, Len(recorded))
    /\ \A s \in Scan : \A a \in DOMAIN eval[s].copy :
           Shows(eval[s].copy[a].last, eval[s].copy[a].price, a, eval[s].heard)

-----------------------------------------------------------------------------
\* Types

LEMMA BlankType == Blank \in Eval
  <1>1. <<>> \in [{} -> Row]
    OBVIOUS
  <1>2. <<>> \in Copy
    BY <1>1 DEF Copy
  <1>3. 0 \in 0 .. MaxTime
    BY NumbersAssumption
  <1> QED BY <1>2, <1>3 DEF Blank, Eval

LEMMA InitTypes == Init => Types
  <1> SUFFICES ASSUME Init PROVE Types
    OBVIOUS
  <1>1. eval \in [Scan -> Eval]
    BY BlankType DEF Init
  <1>2. alerts \in [Alert -> Row]
    BY NumbersAssumption DEF Init, Row
  <1>3. recorded \in Seq(Scan \X Alert)
    BY DEF Init
  <1> QED
    BY <1>1, <1>2, <1>3, NumbersAssumption DEF Init, Types, Stage, Resting

LEMMA InitProgress == Init => Progress /\ Logged /\ Distinct /\ Remembered
  <1> SUFFICES ASSUME Init PROVE Progress /\ Logged /\ Distinct /\ Remembered
    OBVIOUS
  <1>1. Len(recorded) = 0
    BY DEF Init
  <1>2. Progress
    BY <1>1 DEF Init, Blank, Progress, Begun, Evaluated, Turns, Judged, Committed
  <1>3. Logged
    BY <1>1 DEF Logged
  <1>4. Distinct
    BY DEF Init, Distinct
  <1>5. Remembered
    BY <1>1 DEF Init, Blank, Remembered, Shows
  <1> QED BY <1>2, <1>3, <1>4, <1>5

\* The fields of the variables of an evaluation.
LEMMA EvalFields ==
    ASSUME Types, NEW s \in Scan
    PROVE  /\ eval[s].copy \in Copy
           /\ DOMAIN eval[s].copy \subseteq Alert
           /\ \A a \in DOMAIN eval[s].copy : eval[s].copy[a] \in Row
           /\ eval[s].history \subseteq Scan
           /\ eval[s].at \in 0 .. MaxTime
           /\ eval[s].todo \subseteq Alert
           /\ eval[s].heard \in Nat
  <1>1. eval[s] \in Eval
    BY DEF Types
  <1>2. eval[s].copy \in Copy
    BY <1>1 DEF Eval
  <1>3. PICK A \in SUBSET Alert : eval[s].copy \in [A -> Row]
    BY <1>2 DEF Copy
  <1>4. /\ eval[s].history \subseteq Scan
        /\ eval[s].at \in 0 .. MaxTime
        /\ eval[s].todo \subseteq Alert
        /\ eval[s].heard \in Nat
    BY <1>1 DEF Eval
  <1> QED BY <1>2, <1>3, <1>4

-----------------------------------------------------------------------------
\* What the steps that touch the variables of an evaluation make of them

LEMMA LoadAlertsEffect ==
    ASSUME Types, NEW s \in Scan, LoadAlerts(s)
    PROVE  /\ eval' \in [Scan -> Eval]
           /\ \A t \in Scan \ {s} : eval'[t] = eval[t]
           /\ eval'[s].copy = [a \in Enabled |-> alerts[a]]
           /\ eval'[s].history = eval[s].history
           /\ eval'[s].at = eval[s].at
           /\ eval'[s].todo = eval[s].todo
           /\ eval'[s].heard = Len(recorded)
  <1>1. [a \in Enabled |-> alerts[a]] \in Copy
    <2>1. Enabled \in SUBSET Alert
      BY DEF Enabled, Living
    <2>2. [a \in Enabled |-> alerts[a]] \in [Enabled -> Row]
      BY <2>1 DEF Types
    <2> QED BY <2>1, <2>2 DEF Copy
  <1>2. Len(recorded) \in Nat
    BY DEF Types
  <1> DEFINE new == [eval[s] EXCEPT !.copy = [a \in Enabled |-> alerts[a]],
                                   !.heard = Len(recorded)]
  <1>0. eval[s] \in Eval
    BY DEF Types
  <1>3. /\ new \in Eval
        /\ new.copy = [a \in Enabled |-> alerts[a]]
        /\ new.history = eval[s].history
        /\ new.at = eval[s].at
        /\ new.todo = eval[s].todo
        /\ new.heard = Len(recorded)
    BY <1>0, <1>1, <1>2 DEF Eval
  <1>4. eval' = [eval EXCEPT ![s] = new]
    BY DEF LoadAlerts
  <1> HIDE DEF new
  <1> QED BY <1>3, <1>4 DEF Types

LEMMA LoadHistoryEffect ==
    ASSUME Types, NEW s \in Scan, LoadHistory(s)
    PROVE  /\ eval' \in [Scan -> Eval]
           /\ \A t \in Scan \ {s} : eval'[t] = eval[t]
           /\ eval'[s].copy = eval[s].copy
           /\ eval'[s].history = rows
           /\ eval'[s].at = clock
           /\ eval'[s].todo = DOMAIN eval[s].copy
           /\ eval'[s].heard = eval[s].heard
  <1> DEFINE new == [eval[s] EXCEPT !.history = rows, !.at = clock,
                                   !.todo = DOMAIN eval[s].copy]
  <1>0. eval[s] \in Eval
    BY DEF Types
  <1>1. DOMAIN eval[s].copy \in SUBSET Alert
    BY EvalFields
  <1>3. /\ new \in Eval
        /\ new.copy = eval[s].copy
        /\ new.history = rows
        /\ new.at = clock
        /\ new.todo = DOMAIN eval[s].copy
        /\ new.heard = eval[s].heard
    BY <1>0, <1>1 DEF Eval, Types
  <1>4. eval' = [eval EXCEPT ![s] = new]
    BY DEF LoadHistory
  <1> HIDE DEF new
  <1> QED BY <1>3, <1>4 DEF Types

\* The turn of one alert ends.
LEMMA TurnEffect ==
    ASSUME Types, NEW s \in Scan, NEW a \in Alert,
           eval' = [eval EXCEPT ![s].todo = @ \ {a}]
    PROVE  /\ eval' \in [Scan -> Eval]
           /\ \A t \in Scan \ {s} : eval'[t] = eval[t]
           /\ eval'[s].copy = eval[s].copy
           /\ eval'[s].history = eval[s].history
           /\ eval'[s].at = eval[s].at
           /\ eval'[s].todo = eval[s].todo \ {a}
           /\ eval'[s].heard = eval[s].heard
  <1> DEFINE new == [eval[s] EXCEPT !.todo = @ \ {a}]
  <1>0. eval[s] \in Eval
    BY DEF Types
  <1>3. /\ new \in Eval
        /\ new.copy = eval[s].copy
        /\ new.history = eval[s].history
        /\ new.at = eval[s].at
        /\ new.todo = eval[s].todo \ {a}
        /\ new.heard = eval[s].heard
    BY <1>0 DEF Eval
  <1>4. eval' = [eval EXCEPT ![s] = new]
    BY DEF Types
  <1> HIDE DEF new
  <1> QED BY <1>3, <1>4 DEF Types

\* What recording the message for alert a makes of its row.
LEMMA RecordEffect ==
    ASSUME Types, NEW s \in Scan, NEW a \in Alert, price[s] \in Price,
           alerts' = [alerts EXCEPT ![a].last = eval[s].at,
                                    ![a].price = price[s]]
    PROVE  /\ alerts' \in [Alert -> Row]
           /\ \A b \in Alert \ {a} : alerts'[b] = alerts[b]
           /\ alerts'[a].last = eval[s].at
           /\ alerts'[a].price = price[s]
  <1> DEFINE new == [alerts[a] EXCEPT !.last = eval[s].at, !.price = price[s]]
  <1>1. alerts[a] \in Row
    BY DEF Types
  <1>2. eval[s].at \in 0 .. MaxTime
    BY EvalFields
  <1>3. /\ new \in Row
        /\ new.last = eval[s].at
        /\ new.price = price[s]
    BY <1>1, <1>2 DEF Row
  <1>4. alerts' = [alerts EXCEPT ![a] = new]
    BY DEF Types
  <1> HIDE DEF new
  <1> QED BY <1>3, <1>4 DEF Types

\* An alert that begins or ends to exist keeps the rest of its row.
LEMMA PresenceEffect ==
    ASSUME Types, NEW a \in Alert, NEW i \in {"there", "gone"},
           alerts' = [alerts EXCEPT ![a].is = i]
    PROVE  /\ alerts' \in [Alert -> Row]
           /\ \A b \in Alert : /\ alerts'[b].last = alerts[b].last
                               /\ alerts'[b].price = alerts[b].price
  <1> DEFINE new == [alerts[a] EXCEPT !.is = i]
  <1>1. alerts[a] \in Row
    BY DEF Types
  <1>3. /\ new \in Row
        /\ new.last = alerts[a].last
        /\ new.price = alerts[a].price
    BY <1>1 DEF Row
  <1>4. alerts' = [alerts EXCEPT ![a] = new]
    BY DEF Types
  <1> HIDE DEF new
  <1> QED BY <1>3, <1>4 DEF Types

LEMMA SameAddresses ==
    ASSUME settings' = settings
    PROVE  \A a : HasAddress(a)' <=> HasAddress(a)
  BY DEF HasAddress, Configured

\* A mishap is counted.
LEMMA MishapCounted ==
    ASSUME Types, Mishap PROVE mishaps' \in 0 .. MaxMishaps
  BY NumbersAssumption DEF Types, Mishap

LEMMA TypesNext ==
    ASSUME Types, Progress, Next
    PROVE  Types'
  <1>0. settings' = settings
    BY DEF Next, WriteHistory, CommitScan, Evaluate, LoadAlerts, LoadHistory,
           EndEvaluation, Record, RecordFails, Send, CreateAlert, DeleteAlert,
           Tick, Crash
  <1>1. ASSUME NEW s \in Scan, WriteHistory(s) PROVE Types'
    <2>1. price' \in [Scan -> Price \cup {None}]
      BY <1>1 DEF WriteHistory, Types
    <2>2. stamps' \in Nat /\ stamp' \in [Scan -> 0 .. stamps']
      BY <1>1 DEF WriteHistory, Types
    <2>3. stage' \in [Scan -> Stage]
      BY <1>1 DEF WriteHistory, Types, Stage
    <2> QED BY <1>0, <1>1, <2>1, <2>2, <2>3, SameAddresses
            DEF WriteHistory, Types
  <1>2. ASSUME NEW s \in Scan, CommitScan(s) PROVE Types'
    <2>1. mishaps' \in 0 .. MaxMishaps
      BY <1>2, MishapCounted DEF CommitScan, Types
    <2>2. stage' \in [Scan -> Stage] /\ rows' \subseteq Scan
      BY <1>2 DEF CommitScan, Types, Stage, Resting
    <2> QED BY <1>0, <1>2, <2>1, <2>2, SameAddresses DEF CommitScan, Types
  <1>3. ASSUME NEW s \in Scan, LoadAlerts(s) PROVE Types'
    <2>1. stage' \in [Scan -> Stage]
      BY <1>3 DEF LoadAlerts, Types, Stage, Resting
    <2> QED BY <1>0, <1>3, <2>1, LoadAlertsEffect, SameAddresses
            DEF LoadAlerts, Types
  <1>4. ASSUME NEW s \in Scan, LoadHistory(s) PROVE Types'
    <2>1. stage' \in [Scan -> Stage]
      BY <1>4 DEF LoadHistory, Types, Stage
    <2> QED BY <1>0, <1>4, <2>1, LoadHistoryEffect, SameAddresses
            DEF LoadHistory, Types
  <1>5. ASSUME NEW s \in Scan, NEW a \in Alert, Send(s, a) PROVE Types'
    <2>1. PICK r \in Results(a) :
              /\ outcome' = [outcome EXCEPT ![s][a] = r]
              /\ IF r = "delivered"
                 THEN /\ stage' = [stage EXCEPT ![s] = "recording"]
                      /\ UNCHANGED eval
                 ELSE /\ eval' = [eval EXCEPT ![s].todo = @ \ {a}]
                      /\ UNCHANGED stage
      BY <1>5 DEF Send
    <2>2. r \in {"delivered", "failed"} /\ (r = "delivered" => HasAddress(a))
      BY DEF Results
    <2>3. outcome' \in [Scan -> [Alert -> {"none", "delivered", "failed"}]]
      BY <2>1, <2>2 DEF Types
    <2>4. \A t \in Scan, b \in Alert :
              outcome'[t][b] = "delivered" => HasAddress(b)
      BY <2>1, <2>2 DEF Types
    <2>5. stage' \in [Scan -> Stage]
      BY <2>1 DEF Types, Stage
    <2>6. eval' \in [Scan -> Eval]
      BY <2>1, TurnEffect DEF Types
    <2> QED BY <1>0, <1>5, <2>3, <2>4, <2>5, <2>6, SameAddresses
            DEF Send, Types
  <1>6. ASSUME NEW s \in Scan, Record(s) PROVE Types'
    <2>1. PICK a \in Living :
              /\ Told(s, a)
              /\ alerts' = [alerts EXCEPT ![a].last = eval[s].at,
                                           ![a].price = price[s]]
              /\ recorded' = Append(recorded, <<s, a>>)
              /\ eval' = [eval EXCEPT ![s].todo = @ \ {a}]
      BY <1>6 DEF Record
    <2>2. a \in Alert
      BY DEF Living
    <2>3. price[s] \in Price
      BY <1>6 DEF Record, Progress, Begun
    <2>4. alerts' \in [Alert -> Row]
      BY <2>1, <2>2, <2>3, RecordEffect
    <2>5. eval' \in [Scan -> Eval]
      BY <2>1, <2>2, TurnEffect
    <2>6. recorded' \in Seq(Scan \X Alert)
      BY <2>1, <2>2 DEF Types
    <2>7. stage' \in [Scan -> Stage]
      BY <1>6 DEF Record, Types, Stage
    <2> QED BY <1>0, <1>6, <2>4, <2>5, <2>6, <2>7, SameAddresses
            DEF Record, Types
  <1>7. ASSUME NEW s \in Scan, RecordFails(s) PROVE Types'
    <2>1. mishaps' \in 0 .. MaxMishaps
      BY <1>7, MishapCounted DEF RecordFails, Types
    <2>2. stage' \in [Scan -> Stage]
      BY <1>7 DEF RecordFails, Types, Stage, Resting
    <2> QED BY <1>0, <1>7, <2>1, <2>2, SameAddresses DEF RecordFails, Types
  <1>8. ASSUME NEW s \in Scan, EndEvaluation(s) PROVE Types'
    <2>2. stage' \in [Scan -> Stage]
      BY <1>8 DEF EndEvaluation, Types, Stage, Resting
    <2> QED BY <1>0, <1>8, <2>2, SameAddresses DEF EndEvaluation, Types
  <1>9. ASSUME NEW a \in Alert, CreateAlert(a) PROVE Types'
    <2>1. alerts' \in [Alert -> Row]
      BY <1>9, PresenceEffect DEF CreateAlert
    <2> QED BY <1>0, <1>9, <2>1, SameAddresses DEF CreateAlert, Types
  <1>10. ASSUME NEW a \in Alert, DeleteAlert(a) PROVE Types'
    <2>1. alerts' \in [Alert -> Row]
      BY <1>10, PresenceEffect DEF DeleteAlert
    <2>2. mishaps' \in 0 .. MaxMishaps
      BY <1>10, MishapCounted DEF DeleteAlert
    <2> QED BY <1>0, <1>10, <2>1, <2>2, SameAddresses DEF DeleteAlert, Types
  <1>11. CASE Tick
    <2>1. clock' \in 0 .. MaxTime
      BY <1>11, NumbersAssumption DEF Tick, Types
    <2> QED BY <1>0, <1>11, <2>1, SameAddresses DEF Tick, Types
  <1>12. CASE Crash
    <2>1. mishaps' \in 0 .. MaxMishaps
      BY <1>12, MishapCounted DEF Crash
    <2>2. stage' \in [Scan -> Stage]
      BY <1>12 DEF Crash, Types, Stage, Resting
    <2> QED BY <1>0, <1>12, <2>1, <2>2, SameAddresses DEF Crash, Types
  <1> QED
    BY <1>1, <1>2, <1>3, <1>4, <1>5, <1>6, <1>7, <1>8, <1>9, <1>10, <1>11,
       <1>12 DEF Next, Evaluate

-----------------------------------------------------------------------------
\* What no step changes

\* Records are only added, rows stay, time and the number of stamps grow.
LEMMA Growth ==
    ASSUME Types, Next
    PROVE  /\ rows \subseteq rows'
           /\ clock <= clock'
           /\ stamps <= stamps'
           /\ Len(recorded) <= Len(recorded')
           /\ \A n \in 1 .. Len(recorded) : recorded'[n] = recorded[n]
  <1>0. /\ clock \in Int /\ stamps \in Int /\ Len(recorded) \in Nat
        /\ recorded \in Seq(Scan \X Alert)
    BY NumbersAssumption DEF Types
  <1>1. ASSUME NEW s \in Scan, Record(s)
        PROVE  /\ Len(recorded) <= Len(recorded')
               /\ \A n \in 1 .. Len(recorded) : recorded'[n] = recorded[n]
    <2>1. PICK a \in Alert : recorded' = Append(recorded, <<s, a>>)
      BY <1>1 DEF Record, Living
    <2> QED BY <1>0, <2>1
  <1>2. ASSUME NEW s \in Scan,
               \/ WriteHistory(s) \/ CommitScan(s) \/ Evaluate(s)
        PROVE  rows \subseteq rows' /\ clock <= clock' /\ stamps <= stamps'
    BY <1>0, <1>2 DEF WriteHistory, CommitScan, Evaluate, LoadAlerts,
       LoadHistory, EndEvaluation, Record, RecordFails, Send
  <1>3. ASSUME NEW s \in Scan,
               \/ WriteHistory(s) \/ CommitScan(s) \/ Evaluate(s), ~Record(s)
        PROVE  recorded' = recorded
    BY <1>3 DEF WriteHistory, CommitScan, Evaluate, LoadAlerts,
       LoadHistory, EndEvaluation, RecordFails, Send
  <1>4. ASSUME \/ \E a \in Alert : CreateAlert(a) \/ DeleteAlert(a)
               \/ Tick \/ Crash
        PROVE  /\ rows \subseteq rows' /\ clock <= clock' /\ stamps <= stamps'
               /\ recorded' = recorded
    BY <1>0, <1>4 DEF CreateAlert, DeleteAlert, Tick, Crash
  <1> QED BY <1>0, <1>1, <1>2, <1>3, <1>4 DEF Next

\* A scan that has begun keeps its price and its stamp; one whose evaluation
\* has read the history keeps what it read, and when; one that has loaded its
\* alerts keeps them.
LEMMA Frame ==
    ASSUME Types, Progress, Next, NEW t \in Scan
    PROVE  /\ stage[t] # "running" =>
                  /\ price'[t] = price[t]
                  /\ stamp'[t] = stamp[t]
                  /\ stage'[t] # "running"
           /\ stage[t] \in Judged =>
                  /\ stage'[t] \in Judged
                  /\ eval'[t].history = eval[t].history
                  /\ eval'[t].at = eval[t].at
           /\ \/ LoadAlerts(t)
              \/ (eval'[t].copy = eval[t].copy /\ eval'[t].heard = eval[t].heard)
  <1> DEFINE Same ==
             /\ price' = price /\ stamp' = stamp
             /\ \A u \in Scan : stage'[u] = stage[u] \/ stage'[u] \in Judged
             /\ eval' = eval
  <1>0. CASE Same
    BY <1>0 DEF Judged
  <1>1. ASSUME NEW s \in Scan, CommitScan(s) \/ RecordFails(s)
                               \/ EndEvaluation(s)
        PROVE  /\ price' = price /\ stamp' = stamp /\ eval' = eval
               /\ \A u \in Scan : stage'[u] = stage[u] \/ stage'[u] \in Judged
                                  \/ (stage[u] = "stamped" /\ stage'[u] = "committed")
    BY <1>1 DEF CommitScan, RecordFails, EndEvaluation, Judged, Types
  <1>2. ASSUME \/ \E a \in Alert : CreateAlert(a) \/ DeleteAlert(a)
               \/ Tick \/ Crash
        PROVE  Same
    BY <1>2 DEF CreateAlert, DeleteAlert, Tick, Crash, Judged
  <1>3. ASSUME NEW s \in Scan, WriteHistory(s)
        PROVE  /\ eval' = eval /\ stage[s] = "running"
               /\ \A u \in Scan \ {s} : /\ price'[u] = price[u]
                                        /\ stamp'[u] = stamp[u]
                                        /\ stage'[u] = stage[u]
    BY <1>3 DEF WriteHistory, Types
  <1>4. ASSUME NEW s \in Scan, LoadAlerts(s)
        PROVE  /\ stage[s] = "committed" /\ price' = price /\ stamp' = stamp
               /\ stage'[s] # "running"
               /\ \A u \in Scan \ {s} : eval'[u] = eval[u] /\ stage'[u] = stage[u]
    BY <1>4, LoadAlertsEffect DEF LoadAlerts, Types
  <1>5. ASSUME NEW s \in Scan, LoadHistory(s)
        PROVE  /\ stage[s] = "loaded" /\ price' = price /\ stamp' = stamp
               /\ stage'[s] # "running"
               /\ eval'[s].copy = eval[s].copy /\ eval'[s].heard = eval[s].heard
               /\ \A u \in Scan \ {s} : eval'[u] = eval[u] /\ stage'[u] = stage[u]
    BY <1>5, LoadHistoryEffect DEF LoadHistory, Types
  <1> DEFINE Turn(s) ==
             /\ price' = price /\ stamp' = stamp
             /\ \A u \in Scan : stage'[u] = stage[u] \/ stage'[u] \in Judged
             /\ \A u \in Scan \ {s} : eval'[u] = eval[u]
             /\ eval'[s].copy = eval[s].copy /\ eval'[s].heard = eval[s].heard
             /\ eval'[s].history = eval[s].history /\ eval'[s].at = eval[s].at
  <1>6. ASSUME NEW s \in Scan, NEW a \in Alert, Send(s, a)
        PROVE  Turn(s)
    BY <1>6, TurnEffect DEF Send, Types, Judged
  <1>7. ASSUME NEW s \in Scan, Record(s)
        PROVE  Turn(s)
    BY <1>7, TurnEffect DEF Record, Types, Judged, Living
  <1>8. ASSUME NEW s \in Scan, Turn(s)
        PROVE  /\ stage[t] # "running" =>
                  /\ price'[t] = price[t]
                  /\ stamp'[t] = stamp[t]
                  /\ stage'[t] # "running"
               /\ stage[t] \in Judged =>
                  /\ stage'[t] \in Judged
                  /\ eval'[t].history = eval[t].history
                  /\ eval'[t].at = eval[t].at
               /\ eval'[t].copy = eval[t].copy /\ eval'[t].heard = eval[t].heard
    <2>1. CASE t = s
      BY <1>8, <2>1 DEF Judged
    <2>2. CASE t # s
      BY <1>8, <2>2 DEF Judged
    <2> QED BY <2>1, <2>2
  <1>9. ASSUME NEW s \in Scan, WriteHistory(s) \/ CommitScan(s) \/ Evaluate(s)
        PROVE  /\ stage[t] # "running" =>
                  /\ price'[t] = price[t]
                  /\ stamp'[t] = stamp[t]
                  /\ stage'[t] # "running"
               /\ stage[t] \in Judged =>
                  /\ stage'[t] \in Judged
                  /\ eval'[t].history = eval[t].history
                  /\ eval'[t].at = eval[t].at
               /\ \/ LoadAlerts(t)
                  \/ (eval'[t].copy = eval[t].copy /\ eval'[t].heard = eval[t].heard)
    <2>1. CASE CommitScan(s) \/ RecordFails(s) \/ EndEvaluation(s)
      BY <1>1, <2>1 DEF Judged
    <2>2. CASE WriteHistory(s)
      <3>1. CASE t = s
        BY <1>3, <2>2, <3>1 DEF Judged
      <3>2. CASE t # s
        BY <1>3, <2>2, <3>2
      <3> QED BY <3>1, <3>2
    <2>3. CASE LoadAlerts(s)
      <3>1. CASE t = s
        BY <1>4, <2>3, <3>1 DEF Judged
      <3>2. CASE t # s
        BY <1>4, <2>3, <3>2
      <3> QED BY <3>1, <3>2
    <2>4. CASE LoadHistory(s)
      <3>1. CASE t = s
        BY <1>5, <2>4, <3>1 DEF Judged
      <3>2. CASE t # s
        BY <1>5, <2>4, <3>2
      <3> QED BY <3>1, <3>2
    <2>5. CASE \E a \in Alert : Send(s, a)
      <3> HIDE DEF Turn
      <3>1. Turn(s)
        BY <2>5, <1>6
      <3> QED BY <3>1, <1>8
    <2>6. CASE Record(s)
      <3> HIDE DEF Turn
      <3>1. Turn(s)
        BY <2>6, <1>7
      <3> QED BY <3>1, <1>8
    <2> QED BY <1>9, <2>1, <2>2, <2>3, <2>4, <2>5, <2>6 DEF Evaluate
  <1> HIDE DEF Same
  <1> QED BY <1>0, <1>2, <1>9 DEF Next

-----------------------------------------------------------------------------
\* How far a scan is

Sound(s) == Begun(s) /\ Evaluated(s) /\ Turns(s)

\* A step of another actor, which may add rows and records.
LEMMA Elsewhere ==
    ASSUME Types, Types', NEW t \in Scan, Sound(t),
           price'[t] = price[t], stamp'[t] = stamp[t], stage'[t] = stage[t],
           eval'[t] = eval[t], outcome'[t] = outcome[t],
           t \in rows' <=> t \in rows, rows \subseteq rows',
           clock <= clock', stamps <= stamps', Len(recorded) <= Len(recorded')
    PROVE  Sound(t)'
  <1>1. Begun(t)'
    BY DEF Sound, Begun, Types
  <1>2. /\ clock \in Int /\ clock' \in Int
        /\ Len(recorded) \in Nat /\ Len(recorded') \in Nat
    BY NumbersAssumption DEF Types
  <1>3. eval[t].at \in Int /\ eval[t].heard \in Int
    BY EvalFields, NumbersAssumption
  <1>4. Evaluated(t)'
    BY <1>2, <1>3 DEF Sound, Evaluated
  <1>5. Turns(t)'
    BY DEF Sound, Turns
  <1> QED BY <1>1, <1>4, <1>5 DEF Sound

LEMMA ProgressNext ==
    ASSUME Types, Progress, Next
    PROVE  Progress'
  <1>0. Types'
    BY TypesNext
  <1>1. \A t \in Scan : Sound(t)
    BY DEF Progress, Sound
  <1>2. SUFFICES \A t \in Scan : Sound(t)'
    BY DEF Progress, Sound
  <1>3. /\ clock \in Int /\ clock' \in Int /\ stamps \in Nat /\ stamps' \in Nat
        /\ Len(recorded) \in Nat /\ Len(recorded') \in Nat
        /\ clock <= clock' /\ stamps <= stamps'
        /\ rows \subseteq rows' /\ Len(recorded) <= Len(recorded')
    BY <1>0, Growth, NumbersAssumption DEF Types
  <1>4. ASSUME NEW s \in Scan, WriteHistory(s) PROVE \A t \in Scan : Sound(t)'
    <2>1. \A t \in Scan \ {s} : Sound(t)'
      BY <1>0, <1>1, <1>3, <1>4, Elsewhere DEF WriteHistory, Types
    <2>2. Begun(s)'
      BY <1>1, <1>4 DEF WriteHistory, Types, Begun, Sound, Committed
    <2>3. Evaluated(s)'
      BY <1>1, <1>4 DEF WriteHistory, Evaluated, Sound
    <2>4. Turns(s)'
      BY <1>1, <1>4 DEF WriteHistory, Types, Turns, Sound, Judged
    <2> QED BY <2>1, <2>2, <2>3, <2>4 DEF Sound
  <1>5. ASSUME NEW s \in Scan, CommitScan(s) PROVE \A t \in Scan : Sound(t)'
    <2>0. \A t \in Scan \ {s} : t \in rows' <=> t \in rows
      BY <1>5 DEF CommitScan
    <2>1. \A t \in Scan \ {s} : Sound(t)'
      BY <1>0, <1>1, <1>3, <1>5, <2>0, Elsewhere DEF CommitScan, Types
    <2>2. Begun(s)'
      BY <1>1, <1>5 DEF CommitScan, Types, Begun, Sound, Committed
    <2>3. Evaluated(s)'
      BY <1>1, <1>3, <1>5 DEF CommitScan, Evaluated, Sound
    <2>4. Turns(s)'
      BY <1>1, <1>5 DEF CommitScan, Types, Turns, Sound, Judged
    <2> QED BY <2>1, <2>2, <2>3, <2>4 DEF Sound
  <1>6. ASSUME NEW s \in Scan, LoadAlerts(s) PROVE \A t \in Scan : Sound(t)'
    <2>1. \A t \in Scan \ {s} : Sound(t)'
      BY <1>0, <1>1, <1>3, <1>6, LoadAlertsEffect, Elsewhere
      DEF LoadAlerts, Types
    <2>2. Begun(s)'
      BY <1>1, <1>6 DEF LoadAlerts, Types, Begun, Sound, Committed
    <2>3. Turns(s)'
      <3>1. /\ stage[s] = "committed" /\ stage'[s] \in {"loaded", "done"}
            /\ outcome' = outcome
        BY <1>6 DEF LoadAlerts, Types
      <3>2. eval'[s].todo = {} /\ \A a \in Alert : outcome[s][a] = "none"
        BY <1>1, <1>6, <3>1, LoadAlertsEffect DEF Turns, Sound, Judged
      <3> QED BY <3>1, <3>2 DEF Turns, Judged
    <2>4. eval'[s].todo = {}
      BY <1>1, <1>6, LoadAlertsEffect DEF LoadAlerts, Turns, Sound, Judged
    <2>5. Evaluated(s)'
      BY <1>1, <1>3, <1>6, <2>4, LoadAlertsEffect
      DEF LoadAlerts, Evaluated, Sound
    <2> QED BY <2>1, <2>2, <2>3, <2>5 DEF Sound
  <1>7. ASSUME NEW s \in Scan, LoadHistory(s) PROVE \A t \in Scan : Sound(t)'
    <2>1. \A t \in Scan \ {s} : Sound(t)'
      BY <1>0, <1>1, <1>3, <1>7, LoadHistoryEffect, Elsewhere
      DEF LoadHistory, Types
    <2>2. Begun(s)'
      BY <1>1, <1>7 DEF LoadHistory, Types, Begun, Sound, Committed
    <2>3. eval'[s].todo \subseteq Alert
      BY <1>7, LoadHistoryEffect, EvalFields
    <2>4. Turns(s)'
      <3>1. stage[s] = "loaded" /\ s \in rows
        BY <1>1, <1>7 DEF LoadHistory, Begun, Sound, Committed
      <3>2. \A a \in Alert : outcome'[s][a] = "none"
        BY <1>1, <1>7, <3>1 DEF LoadHistory, Turns, Sound, Judged
      <3>3. stage'[s] = "judging"
        BY <1>7 DEF LoadHistory, Types
      <3>4. s \in eval'[s].history
        BY <1>7, <3>1, LoadHistoryEffect
      <3> QED BY <2>3, <3>2, <3>3, <3>4 DEF Turns, Judged
    <2>5. Evaluated(s)'
      BY <1>1, <1>3, <1>7, LoadHistoryEffect
      DEF LoadHistory, Evaluated, Sound
    <2> QED BY <2>1, <2>2, <2>4, <2>5 DEF Sound
  <1>8. ASSUME NEW s \in Scan, NEW a \in Alert, Send(s, a)
        PROVE  \A t \in Scan : Sound(t)'
    <2>0. PICK r \in Results(a) :
              /\ outcome' = [outcome EXCEPT ![s][a] = r]
              /\ IF r = "delivered"
                 THEN /\ stage' = [stage EXCEPT ![s] = "recording"]
                      /\ UNCHANGED eval
                 ELSE /\ eval' = [eval EXCEPT ![s].todo = @ \ {a}]
                      /\ UNCHANGED stage
      BY <1>8 DEF Send
    <2>1. /\ \A t \in Scan \ {s} : /\ stage'[t] = stage[t] /\ eval'[t] = eval[t]
                                   /\ outcome'[t] = outcome[t]
          /\ UNCHANGED << price, stamp, rows, stamps, clock, recorded >>
      BY <1>8, <2>0, TurnEffect DEF Send, Types
    <2>2. \A t \in Scan \ {s} : Sound(t)'
      BY <1>0, <1>1, <1>3, <2>1, Elsewhere
    <2>3. stage[s] = "judging" /\ a \in eval[s].todo
      BY <1>8 DEF Send
    <2>4. outcome'[s][a] = r /\ \A b \in Alert \ {a} : outcome'[s][b] = outcome[s][b]
      BY <2>0 DEF Types
    <2>5. /\ eval[s].todo \subseteq Alert
          /\ \A b \in eval[s].todo : outcome[s][b] = "none"
          /\ s \in eval[s].history
      BY <1>1, <2>3, EvalFields DEF Sound, Turns
    <2>6. CASE r = "delivered"
      <3>1. stage'[s] = "recording" /\ eval'[s] = eval[s]
        BY <2>0, <2>6 DEF Types
      <3>2. Begun(s)'
        BY <1>1, <2>1, <2>3, <3>1 DEF Sound, Begun, Committed
      <3>3. Evaluated(s)'
        BY <1>1, <2>1, <3>1 DEF Sound, Evaluated
      <3>4. Turns(s)'
        BY <2>3, <2>4, <2>5, <2>6, <3>1 DEF Turns, Judged
      <3> QED BY <2>2, <3>2, <3>3, <3>4 DEF Sound
    <2>7. CASE r # "delivered"
      <3>0. /\ eval' = [eval EXCEPT ![s].todo = @ \ {a}]
            /\ stage'[s] = "judging"
        BY <2>0, <2>3, <2>7
      <3>1. /\ eval'[s].todo = eval[s].todo \ {a}
            /\ eval'[s].history = eval[s].history
            /\ eval'[s].at = eval[s].at
            /\ eval'[s].copy = eval[s].copy
            /\ eval'[s].heard = eval[s].heard
        BY <3>0, TurnEffect
      <3>2. Begun(s)'
        BY <1>1, <2>1, <2>3, <3>0 DEF Sound, Begun, Committed
      <3>3. Evaluated(s)'
        BY <1>1, <2>1, <3>1 DEF Sound, Evaluated
      <3>4. Turns(s)'
        BY <2>3, <2>4, <2>5, <3>0, <3>1 DEF Turns, Judged
      <3> QED BY <2>2, <3>2, <3>3, <3>4 DEF Sound
    <2> QED BY <2>6, <2>7
  <1>9. ASSUME NEW s \in Scan, Record(s) PROVE \A t \in Scan : Sound(t)'
    <2>0. PICK a \in Alert :
              /\ Told(s, a)
              /\ eval' = [eval EXCEPT ![s].todo = @ \ {a}]
      BY <1>9 DEF Record, Living
    <2>1. /\ \A t \in Scan \ {s} : stage'[t] = stage[t] /\ eval'[t] = eval[t]
          /\ UNCHANGED << price, stamp, rows, stamps, clock, outcome >>
      BY <1>9, <2>0, TurnEffect DEF Record, Types
    <2>2. \A t \in Scan \ {s} : Sound(t)'
      BY <1>0, <1>1, <1>3, <2>1, Elsewhere
    <2>3. stage[s] = "recording" /\ stage'[s] = "judging"
      BY <1>9 DEF Record, Types
    <2>4. /\ eval'[s].todo = eval[s].todo \ {a}
          /\ eval'[s].history = eval[s].history
          /\ eval'[s].at = eval[s].at
          /\ eval'[s].copy = eval[s].copy
          /\ eval'[s].heard = eval[s].heard
      BY <2>0, TurnEffect
    <2>5. Begun(s)'
      BY <1>1, <2>1, <2>3 DEF Sound, Begun, Committed
    <2>6. Evaluated(s)'
      <3>1. eval[s].heard \in Nat
        BY EvalFields
      <3> QED BY <1>1, <1>3, <2>1, <2>4, <3>1 DEF Sound, Evaluated
    <2>7. PICK b \in eval[s].todo :
              /\ outcome[s][b] = "delivered"
              /\ \A c \in eval[s].todo \ {b} : outcome[s][c] = "none"
      BY <1>1, <2>3 DEF Sound, Turns
    <2>8. a = b
      BY <2>0, <2>7 DEF Told
    <2>9. s \in eval[s].history
      BY <1>1, <2>3 DEF Sound, Turns
    <2>10. Turns(s)'
      BY <2>1, <2>3, <2>4, <2>7, <2>8, <2>9 DEF Turns, Judged
    <2> QED BY <2>2, <2>5, <2>6, <2>10 DEF Sound
  <1>10. ASSUME NEW s \in Scan, RecordFails(s) \/ EndEvaluation(s)
         PROVE  \A t \in Scan : Sound(t)'
    <2>1. /\ \A t \in Scan \ {s} : stage'[t] = stage[t]
          /\ UNCHANGED << price, stamp, rows, stamps, clock, outcome, eval,
                          recorded >>
          /\ \/ stage'[s] = "failed"
             \/ (stage[s] = "judging" /\ stage'[s] = "done")
      BY <1>10 DEF RecordFails, EndEvaluation, Types
    <2>2. \A t \in Scan \ {s} : Sound(t)'
      BY <1>0, <1>1, <1>3, <2>1, Elsewhere
    <2>3. Begun(s)'
      <3>1. stage[s] # "running"
        BY <1>10 DEF RecordFails, EndEvaluation
      <3> QED BY <1>1, <2>1, <3>1 DEF Sound, Begun, Committed
    <2>4. Evaluated(s)'
      BY <1>1, <2>1 DEF Sound, Evaluated
    <2>5. Turns(s)'
      BY <1>1, <2>1 DEF Sound, Turns, Judged
    <2> QED BY <2>2, <2>3, <2>4, <2>5 DEF Sound
  <1>11. ASSUME (\E a \in Alert : CreateAlert(a) \/ DeleteAlert(a)) \/ Tick
         PROVE  \A t \in Scan : Sound(t)'
    <2>1. /\ UNCHANGED << stage, price, stamp, rows, stamps, outcome, eval,
                          recorded >>
      BY <1>11 DEF CreateAlert, DeleteAlert, Tick
    <2> QED BY <1>0, <1>1, <1>3, <2>1, Elsewhere
  <1>12. ASSUME Crash PROVE \A t \in Scan : Sound(t)'
    <2>1. /\ UNCHANGED << price, stamp, rows, stamps, clock, outcome, eval,
                          recorded >>
          /\ \A t \in Scan : \/ stage'[t] = stage[t]
                             \/ (stage'[t] = "failed" /\ stage[t] # "running")
      BY <1>12 DEF Crash, InFlight, Resting, Types
    <2>2. \A t \in Scan : Begun(t)' /\ Evaluated(t)' /\ Turns(t)'
      BY <1>1, <2>1 DEF Sound, Begun, Evaluated, Turns, Judged, Committed
    <2> QED BY <2>2 DEF Sound
  <1> QED BY <1>4, <1>5, <1>6, <1>7, <1>8, <1>9, <1>10, <1>11, <1>12
          DEF Next, Evaluate

\* An evaluation that is recording a message has one alert to record.
LEMMA TypesTypeOK == Types /\ Progress => TypeOK
  <1> SUFFICES ASSUME Types, Progress PROVE TypeOK
    OBVIOUS
  <1>1. ASSUME NEW s \in Scan
        PROVE  /\ DOMAIN eval[s].copy \subseteq Alert
               /\ \A a \in DOMAIN eval[s].copy : eval[s].copy[a] \in Row
               /\ eval[s].history \subseteq rows
               /\ eval[s].at \in 0 .. clock
               /\ eval[s].todo \subseteq DOMAIN eval[s].copy
               /\ eval[s].heard \in 0 .. Len(recorded)
    BY EvalFields DEF Progress, Evaluated, Types
  <1>2. ASSUME NEW s \in Scan, stage[s] = "recording"
        PROVE  \E a \in Alert : {b \in Alert : Told(s, b)} = {a}
    <2>1. PICK a \in eval[s].todo :
              /\ outcome[s][a] = "delivered"
              /\ \A b \in eval[s].todo \ {a} : outcome[s][b] = "none"
      BY <1>2 DEF Progress, Turns
    <2>2. a \in Alert
      BY EvalFields
    <2> QED BY <2>1, <2>2 DEF Told
  <1>3. rows \subseteq {s \in Scan : stamp[s] > 0}
    BY DEF Types, Progress, Begun
  <1> QED BY <1>1, <1>2, <1>3 DEF Types, TypeOK, Stage

-----------------------------------------------------------------------------
\* Records, stamps and alerts

LEMMA RecordOf ==
    ASSUME Types, NEW n \in 1 .. Len(recorded)
    PROVE  recorded[n][1] \in Scan /\ recorded[n][2] \in Alert
  <1>1. recorded[n] \in Scan \X Alert
    BY DEF Types
  <1> QED BY <1>1

LEMMA LoggedNext ==
    ASSUME Types, Progress, Logged, Next
    PROVE  Logged'
  <1>1. \A n \in 1 .. Len(recorded) :
            /\ recorded'[n] = recorded[n]
            /\ stage'[recorded'[n][1]] \in Judged
    BY Growth, Frame, RecordOf DEF Logged
  <1>2. Len(recorded) \in Nat /\ recorded \in Seq(Scan \X Alert)
    BY DEF Types
  <1>3. ASSUME NEW s \in Scan, Record(s)
        PROVE  Logged'
    <2>1. PICK a \in Alert : recorded' = Append(recorded, <<s, a>>)
      BY <1>3 DEF Record, Living
    <2>2. /\ Len(recorded') = Len(recorded) + 1
          /\ recorded'[Len(recorded) + 1] = <<s, a>>
      BY <1>2, <2>1
    <2>3. stage'[s] \in Judged
      BY <1>3 DEF Record, Types, Judged
    <2>4. \A n \in 1 .. Len(recorded') :
              n \in 1 .. Len(recorded) \/ n = Len(recorded) + 1
      BY <1>2, <2>2
    <2> QED BY <1>1, <2>2, <2>3, <2>4 DEF Logged
  <1>4. CASE recorded' = recorded
    BY <1>1, <1>4 DEF Logged
  <1>5. (\E s \in Scan : Record(s)) \/ recorded' = recorded
    BY DEF Next, WriteHistory, CommitScan, Evaluate, LoadAlerts, LoadHistory,
           EndEvaluation, RecordFails, Send, CreateAlert, DeleteAlert, Tick,
           Crash
  <1> QED BY <1>3, <1>4, <1>5

LEMMA DistinctNext ==
    ASSUME Types, Distinct, Next
    PROVE  Distinct'
  <1>1. ASSUME NEW s \in Scan, WriteHistory(s)
        PROVE  Distinct'
    <2>1. /\ stamp'[s] = stamps + 1
          /\ \A t \in Scan \ {s} : stamp'[t] = stamp[t]
          /\ \A t \in Scan : stamp[t] \in 0 .. stamps
          /\ stamps \in Nat
      BY <1>1 DEF WriteHistory, Types
    <2> QED BY <2>1 DEF Distinct
  <1>2. (\E s \in Scan : WriteHistory(s)) \/ stamp' = stamp
    BY DEF Next, CommitScan, Evaluate, LoadAlerts, LoadHistory, Record,
           EndEvaluation, RecordFails, Send, CreateAlert, DeleteAlert, Tick,
           Crash
  <1> QED BY <1>1, <1>2 DEF Distinct

\* What a record refers to is settled.
LEMMA RecordsKept ==
    ASSUME Types, Progress, Logged, Next
    PROVE  \A n \in 1 .. Len(recorded) :
               /\ recorded'[n] = recorded[n]
               /\ price'[recorded[n][1]] = price[recorded[n][1]]
               /\ eval'[recorded[n][1]].at = eval[recorded[n][1]].at
  BY Growth, Frame, RecordOf DEF Logged, Judged

LEMMA ShowsKept ==
    ASSUME Types, Progress, Logged, Next,
           NEW a \in Alert, NEW h \in 0 .. Len(recorded), NEW last, NEW p,
           Shows(last, p, a, h)
    PROVE  Shows(last, p, a, h)'
  <1>1. Len(recorded) \in Nat
    BY DEF Types
  <1>2. \A n \in 1 .. h :
               /\ recorded'[n] = recorded[n]
               /\ price'[recorded[n][1]] = price[recorded[n][1]]
               /\ eval'[recorded[n][1]].at = eval[recorded[n][1]].at
    BY <1>1, RecordsKept
  <1> QED BY <1>2 DEF Shows, LastOf

LEMMA RememberedNext ==
    ASSUME Types, Progress, Logged, Remembered, Next
    PROVE  Remembered'
  <1>0. Len(recorded) \in Nat /\ recorded \in Seq(Scan \X Alert)
    BY DEF Types
  <1>1. ASSUME NEW a \in Alert
        PROVE  Shows(alerts[a].last, alerts[a].price, a, Len(recorded))'
    <2> DEFINE l == alerts[a].last
               p == alerts[a].price
               h == Len(recorded)
    <2>1. \A ll, pp, hh :
              hh \in 0 .. Len(recorded) /\ Shows(ll, pp, a, hh)
                  => Shows(ll, pp, a, hh)'
      BY ShowsKept
    <2>2. Shows(l, p, a, h)
      BY DEF Remembered
    <2>3. \A ll, pp, hh : ll = l /\ pp = p /\ hh = h => Shows(ll, pp, a, hh)'
      BY <1>0, <2>1, <2>2
    <2>4. CASE /\ recorded' = recorded
               /\ alerts'[a].last = l /\ alerts'[a].price = p
      BY <2>3, <2>4 DEF Shows, LastOf
    <2>5. ASSUME NEW s \in Scan, Record(s)
          PROVE  Shows(alerts[a].last, alerts[a].price, a, Len(recorded))'
      <3>1. PICK b \in Alert :
                /\ alerts' = [alerts EXCEPT ![b].last = eval[s].at,
                                             ![b].price = price[s]]
                /\ recorded' = Append(recorded, <<s, b>>)
        BY <2>5 DEF Record, Living
      <3>2. /\ Len(recorded') = h + 1
            /\ recorded'[h + 1] = <<s, b>>
            /\ \A n \in 1 .. h : recorded'[n] = recorded[n]
        BY <1>0, <3>1
      <3>3. price[s] \in Price /\ price'[s] = price[s]
        BY <2>5 DEF Record, Progress, Begun
      <3>4. /\ \A c \in Alert \ {b} : alerts'[c] = alerts[c]
            /\ alerts'[b].last = eval[s].at
            /\ alerts'[b].price = price[s]
        BY <3>1, <3>3, RecordEffect
      <3>5. eval'[s].at = eval[s].at
        <4>1. stage[s] \in Judged
          BY <2>5 DEF Record, Judged
        <4> QED BY <4>1, Frame
      <3>6. CASE a = b
        <4> DEFINE m == Len(recorded')
        <4>1. /\ m \in 1 .. m
              /\ recorded'[m] = <<s, a>>
              /\ \A k \in 1 .. m : ~(k > m)
          BY <1>0, <3>2, <3>6
        <4>2. /\ alerts'[a].last = eval'[recorded'[m][1]].at
              /\ alerts'[a].price = price'[recorded'[m][1]]
          BY <3>3, <3>4, <3>5, <3>6, <4>1
        <4> QED BY <4>1, <4>2 DEF Shows, LastOf
      <3>7. CASE a # b
        <4>1. alerts'[a] = alerts[a]
          BY <3>4, <3>7
        <4>2. \A n \in 1 .. h + 1 : n \in 1 .. h \/ n = h + 1
          BY <1>0
        <4>3. 1 .. h \subseteq 1 .. h + 1
          BY <1>0
        <4>4. recorded'[h + 1][2] # a
          BY <3>2, <3>7
        <4>5. CASE /\ \A k \in 1 .. h : recorded'[k][2] # a
                   /\ l = None
          BY <3>2, <4>1, <4>2, <4>4, <4>5 DEF Shows
        <4>6. CASE \E m \in 1 .. h :
                      /\ recorded'[m][2] = a
                      /\ \A k \in 1 .. h : k > m => recorded'[k][2] # a
                      /\ l = eval'[recorded'[m][1]].at
                      /\ p = price'[recorded'[m][1]]
          <5>1. PICK m \in 1 .. h :
                    /\ recorded'[m][2] = a
                    /\ \A k \in 1 .. h : k > m => recorded'[k][2] # a
                    /\ l = eval'[recorded'[m][1]].at
                    /\ p = price'[recorded'[m][1]]
            BY <4>6
          <5>2. /\ m \in 1 .. Len(recorded')
                /\ \A k \in 1 .. Len(recorded') : k > m => recorded'[k][2] # a
            BY <3>2, <4>2, <4>3, <4>4, <5>1
          <5> QED BY <4>1, <5>1, <5>2 DEF Shows, LastOf
        <4>7. \/ /\ \A k \in 1 .. h : recorded'[k][2] # a
                 /\ l = None
              \/ \E m \in 1 .. h :
                      /\ recorded'[m][2] = a
                      /\ \A k \in 1 .. h : k > m => recorded'[k][2] # a
                      /\ l = eval'[recorded'[m][1]].at
                      /\ p = price'[recorded'[m][1]]
          <5> HIDE DEF l, p, h
          <5> QED BY <2>3 DEF Shows, LastOf
        <4> QED BY <4>5, <4>6, <4>7
      <3> QED BY <3>6, <3>7
    <2>6. \/ \E s \in Scan : Record(s)
          \/ /\ recorded' = recorded
             /\ alerts'[a].last = l /\ alerts'[a].price = p
      <3>1. ASSUME NEW b \in Alert, CreateAlert(b) \/ DeleteAlert(b)
            PROVE  /\ recorded' = recorded
                   /\ alerts'[a].last = l /\ alerts'[a].price = p
        BY <3>1, PresenceEffect DEF CreateAlert, DeleteAlert
      <3>2. ASSUME NEW s \in Scan,
                   WriteHistory(s) \/ CommitScan(s) \/ Evaluate(s), ~Record(s)
            PROVE  recorded' = recorded /\ alerts' = alerts
        BY <3>2 DEF WriteHistory, CommitScan, Evaluate, LoadAlerts,
           LoadHistory, EndEvaluation, RecordFails, Send
      <3>3. ASSUME Tick \/ Crash
            PROVE  recorded' = recorded /\ alerts' = alerts
        BY <3>3 DEF Tick, Crash
      <3> QED BY <3>1, <3>2, <3>3 DEF Next
    <2> QED BY <2>4, <2>5, <2>6
  <1>2. ASSUME NEW t \in Scan, NEW a \in DOMAIN eval'[t].copy
        PROVE  Shows(eval[t].copy[a].last, eval[t].copy[a].price, a,
                     eval[t].heard)'
    <2>1. CASE LoadAlerts(t)
      <3>1. /\ a \in Alert
            /\ eval'[t].copy[a] = alerts[a]
            /\ eval'[t].heard = Len(recorded)
        BY <2>1, LoadAlertsEffect DEF Enabled, Living
      <3>2. Shows(alerts[a].last, alerts[a].price, a, Len(recorded))
        BY <3>1 DEF Remembered
      <3>3. \A l, p, h :
               /\ l = alerts[a].last /\ p = alerts[a].price /\ h = Len(recorded)
               => Shows(l, p, a, h)'
        BY <1>0, <3>1, <3>2, ShowsKept
      <3> QED BY <3>1, <3>3 DEF Shows, LastOf
    <2>2. CASE eval'[t].copy = eval[t].copy /\ eval'[t].heard = eval[t].heard
      <3>1. /\ a \in DOMAIN eval[t].copy /\ a \in Alert
            /\ eval[t].heard \in 0 .. Len(recorded)
        BY <1>0, <2>2, EvalFields DEF Progress, Evaluated
      <3>2. Shows(eval[t].copy[a].last, eval[t].copy[a].price, a, eval[t].heard)
        BY <3>1 DEF Remembered
      <3>3. \A l, p, h :
               /\ l = eval[t].copy[a].last /\ p = eval[t].copy[a].price
               /\ h = eval[t].heard
               => Shows(l, p, a, h)'
        BY <3>1, <3>2, ShowsKept
      <3> QED BY <2>2, <3>3 DEF Shows, LastOf
    <2> QED BY <2>1, <2>2, Frame
  <1> QED BY <1>1, <1>2 DEF Remembered

-----------------------------------------------------------------------------
\* The messages of an evaluation

\* RepeatExplained, NoFalseDrop and DueServed of one scan and one alert
Explained(s, a) ==
    \A n \in Heard(s) :
        Recent(n, s, a) =>
            \E k \in Heard(s) :
                /\ k > n
                /\ recorded[k][2] = a
                /\ \/ price[recorded[k][1]] # price[s]
                   \/ eval[recorded[k][1]].at < eval[recorded[n][1]].at

Justified(s, a) == ~Reached(s, a) => DropsFromAll(s, a)

Served(s, a) ==
    (/\ Configured(a)
     /\ Reached(s, a) \/ (IsLast(s) /\ DropsFromAll(s, a))) =>
        outcome[s][a] # "none" \/ \E n \in Heard(s) : Recent(n, s, a)

Messages ==
    /\ \A s \in Scan, a \in Alert :
           outcome[s][a] # "none" => Explained(s, a) /\ Justified(s, a)
    /\ \A s \in Scan : stage[s] \in {"judging", "recording"} =>
           \A a \in DOMAIN eval[s].copy \ eval[s].todo : outcome[s][a] # "none"
    /\ \A s \in Scan : stage[s] = "done" =>
           \A a \in DOMAIN eval[s].copy : Served(s, a)

IInv == Types /\ Progress /\ Logged /\ Distinct /\ Remembered /\ Messages

\* A price as far below r is as far below a higher one.
LEMMA DropsMore ==
    ASSUME NEW r \in Nat, NEW q \in Nat, NEW p \in Nat, NEW d \in 1 .. 90,
           q >= r, Drops(r, p, d)
    PROVE  Drops(q, p, d)
  <1>1. (r - p) * 100 >= d * r
    BY DEF Drops
  <1>2. PICK e \in Nat : q = r + e
    <2>1. q - r \in Nat /\ q = r + (q - r)
      OBVIOUS
    <2> QED BY <2>1
  <1>3. e * 100 >= d * e
    <2>1. (100 - d) * e >= 0
      <3>1. 100 - d \in Nat
        OBVIOUS
      <3> DEFINE c == 100 - d
      <3>2. c \in Nat /\ c * e \in Nat
        <4> HIDE DEF c
        <4> QED BY <3>1 DEF c
      <3> QED BY <3>2
    <2>2. (100 - d) * e = 100 * e - d * e
      OBVIOUS
    <2> QED BY <2>1, <2>2
  <1>4. d * q = d * r + d * e
    BY <1>2
  <1>5. (q - p) * 100 = (r - p) * 100 + e * 100
    BY <1>2
  <1>6. d * r \in Int /\ d * e \in Int
    OBVIOUS
  <1> QED BY <1>1, <1>3, <1>4, <1>5, <1>6 DEF Drops

\* No price drops from itself or from a lower one.
LEMMA NoRise ==
    ASSUME NEW r \in Nat, NEW p \in Nat, NEW d \in 1 .. 90, r # 0, r <= p
    PROVE  ~Drops(r, p, d)
  <1>1. (r - p) * 100 <= 0
    OBVIOUS
  <1>2. d * r > 0
    OBVIOUS
  <1>3. d * r \in Int /\ (r - p) * 100 \in Int
    OBVIOUS
  <1> QED BY <1>1, <1>2, <1>3 DEF Drops

\* The rows an evaluation has read have prices and stamps.
LEMMA HistoryRows ==
    ASSUME Types, Progress, NEW s \in Scan, NEW t \in eval[s].history
    PROVE  /\ t \in Scan /\ t \in rows
           /\ price[t] \in Price /\ price[t] \in Nat
           /\ stamp[t] \in Nat /\ stamp[t] > 0
           /\ stage[t] # "running"
  <1>1. t \in rows /\ t \in Scan
    BY DEF Types, Progress, Evaluated
  <1>2. stage[t] # "running" /\ price[t] \in Price /\ stamp[t] \in 1 .. stamps
    BY <1>1 DEF Progress, Begun
  <1>3. stamps \in Nat
    BY DEF Types
  <1>4. price[t] \in Nat
    BY <1>2, PriceAssumption
  <1>5. stamp[t] \in Nat /\ stamp[t] > 0
    BY <1>2, <1>3
  <1> QED BY <1>1, <1>2, <1>4, <1>5

LEMMA DropOption ==
    ASSUME NEW a \in Alert, Options[a].drop # None
    PROVE  Options[a].drop \in 1 .. 90
  BY OptionsAssumption DEF Acceptable

\* What the code takes for a drop is one from every other row: were the row
\* of the scan not the last one, its own price would be among the earlier.
LEMMA DroppedJustified ==
    ASSUME Types, Progress, Distinct, NEW s \in Scan, NEW a \in Alert,
           s \in eval[s].history, Dropped(s, a)
    PROVE  DropsFromAll(s, a)
  <1> DEFINE d == Options[a].drop
  <1>1. d \in 1 .. 90 /\ d # None
    BY DropOption DEF Dropped
  <1>2. PICK t \in Earlier(s) :
            /\ \A u \in Earlier(s) : price[t] <= price[u]
            /\ price[t] # 0
            /\ Drops(price[t], price[s], d)
    BY DEF Dropped
  <1>3. Earlier(s) \subseteq eval[s].history
    BY DEF Earlier
  <1>4. price[t] \in Nat /\ price[s] \in Nat /\ price[s] < price[t]
    <2>1. price[t] \in Nat /\ price[s] \in Nat
      BY <1>3, HistoryRows
    <2> HIDE DEF d
    <2>2. ~(price[t] <= price[s])
      BY <1>1, <1>2, <2>1, NoRise
    <2> QED BY <2>1, <2>2
  <1>5. s \notin Earlier(s)
    BY <1>2, <1>4
  <1>6. ASSUME NEW u \in Others(s)
        PROVE  price[u] > 0 /\ Drops(price[u], price[s], d)
    <2>1. /\ u \in eval[s].history /\ u # s /\ u \in Scan
          /\ price[u] \in Nat /\ stamp[u] \in Nat
          /\ stamp[s] \in Nat /\ stamp[s] > 0
      BY <1>6, HistoryRows DEF Others
    <2>2. u \in Earlier(s)
      <3>1. stamp[u] # stamp[s]
        BY <2>1 DEF Distinct
      <3>2. ~(stamp[u] > stamp[s])
        BY <1>5, <2>1 DEF Earlier
      <3>3. stamp[s] > stamp[u]
        BY <2>1, <3>1, <3>2
      <3> QED BY <2>1, <3>3 DEF Earlier
    <2>3. price[u] >= price[t] /\ price[t] > 0
      BY <1>2, <1>4, <2>1, <2>2
    <2>4. Drops(price[u], price[s], d)
      BY <1>1, <1>2, <1>4, <2>1, <2>3, DropsMore
    <2> QED BY <1>4, <2>1, <2>3, <2>4
  <1>7. t \in Others(s)
    BY <1>3, <1>5 DEF Others
  <1> QED BY <1>1, <1>6, <1>7 DEF DropsFromAll

\* A nonempty set of rows has one with the lowest price.
LEMMA Lowest ==
    ASSUME NEW T, T # {}, \A t \in T : price[t] \in Nat
    PROVE  \E t \in T : \A u \in T : price[t] <= price[u]
  <1> DEFINE P == {price[t] : t \in T}
             Less == {ss \in Nat \X Nat : ss[1] < ss[2]}
  <1>1. P \subseteq Nat /\ P # {}
    OBVIOUS
  <1>0. IsWellFoundedOn(Less, Nat)
    BY NatLessThanWellFounded DEF OpToRel
  <1> HIDE DEF P
  <1>2. PICK m \in P : \A n \in P : ~(<<n, m>> \in Less)
    <2> HIDE DEF Less
    <2> QED BY <1>0, <1>1, WFMin
  <1>3. ASSUME NEW n \in P PROVE m <= n
    <2>1. m \in Nat /\ n \in Nat
      BY <1>1
    <2>2. n < m => <<n, m>> \in Less
      BY <2>1
    <2> HIDE DEF Less
    <2>3. ~(n < m)
      BY <1>2, <2>2
    <2> QED BY <2>1, <2>3
  <1>4. PICK t \in T : price[t] = m
    BY <1>2 DEF P
  <1>5. ASSUME NEW u \in T PROVE price[t] <= price[u]
    <2>1. price[u] \in P
      BY DEF P
    <2> QED BY <1>3, <1>4, <2>1
  <1> QED BY <1>5

\* When its row is the last one, a price low enough below all others is taken
\* for a drop.
LEMMA DropsDropped ==
    ASSUME Types, Progress, NEW s \in Scan, NEW a \in Alert,
           s \in eval[s].history, IsLast(s), DropsFromAll(s, a)
    PROVE  Dropped(s, a)
  <1>1. Earlier(s) = Others(s)
    <2>1. ASSUME NEW t \in Others(s) PROVE t \in Earlier(s)
      <3>1. t \in eval[s].history /\ stamp[s] \in Nat /\ stamp[t] \in Nat
        BY HistoryRows DEF Others
      <3>2. stamp[s] > stamp[t]
        BY <3>1 DEF IsLast
      <3> QED BY <3>1, <3>2 DEF Earlier
    <2>2. ASSUME NEW t \in Earlier(s), t = s PROVE FALSE
      <3>1. PICK u \in eval[s].history : stamp[u] > stamp[s]
        BY <2>2 DEF Earlier
      <3>2. stamp[u] \in Nat /\ stamp[s] \in Nat
        BY HistoryRows
      <3>3. u # s
        BY <3>1, <3>2
      <3> QED BY <3>1, <3>2, <3>3 DEF IsLast, Others
    <2>3. Earlier(s) \subseteq eval[s].history
      BY DEF Earlier
    <2> QED BY <2>1, <2>2, <2>3 DEF Others
  <1>2. \A t \in Earlier(s) : price[t] \in Nat
    BY HistoryRows DEF Earlier
  <1>3. PICK t \in Earlier(s) : \A u \in Earlier(s) : price[t] <= price[u]
    BY <1>1, <1>2, Lowest DEF DropsFromAll
  <1>4. price[t] # 0 /\ Drops(price[t], price[s], Options[a].drop)
    BY <1>1, <1>2 DEF DropsFromAll
  <1> QED BY <1>3, <1>4 DEF Dropped, DropsFromAll

\* What the copy of an alert shows of the record that debounces it, and of
\* those that do not.
LEMMA CopyShows ==
    ASSUME Types, Progress, Remembered, NEW s \in Scan,
           NEW a \in DOMAIN eval[s].copy
    PROVE  /\ Debounced(s, a) => \E n \in Heard(s) : Recent(n, s, a)
           /\ ~Debounced(s, a) => Explained(s, a)
  <1>1. Shows(eval[s].copy[a].last, eval[s].copy[a].price, a, eval[s].heard)
    BY DEF Remembered
  <1>2. CASE /\ \A k \in Heard(s) : recorded[k][2] # a
             /\ eval[s].copy[a].last = None
    BY <1>2 DEF Debounced, Explained, Recent
  <1>3. CASE \E m \in Heard(s) :
                 /\ LastOf(a, eval[s].heard, m)
                 /\ eval[s].copy[a].last = eval[recorded[m][1]].at
                 /\ eval[s].copy[a].price = price[recorded[m][1]]
    <2>1. PICK m \in Heard(s) :
                 /\ LastOf(a, eval[s].heard, m)
                 /\ eval[s].copy[a].last = eval[recorded[m][1]].at
                 /\ eval[s].copy[a].price = price[recorded[m][1]]
      BY <1>3
    <2>2. \A n \in Heard(s) : n \in 1 .. Len(recorded)
      BY EvalFields DEF Heard, Progress, Evaluated, Types
    <2>3. /\ eval[s].at \in Nat
          /\ \A n \in Heard(s) : eval[recorded[n][1]].at \in Nat
      BY <2>2, RecordOf, EvalFields
    <2>4. recorded[m][2] = a /\ \A k \in Heard(s) : k > m => recorded[k][2] # a
      BY <2>1 DEF LastOf, Heard
    <2>5. eval[s].copy[a].last # None
      BY <2>1, <2>3, PriceAssumption
    <2>6. ASSUME Debounced(s, a) PROVE Recent(m, s, a)
      BY <2>1, <2>4, <2>6 DEF Debounced, Recent
    <2>7. ASSUME ~Debounced(s, a), NEW n \in Heard(s), Recent(n, s, a)
          PROVE  /\ m > n
                 /\ \/ price[recorded[m][1]] # price[s]
                    \/ eval[recorded[m][1]].at < eval[recorded[n][1]].at
      <3>1. /\ eval[s].at \in Nat /\ eval[recorded[m][1]].at \in Nat
            /\ eval[recorded[n][1]].at \in Nat /\ Debounce \in Nat
        BY <2>3, NumbersAssumption
      <3>2. recorded[n][2] = a /\ price[recorded[n][1]] = price[s]
            /\ eval[s].at - eval[recorded[n][1]].at < Debounce
        BY <2>7 DEF Recent
      <3>3. \/ eval[s].at - eval[recorded[m][1]].at >= Debounce
            \/ price[recorded[m][1]] # price[s]
        BY <2>1, <2>5, <2>7, <3>1 DEF Debounced
      <3>4. m # n
        BY <3>1, <3>2, <3>3
      <3>5. m \in Int /\ n \in Int
        BY <2>2
      <3> QED BY <2>4, <3>1, <3>2, <3>3, <3>4, <3>5
    <2> QED BY <2>4, <2>6, <2>7 DEF Explained
  <1> QED BY <1>1, <1>2, <1>3 DEF Shows, Heard

\* What an evaluation said of an alert stays explained and justified.
LEMMA ExplainedKept ==
    ASSUME Types, Progress, Logged, Next, NEW s \in Scan, NEW a \in Alert,
           stage[s] \in Judged, Explained(s, a)
    PROVE  Explained(s, a)'
  <1>1. /\ eval'[s].heard = eval[s].heard /\ eval'[s].at = eval[s].at
        /\ price'[s] = price[s]
    BY Frame DEF Judged, LoadAlerts
  <1>2. \A n \in Heard(s) : n \in 1 .. Len(recorded)
    BY EvalFields DEF Heard, Progress, Evaluated, Types
  <1>3. \A n \in Heard(s) :
               /\ recorded'[n] = recorded[n]
               /\ price'[recorded[n][1]] = price[recorded[n][1]]
               /\ eval'[recorded[n][1]].at = eval[recorded[n][1]].at
    BY <1>2, RecordsKept
  <1>4. Heard(s)' = Heard(s)
    BY <1>1 DEF Heard
  <1>5. \A n \in Heard(s) : Recent(n, s, a)' <=> Recent(n, s, a)
    BY <1>1, <1>3 DEF Recent
  <1> QED BY <1>1, <1>3, <1>4, <1>5 DEF Explained

LEMMA HistoryKept ==
    ASSUME Types, Progress, Next, NEW s \in Scan, stage[s] \in Judged
    PROVE  /\ eval'[s].history = eval[s].history
           /\ price'[s] = price[s] /\ stamp'[s] = stamp[s]
           /\ \A t \in eval[s].history :
                  price'[t] = price[t] /\ stamp'[t] = stamp[t]
  BY Frame, HistoryRows DEF Judged

LEMMA JustifiedKept ==
    ASSUME Types, Progress, Next, NEW s \in Scan, NEW a \in Alert,
           stage[s] \in Judged
    PROVE  /\ Reached(s, a)' <=> Reached(s, a)
           /\ DropsFromAll(s, a)' <=> DropsFromAll(s, a)
           /\ IsLast(s)' <=> IsLast(s)
  <1>1. Others(s)' = Others(s) /\ Others(s) \subseteq eval[s].history
    BY HistoryKept DEF Others
  <1> QED BY <1>1, HistoryKept DEF Reached, DropsFromAll, Drops, IsLast

\* What has been said stays said, and only Send says something.
LEMMA OutcomeKept ==
    ASSUME Types, Next, NEW s \in Scan, NEW a \in Alert
    PROVE  \/ outcome'[s][a] = outcome[s][a]
           \/ Send(s, a) /\ outcome'[s][a] # "none"
  <1>1. ASSUME NEW t \in Scan, NEW b \in Alert, Send(t, b)
        PROVE  \/ outcome'[s][a] = outcome[s][a]
               \/ s = t /\ a = b /\ outcome'[s][a] # "none"
    <2>1. PICK r \in Results(b) : outcome' = [outcome EXCEPT ![t][b] = r]
      BY <1>1 DEF Send
    <2>2. r # "none"
      BY DEF Results
    <2> QED BY <2>1, <2>2 DEF Types
  <1>2. (\E t \in Scan, b \in Alert : Send(t, b)) \/ outcome' = outcome
    BY DEF Next, WriteHistory, CommitScan, Evaluate, LoadAlerts, LoadHistory,
           EndEvaluation, Record, RecordFails, CreateAlert, DeleteAlert, Tick,
           Crash
  <1> QED BY <1>1, <1>2

LEMMA SendMessage ==
    ASSUME Types, Progress, Distinct, Remembered,
           NEW s \in Scan, NEW a \in Alert, Send(s, a)
    PROVE  stage[s] \in Judged /\ Explained(s, a) /\ Justified(s, a)
  <1>1. stage[s] = "judging" /\ a \in eval[s].todo /\ Notifies(s, a)
    BY DEF Send
  <1>2. s \in eval[s].history /\ a \in DOMAIN eval[s].copy
    BY <1>1 DEF Progress, Turns, Evaluated
  <1>3. ~Debounced(s, a) /\ (Reached(s, a) \/ Dropped(s, a))
    BY <1>1 DEF Notifies
  <1>4. Explained(s, a)
    BY <1>2, <1>3, CopyShows
  <1>5. Justified(s, a)
    BY <1>2, <1>3, DroppedJustified DEF Justified
  <1> QED BY <1>1, <1>4, <1>5 DEF Judged

LEMMA MessagesSent ==
    ASSUME Types, Progress, Logged, Distinct, Remembered, Messages, Next,
           NEW s \in Scan, NEW a \in Alert, outcome'[s][a] # "none"
    PROVE  Explained(s, a)' /\ Justified(s, a)'
  <1>1. stage[s] \in Judged /\ Explained(s, a) /\ Justified(s, a)
    <2>1. CASE outcome[s][a] # "none"
      <3>1. stage[s] \in Judged
        BY <2>1 DEF Progress, Turns
      <3> QED BY <2>1, <3>1 DEF Messages
    <2>2. CASE Send(s, a)
      BY <2>2, SendMessage
    <2> QED BY <2>1, <2>2, OutcomeKept
  <1> QED BY <1>1, ExplainedKept, JustifiedKept DEF Justified

\* An alert leaves the loop with a message, or because none is due.
LEMMA EndServed ==
    ASSUME Types, Progress, Distinct, Remembered, Messages,
           NEW s \in Scan, EndEvaluation(s), NEW a \in DOMAIN eval[s].copy
    PROVE  Served(s, a)
  <1>1. stage[s] = "judging" /\ s \in eval[s].history /\ a \in Alert
    BY EvalFields DEF EndEvaluation, Progress, Turns
  <1>2. CASE a \notin eval[s].todo
    BY <1>1, <1>2 DEF Messages, Served
  <1>3. CASE a \in eval[s].todo
    <2>1. ~Notifies(s, a)
      BY <1>3 DEF EndEvaluation
    <2>2. ASSUME Configured(a), Reached(s, a) \/ (IsLast(s) /\ DropsFromAll(s, a))
          PROVE  \E n \in Heard(s) : Recent(n, s, a)
      <3>1. Reached(s, a) \/ Dropped(s, a)
        BY <1>1, <2>2, DropsDropped
      <3>2. Debounced(s, a)
        BY <2>1, <2>2, <3>1 DEF Notifies
      <3> QED BY <3>2, CopyShows
    <2> QED BY <2>2 DEF Served
  <1> QED BY <1>2, <1>3

LEMMA ServedKept ==
    ASSUME Types, Progress, Logged, Next, NEW s \in Scan, NEW a \in Alert,
           stage[s] \in Judged, Served(s, a), settings' = settings
    PROVE  Served(s, a)'
  <1>1. Configured(a)' <=> Configured(a)
    BY DEF Configured
  <1>2. outcome[s][a] # "none" => outcome'[s][a] # "none"
    BY OutcomeKept
  <1>3. /\ eval'[s].heard = eval[s].heard /\ eval'[s].at = eval[s].at
        /\ price'[s] = price[s]
    BY Frame DEF Judged, LoadAlerts
  <1>4. \A n \in Heard(s) : n \in 1 .. Len(recorded)
    BY EvalFields DEF Heard, Progress, Evaluated, Types
  <1>5. \A n \in Heard(s) : Recent(n, s, a)' <=> Recent(n, s, a)
    BY <1>3, <1>4, RecordsKept DEF Recent
  <1>6. Heard(s)' = Heard(s)
    BY <1>3 DEF Heard
  <1> QED BY <1>1, <1>2, <1>5, <1>6, JustifiedKept DEF Served

\* Where a finished or a running evaluation comes from.
LEMMA Stages ==
    ASSUME Types, Progress, Next, NEW s \in Scan
    PROVE  /\ stage'[s] = "done" =>
                  \/ stage[s] = "done"
                  \/ EndEvaluation(s)
                  \/ LoadAlerts(s) /\ Enabled = {}
           /\ stage'[s] \in {"judging", "recording"} =>
                  \/ LoadHistory(s)
                  \/ /\ stage[s] \in {"judging", "recording"}
                     /\ \/ eval'[s].todo = eval[s].todo
                        \/ \E a \in Alert :
                               /\ eval'[s].todo = eval[s].todo \ {a}
                               /\ outcome'[s][a] # "none"
  <1>1. ASSUME NEW t \in Scan, t # s,
               WriteHistory(t) \/ CommitScan(t) \/ Evaluate(t)
        PROVE  stage'[s] = stage[s] /\ eval'[s] = eval[s]
    <2>1. stage'[s] = stage[s]
      BY <1>1 DEF WriteHistory, CommitScan, Evaluate, LoadAlerts, LoadHistory,
         EndEvaluation, Record, RecordFails, Send, Types
    <2>2. CASE LoadAlerts(t)
      BY <1>1, <2>1, <2>2, LoadAlertsEffect
    <2>3. CASE LoadHistory(t)
      BY <1>1, <2>1, <2>3, LoadHistoryEffect
    <2>4. CASE Record(t) \/ \E a \in Alert : Send(t, a)
      <3>1. eval' = eval \/ \E a \in Alert :
                eval' = [eval EXCEPT ![t].todo = @ \ {a}]
        BY <2>4 DEF Record, Send, Living
      <3> QED BY <1>1, <2>1, <3>1, TurnEffect
    <2>5. CASE WriteHistory(t) \/ CommitScan(t) \/ EndEvaluation(t)
               \/ RecordFails(t)
      BY <2>1, <2>5 DEF WriteHistory, CommitScan, EndEvaluation, RecordFails
    <2> QED BY <1>1, <2>1, <2>2, <2>3, <2>4, <2>5 DEF Evaluate
  <1>2. ASSUME \/ WriteHistory(s) \/ CommitScan(s) \/ RecordFails(s) \/ Crash
               \/ EndEvaluation(s) \/ Tick
               \/ \E a \in Alert : CreateAlert(a) \/ DeleteAlert(a)
        PROVE  /\ eval' = eval
               /\ \/ stage'[s] = stage[s]
                  \/ stage'[s] \notin {"done", "judging", "recording"}
                  \/ EndEvaluation(s) /\ stage'[s] = "done"
    BY <1>2 DEF WriteHistory, CommitScan, RecordFails, EndEvaluation, Crash,
       CreateAlert, DeleteAlert, Tick, Types
  <1>3. CASE LoadAlerts(s)
    BY <1>3 DEF LoadAlerts, Types
  <1>4. CASE LoadHistory(s)
    BY <1>4 DEF LoadHistory, Types
  <1>5. ASSUME NEW a \in Alert, Send(s, a)
        PROVE  /\ stage[s] = "judging" /\ stage'[s] \in {"judging", "recording"}
               /\ \/ eval'[s].todo = eval[s].todo
                  \/ /\ eval'[s].todo = eval[s].todo \ {a}
                     /\ outcome'[s][a] # "none"
    <2>1. PICK r \in Results(a) :
              /\ outcome' = [outcome EXCEPT ![s][a] = r]
              /\ IF r = "delivered"
                 THEN /\ stage' = [stage EXCEPT ![s] = "recording"]
                      /\ UNCHANGED eval
                 ELSE /\ eval' = [eval EXCEPT ![s].todo = @ \ {a}]
                      /\ UNCHANGED stage
      BY <1>5 DEF Send
    <2>2. outcome'[s][a] # "none"
      BY <2>1 DEF Types, Results
    <2>3. stage[s] = "judging" /\ stage'[s] \in {"judging", "recording"}
      BY <1>5, <2>1 DEF Send, Types
    <2>4. eval' = eval \/ eval' = [eval EXCEPT ![s].todo = @ \ {a}]
      BY <2>1
    <2> QED BY <2>2, <2>3, <2>4, TurnEffect
  <1>6. CASE Record(s)
    <2>1. PICK a \in Alert :
              Told(s, a) /\ eval' = [eval EXCEPT ![s].todo = @ \ {a}]
      BY <1>6 DEF Record, Living
    <2>2. outcome'[s][a] # "none" /\ stage[s] = "recording"
          /\ stage'[s] = "judging"
      BY <1>6, <2>1 DEF Record, Told, Types
    <2>3. eval'[s].todo = eval[s].todo \ {a}
      BY <2>1, TurnEffect
    <2> QED BY <2>2, <2>3
  <1> QED BY <1>1, <1>2, <1>3, <1>4, <1>5, <1>6 DEF Next, Evaluate

LEMMA MessagesNext ==
    ASSUME IInv, Next
    PROVE  Messages'
  <1>0. /\ Types /\ Progress /\ Logged /\ Distinct /\ Remembered /\ Messages
        /\ Types'
    BY TypesNext DEF IInv
  <1>1. \A s \in Scan, a \in Alert :
            outcome'[s][a] # "none" => Explained(s, a)' /\ Justified(s, a)'
    BY <1>0, MessagesSent
  <1>2. ASSUME NEW s \in Scan, stage'[s] \in {"judging", "recording"},
               NEW a \in DOMAIN eval'[s].copy \ eval'[s].todo
        PROVE  outcome'[s][a] # "none"
    <2>1. CASE LoadHistory(s)
      BY <1>0, <1>2, <2>1, LoadHistoryEffect
    <2>2. CASE /\ stage[s] \in {"judging", "recording"}
               /\ \/ eval'[s].todo = eval[s].todo
                  \/ \E b \in Alert :
                         /\ eval'[s].todo = eval[s].todo \ {b}
                         /\ outcome'[s][b] # "none"
      <3>1. eval'[s].copy = eval[s].copy /\ a \in Alert
        BY <1>0, <2>2, Frame, EvalFields DEF LoadAlerts
      <3>2. CASE a \notin eval[s].todo
        BY <1>0, <1>2, <2>2, <3>1, <3>2, OutcomeKept DEF Messages
      <3>3. CASE a \in eval[s].todo
        BY <1>2, <2>2, <3>3
      <3> QED BY <3>2, <3>3
    <2> QED BY <1>0, <1>2, <2>1, <2>2, Stages
  <1>3. ASSUME NEW s \in Scan, stage'[s] = "done", NEW a \in DOMAIN eval'[s].copy
        PROVE  Served(s, a)'
    <2>0. settings' = settings
      BY DEF Next, WriteHistory, CommitScan, Evaluate, LoadAlerts, LoadHistory,
             EndEvaluation, Record, RecordFails, Send, CreateAlert,
             DeleteAlert, Tick, Crash
    <2>1. CASE LoadAlerts(s) /\ Enabled = {}
      <3>1. DOMAIN eval'[s].copy = {}
        BY <1>0, <2>1, LoadAlertsEffect
      <3> QED BY <1>3, <3>1
    <2>2. CASE stage[s] = "done" \/ EndEvaluation(s)
      <3>1. stage[s] \in Judged /\ stage[s] # "committed"
        BY <2>2 DEF Judged, EndEvaluation
      <3>2. eval'[s].copy = eval[s].copy
        BY <1>0, <3>1, Frame DEF LoadAlerts
      <3>3. a \in DOMAIN eval[s].copy /\ a \in Alert
        BY <1>0, <1>3, <3>2, EvalFields
      <3>4. Served(s, a)
        BY <1>0, <2>2, <3>3, EndServed DEF Messages
      <3> QED BY <1>0, <2>0, <3>1, <3>3, <3>4, ServedKept
    <2> QED BY <1>0, <1>3, <2>1, <2>2, Stages
  <1> QED BY <1>1, <1>2, <1>3 DEF Messages

LEMMA InitIInv == Init => IInv
  <1> SUFFICES ASSUME Init PROVE IInv
    OBVIOUS
  <1>1. Messages
    BY DEF Init, Messages
  <1> QED BY <1>1, InitTypes, InitProgress DEF IInv

LEMMA NextIInv == IInv /\ [Next]_vars => IInv'
  <1>1. ASSUME IInv, Next PROVE IInv'
    BY <1>1, TypesNext, ProgressNext, LoggedNext, DistinctNext,
       RememberedNext, MessagesNext DEF IInv
  <1>2. ASSUME IInv, UNCHANGED vars PROVE IInv'
    <2>1. Types' /\ Logged' /\ Distinct'
      BY <1>2, SameAddresses DEF vars, IInv, Types, Logged, Distinct
    <2>2. Progress'
      BY <1>2 DEF vars, IInv, Progress, Begun, Evaluated, Turns
    <2>3. Remembered'
      BY <1>2 DEF vars, IInv, Remembered, Shows, LastOf
    <2>4. Messages'
      BY <1>2 DEF vars, IInv, Messages, Explained, Justified, Served, Heard,
         Recent, Reached, DropsFromAll, Others, IsLast, Configured
    <2> QED BY <2>1, <2>2, <2>3, <2>4 DEF IInv
  <1> QED BY <1>1, <1>2

LEMMA SpecIInv == Spec => []IInv
  BY InitIInv, NextIInv, PTL DEF Spec

-----------------------------------------------------------------------------
\* Every state is well typed, and an evaluation that has delivered a message
\* knows the one alert it has to record.
THEOREM TypeCorrect == Spec => []TypeOK
  <1>1. IInv => TypeOK
    BY TypesTypeOK DEF IInv
  <1> QED BY <1>1, SpecIInv, PTL

\* A message repeated within the window follows a record that the evaluation
\* could not see, or that another one had replaced.
THEOREM RepeatsExplained == Spec => []RepeatExplained
  <1>1. IInv => RepeatExplained
    BY DEF IInv, Messages, RepeatExplained, Explained
  <1> QED BY <1>1, SpecIInv, PTL

\* A message about a drop is true of every other row of the history.
THEOREM DropsReal == Spec => []NoFalseDrop
  <1>1. IInv => NoFalseDrop
    BY DEF IInv, Messages, NoFalseDrop, Justified
  <1> QED BY <1>1, SpecIInv, PTL

\* An evaluation that ends in order has told of everything due.
THEOREM DueAlertsServed == Spec => []DueServed
  <1>1. IInv => DueServed
    <2> SUFFICES ASSUME IInv, NEW s \in Scan, stage[s] = "done",
                        NEW a \in DOMAIN eval[s].copy
                 PROVE  (/\ Configured(a)
                         /\ Reached(s, a) \/ (IsLast(s) /\ DropsFromAll(s, a)))
                        => \/ outcome[s][a] # "none"
                           \/ \E n \in Heard(s) : Recent(n, s, a)
      BY DEF DueServed
    <2> QED BY DEF IInv, Messages, Served
  <1> QED BY <1>1, SpecIInv, PTL
=============================================================================
