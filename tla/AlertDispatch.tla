--------------------------- MODULE AlertDispatch ---------------------------
(***************************************************************************)
(* The end of a scan: its row in the price history (scanner/runner.py,     *)
(* _write_history and the commit that publishes it), the evaluation of the *)
(* alerts of its cruise (notify/dispatcher.py, evaluate_alerts) and the    *)
(* channels (notify/channels.py), next to requests that create and delete  *)
(* alerts.                                                                 *)
(*                                                                         *)
(* One cruise; its scans run on the threads of the scan queue.  A session  *)
(* keeps what it has loaded (expire_on_commit=False), so an evaluation     *)
(* works on the alerts as they were when it began.  What a scan does       *)
(* before it has its lowest price is the subject of ScanRunner.            *)
(***************************************************************************)
EXTENDS Integers, FiniteSets, Sequences

CONSTANTS
    Scan,        \* the scans of the cruise
    Workers,     \* MAX_CONCURRENT_SCANS
    Alert,       \* the alerts
    Present,     \* those that exist from the start
    Options,     \* what each of them was created with
    Deployments, \* the sets of notification settings to look at
    Price,       \* lowest prices
    Debounce,    \* DEBOUNCE
    MaxTime,     \* bound on the clock
    MaxMishaps,   \* bound on deletions, failing commits and crashes
    None         \* missing

ASSUME NumbersAssumption ==
    /\ Workers \in Nat /\ Debounce \in Nat
    /\ MaxTime \in Nat /\ MaxMishaps \in Nat
ASSUME PriceAssumption == Price \subseteq Nat /\ None \notin Nat
\* create_alert refuses an alert without a condition, AlertCreate an unknown
\* channel and percentages outside of 0.1 to 90.
Acceptable(o) ==
    /\ o.threshold \in Nat \cup {None}
    /\ o.drop \in 1 .. 90 \cup {None}
    /\ {o.threshold, o.drop} # {None}
    /\ o.channel \in {"email", "telegram", "discord", "homeassistant"}
    /\ o.target \in BOOLEAN
    /\ o.enabled \in BOOLEAN

ASSUME OptionsAssumption == \A a \in Alert : Acceptable(Options[a])

VARIABLES
    settings, \* the settings of this process
    clock,
    stage,    \* how far each scan is
    price,    \* its lowest price
    stamps,   \* how many rows have been stamped with the time
    stamp,    \* the rank of each scan's row among them, 0 for none
    rows,     \* the scans whose row is committed
    alerts,   \* the rows of the alerts, and whether they are there
    eval,     \* the variables of each evaluate_alerts
    outcome,  \* what became of the message of a scan for an alert
    recorded, \* the committed records of messages, in order
    mishaps   \* how many there were

vars == << settings, clock, stage, price, stamps, stamp, rows, alerts, eval,
           outcome, recorded, mishaps >>

-----------------------------------------------------------------------------
\* Channels

Configured(a) ==
    CASE Options[a].channel = "email" -> {"host", "from"} \subseteq settings
      [] Options[a].channel = "telegram" -> "token" \in settings
      [] Options[a].channel = "discord" -> "discord" \in settings
      [] OTHER -> "homeassistant" \in settings

\* the address a message goes to: the alert's own, or a default
HasAddress(a) ==
    Options[a].target \/ CASE Options[a].channel = "email" -> FALSE
                           [] Options[a].channel = "telegram" -> "chat" \in settings
                           [] OTHER -> Configured(a)

\* Faulty variant: nobody looks for an address.
ResultsUnaddressed(a) == {"delivered", "failed"}

\* send is true only when the service has said so: a message whose answer
\* is lost or late has failed for the code, delivered or not.
Results(a) ==
    IF HasAddress(a) THEN {"delivered", "failed"} ELSE {"failed"}

-----------------------------------------------------------------------------
\* The scan

Blank == [copy |-> <<>>, history |-> {}, at |-> 0, todo |-> {}, heard |-> 0]

Init ==
    /\ settings \in Deployments
    /\ clock = 0
    /\ stage = [s \in Scan |-> "running"]
    /\ price = [s \in Scan |-> None]
    /\ stamps = 0
    /\ stamp = [s \in Scan |-> 0]
    /\ rows = {}
    /\ alerts = [a \in Alert |->
           [is |-> IF a \in Present THEN "there" ELSE "new",
            last |-> None, price |-> None]]
    /\ eval = [s \in Scan |-> Blank]
    /\ outcome = [s \in Scan |-> [a \in Alert |-> "none"]]
    /\ recorded = <<>>
    /\ mishaps = 0

Resting == {"running", "done", "failed"}
InFlight == {s \in Scan : stage[s] \notin Resting}

Mishap == mishaps < MaxMishaps /\ mishaps' = mishaps + 1

\* _write_history stamps the row before it is committed.  A scan without a
\* price writes no row and evaluates no alert: it stays out of this model.
WriteHistory(s) ==
    /\ stage[s] = "running"
    /\ Cardinality(InFlight) < Workers
    /\ \E p \in Price : price' = [price EXCEPT ![s] = p]
    /\ stamps' = stamps + 1
    /\ stamp' = [stamp EXCEPT ![s] = stamps + 1]
    /\ stage' = [stage EXCEPT ![s] = "stamped"]
    /\ UNCHANGED << settings, clock, rows, alerts, eval, outcome, recorded,
                    mishaps >>

CommitScan(s) ==
    /\ stage[s] = "stamped"
    /\ \/ /\ rows' = rows \cup {s}
          /\ stage' = [stage EXCEPT ![s] = "committed"]
          /\ UNCHANGED mishaps
       \/ /\ Mishap
          /\ stage' = [stage EXCEPT ![s] = "failed"]
          /\ UNCHANGED rows
    /\ UNCHANGED << settings, clock, price, stamps, stamp, alerts, eval, outcome,
                    recorded >>

-----------------------------------------------------------------------------
\* evaluate_alerts

Living == {a \in Alert : alerts[a].is = "there"}
Enabled == {a \in Living : Options[a].enabled}

LoadAlerts(s) ==
    /\ stage[s] = "committed"
    /\ eval' = [eval EXCEPT ![s] =
           [@ EXCEPT !.copy = [a \in Enabled |-> alerts[a]],
                     !.heard = Len(recorded)]]
    /\ stage' = [stage EXCEPT ![s] = IF Enabled = {} THEN "done" ELSE "loaded"]
    /\ UNCHANGED << settings, clock, price, stamps, stamp, rows, alerts,
                    outcome, recorded, mishaps >>

\* All rows there are; their stamps put them in order.
LoadHistory(s) ==
    /\ stage[s] = "loaded"
    /\ eval' = [eval EXCEPT ![s] =
           [@ EXCEPT !.history = rows, !.at = clock, !.todo = DOMAIN eval[s].copy]]
    /\ stage' = [stage EXCEPT ![s] = "judging"]
    /\ UNCHANGED << settings, clock, price, stamps, stamp, rows, alerts,
                    outcome, recorded, mishaps >>

\* Faulty variant: only the row before the last one counts.
EarlierLast(s) ==
    LET h == eval[s].history
        early == {t \in h : \E u \in h : stamp[u] > stamp[t]}
    IN {t \in early : \A u \in early : stamp[u] <= stamp[t]}

\* history[:-1]: the last row is taken to be the one of this scan.
Earlier(s) ==
    {t \in eval[s].history : \E u \in eval[s].history : stamp[u] > stamp[t]}

\* p is at least d percent below r
Drops(r, p, d) == (r - p) * 100 >= d * r

\* A reference of zero counts as none.
Dropped(s, a) ==
    /\ Options[a].drop # None
    /\ \E t \in Earlier(s) :
           /\ \A u \in Earlier(s) : price[t] <= price[u]
           /\ price[t] # 0
           /\ Drops(price[t], price[s], Options[a].drop)

Reached(s, a) ==
    Options[a].threshold # None /\ price[s] <= Options[a].threshold

\* Faulty variant: the price is not compared.
DebouncedAnyPrice(s, a) ==
    /\ eval[s].copy[a].last # None
    /\ eval[s].at - eval[s].copy[a].last < Debounce

Debounced(s, a) ==
    /\ eval[s].copy[a].last # None
    /\ eval[s].at - eval[s].copy[a].last < Debounce
    /\ eval[s].copy[a].price = price[s]

Notifies(s, a) ==
    (Reached(s, a) \/ Dropped(s, a)) /\ ~Debounced(s, a) /\ Configured(a)

\* The alerts come in no particular order; those that are not to be notified
\* are passed over.
Send(s, a) ==
    /\ stage[s] = "judging"
    /\ a \in eval[s].todo
    /\ Notifies(s, a)
    /\ \E r \in Results(a) :
           /\ outcome' = [outcome EXCEPT ![s][a] = r]
           /\ IF r = "delivered"
              THEN /\ stage' = [stage EXCEPT ![s] = "recording"]
                   /\ UNCHANGED eval
              ELSE /\ eval' = [eval EXCEPT ![s].todo = @ \ {a}]
                   /\ UNCHANGED stage
    /\ UNCHANGED << settings, clock, price, stamps, stamp, rows, alerts,
                    recorded, mishaps >>

\* the alert whose message has just been delivered
Told(s, a) == a \in eval[s].todo /\ outcome[s][a] = "delivered"

\* Faulty variant: only the time is kept.
RecordTimeOnly(s) ==
    /\ stage[s] = "recording"
    /\ \E a \in Living : Told(s, a) /\
           /\ alerts' = [alerts EXCEPT ![a].last = eval[s].at]
           /\ recorded' = Append(recorded, <<s, a>>)
           /\ eval' = [eval EXCEPT ![s].todo = @ \ {a}]
    /\ stage' = [stage EXCEPT ![s] = "judging"]
    /\ UNCHANGED << settings, clock, price, stamps, stamp, rows, outcome,
                    mishaps >>

Record(s) ==
    /\ stage[s] = "recording"
    /\ \E a \in Living : Told(s, a) /\
           /\ alerts' = [alerts EXCEPT ![a].last = eval[s].at,
                                        ![a].price = price[s]]
           /\ recorded' = Append(recorded, <<s, a>>)
           /\ eval' = [eval EXCEPT ![s].todo = @ \ {a}]
    /\ stage' = [stage EXCEPT ![s] = "judging"]
    /\ UNCHANGED << settings, clock, price, stamps, stamp, rows, outcome,
                    mishaps >>

\* The commit fails, in any case when the alert has been deleted: the
\* exception ends the evaluation, and execute_scan only logs it.
RecordFails(s) ==
    /\ stage[s] = "recording"
    /\ \/ Mishap
       \/ /\ \A a \in Living : ~Told(s, a)
          /\ UNCHANGED mishaps
    /\ stage' = [stage EXCEPT ![s] = "failed"]
    /\ UNCHANGED << settings, clock, price, stamps, stamp, rows, alerts, eval,
                    outcome, recorded >>

EndEvaluation(s) ==
    /\ stage[s] = "judging"
    /\ \A a \in eval[s].todo : ~Notifies(s, a)
    /\ stage' = [stage EXCEPT ![s] = "done"]
    /\ UNCHANGED << settings, clock, price, stamps, stamp, rows, alerts, eval,
                    outcome, recorded, mishaps >>

-----------------------------------------------------------------------------
\* Requests, time and failures

\* Members of Alert differ in channel or target; a second alert with both the
\* same is refused by the table.
CreateAlert(a) ==
    /\ alerts[a].is = "new"
    /\ alerts' = [alerts EXCEPT ![a].is = "there"]
    /\ UNCHANGED << settings, clock, stage, price, stamps, stamp, rows, eval,
                    outcome, recorded, mishaps >>

DeleteAlert(a) ==
    /\ a \in Living
    /\ Mishap
    /\ alerts' = [alerts EXCEPT ![a].is = "gone"]
    /\ UNCHANGED << settings, clock, stage, price, stamps, stamp, rows, eval,
                    outcome, recorded >>

Tick ==
    /\ clock < MaxTime
    /\ clock' = clock + 1
    /\ UNCHANGED << settings, stage, price, stamps, stamp, rows, alerts, eval,
                    outcome, recorded, mishaps >>

\* The process ends and another takes over; nobody resumes an evaluation.
Crash ==
    /\ InFlight # {}
    /\ Mishap
    /\ stage' = [s \in Scan |-> IF s \in InFlight THEN "failed" ELSE stage[s]]
    /\ UNCHANGED << settings, clock, price, stamps, stamp, rows, alerts, eval,
                    outcome, recorded >>

Evaluate(s) ==
    \/ LoadAlerts(s) \/ LoadHistory(s) \/ EndEvaluation(s)
    \/ Record(s) \/ RecordFails(s)
    \/ \E a \in Alert : Send(s, a)

Next ==
    \/ \E s \in Scan :
           WriteHistory(s) \/ CommitScan(s) \/ Evaluate(s)
    \/ \E a \in Alert : CreateAlert(a) \/ DeleteAlert(a)
    \/ Tick
    \/ Crash

Spec == Init /\ [][Next]_vars

-----------------------------------------------------------------------------
\* Properties

Row == [is: {"new", "there", "gone"}, last: 0 .. MaxTime \cup {None},
        price: Price \cup {None}]

\* The types; an evaluation is in one place of its loop, and no message reaches
\* anybody without an address.
TypeOK ==
    /\ settings \in Deployments
    /\ clock \in 0 .. MaxTime
    /\ stage \in [Scan -> Resting \cup {"stamped", "committed", "loaded", "judging",
                                     "recording"}]
    /\ price \in [Scan -> Price \cup {None}]
    /\ stamps \in Nat
    /\ stamp \in [Scan -> 0 .. stamps]
    /\ rows \subseteq {s \in Scan : stamp[s] > 0}
    /\ alerts \in [Alert -> Row]
    /\ \A s \in Scan :
           /\ DOMAIN eval[s].copy \subseteq Alert
           /\ \A a \in DOMAIN eval[s].copy : eval[s].copy[a] \in Row
           /\ eval[s].history \subseteq rows
           /\ eval[s].at \in 0 .. clock
           /\ eval[s].todo \subseteq DOMAIN eval[s].copy
           /\ eval[s].heard \in 0 .. Len(recorded)
           /\ stage[s] = "recording" =>
                  \E a \in Alert : {b \in Alert : Told(s, b)} = {a}
    /\ outcome \in [Scan -> [Alert -> {"none", "delivered", "failed"}]]
    /\ \A s \in Scan, a \in Alert :
           outcome[s][a] = "delivered" => HasAddress(a)
    /\ recorded \in Seq(Scan \X Alert)
    /\ mishaps \in 0 .. MaxMishaps

\* the records of messages that were there when the alerts were loaded for s
Heard(s) == 1 .. eval[s].heard

\* the n-th record is one of alert a at the price of s, within the window of s
Recent(n, s, a) ==
    /\ recorded[n][2] = a
    /\ price[recorded[n][1]] = price[s]
    /\ eval[s].at - eval[recorded[n][1]].at < Debounce

\* dispatcher.py:16, "Never send the same alert more than once per this
\* window": when a message goes out again at the same price within the window,
\* its evaluation had begun before the other was recorded, or a record of
\* another price, or of an evaluation begun earlier, had replaced it.
RepeatExplained ==
    \A s \in Scan, a \in Alert :
        outcome[s][a] # "none" =>
            \A n \in Heard(s) :
                Recent(n, s, a) =>
                    \E k \in Heard(s) :
                        /\ k > n
                        /\ recorded[k][2] = a
                        /\ \/ price[recorded[k][1]] # price[s]
                           \/ eval[recorded[k][1]].at < eval[recorded[n][1]].at

Others(s) == eval[s].history \ {s}
IsLast(s) == \A t \in Others(s) : stamp[t] < stamp[s]

\* the price of s is as far below that of every other row as alert a asks for
DropsFromAll(s, a) ==
    /\ Options[a].drop # None
    /\ Others(s) # {}
    /\ \A t \in Others(s) :
           price[t] > 0 /\ Drops(price[t], price[s], Options[a].drop)

\* dispatcher.py:57 and :82: an evaluation that was not cut short tried to tell
\* of every threshold reached and, if no later row was there already, of every
\* price that is low enough below all others, except where the same price had
\* been told within the window.
DueServed ==
    \A s \in Scan :
        stage[s] = "done" =>
            \A a \in DOMAIN eval[s].copy :
                (/\ Configured(a)
                 /\ Reached(s, a) \/ (IsLast(s) /\ DropsFromAll(s, a))) =>
                    \/ outcome[s][a] # "none"
                    \/ \E n \in Heard(s) : Recent(n, s, a)

\* dispatcher.py:57: whosever row was the last one, a message sent only because
\* the price dropped is right about every other row that was there.
NoFalseDrop ==
    \A s \in Scan, a \in Alert :
        outcome[s][a] # "none" /\ ~Reached(s, a) => DropsFromAll(s, a)
=============================================================================
