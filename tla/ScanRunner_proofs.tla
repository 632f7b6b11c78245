--------------------------- MODULE ScanRunner_proofs ---------------------------
(***************************************************************************)
(* Theorems about ScanRunner, for every matrix, every number of rounds,    *)
(* every setting and every set of outcomes.                                *)
(***************************************************************************)
EXTENDS ScanRunner, FiniteSetTheorems, TLAPS

------------------------------------------------------------------------------
(* Facts about the configuration. *)

LEMMA ConfigurationTypes ==
    ASSUME settings \in Settings
    PROVE  /\ NumTests \in Nat /\ NumTests >= 1
           /\ settings.rounds \in Nat /\ settings.rounds >= 1
           /\ settings.abortAfter \in Nat
           /\ settings.maxRetries \in Nat
           /\ 1 \in Test /\ 1 \in Round
BY RunnerAssumption DEF Test, Round

\* max(1, max_retries_per_profile): the first attempt is always allowed, a
\* further one only while the setting is not used up.
LEMMA LimitFacts ==
    ASSUME settings \in Settings
    PROVE  Limit \in Nat /\ Limit >= 1
  <1> DEFINE S == {1, settings.maxRetries}
  <1>1. settings.maxRetries \in Nat
    BY ConfigurationTypes
  <1>2. \E x \in S : \A y \in S : x >= y
    <2>1. CASE settings.maxRetries >= 1
      BY <1>1, <2>1
    <2>2. CASE settings.maxRetries < 1
      BY <1>1, <2>2
    <2>3. QED
      BY <1>1, <2>1, <2>2
  <1>3. Limit \in S /\ \A y \in S : Limit >= y
    BY <1>2 DEF Limit, Max
  <1>4. QED
    BY <1>1, <1>3

------------------------------------------------------------------------------
(* Type correctness. *)

LEMMA InitTypeOK == Init => TypeOK
  <1> SUFFICES ASSUME Init
               PROVE  TypeOK
    OBVIOUS
  <1>1. settings \in Settings
    BY DEF Init
  <1>2. /\ Limit \in Nat /\ Limit >= 1
        /\ 1 \in Test /\ 1 \in Round
        /\ settings.rounds \in Nat
    BY <1>1, ConfigurationTypes, LimitFacts
  <1>3. NoFlow \in Flow /\ NoRow \in Row
    BY DEF NoFlow, Flow, FlowStatus, NoRow, Row
  <1>4. rows \in [Test -> [Round -> Row]]
    BY <1>3 DEF Init
  <1>5. files \in [{Profile[t] : t \in Test} -> [Round -> Test \cup {NoTest}]]
    BY DEF Init
  <1>6. shot \in BOOLEAN /\ aborted \in BOOLEAN
    BY Zenon DEF Init
  <1>7. roundsCompleted \in 0 .. settings.rounds /\ attempts \in 0 .. Limit /\ attempts < Limit
    BY <1>2 DEF Init
  <1>8. QED
    BY <1>1, <1>2, <1>3, <1>4, <1>5, <1>6, <1>7 DEF Init, TypeOK, Verdict

LEMMA StepTypeOK == TypeOK /\ [Next]_vars => TypeOK'
  <1> SUFFICES ASSUME TypeOK, [Next]_vars
               PROVE  TypeOK'
    OBVIOUS
  <1>a. /\ NumTests \in Nat /\ NumTests >= 1
        /\ settings.rounds \in Nat /\ settings.rounds >= 1
        /\ 1 \in Test /\ 1 \in Round
        /\ Limit \in Nat /\ Limit >= 1
    BY ConfigurationTypes, LimitFacts DEF TypeOK
  <1>b. NoFlow \in Flow /\ Skipped \in Row
    BY DEF NoFlow, Flow, FlowStatus, Skipped, NoRow, Row
  <1>1. ASSUME NEW outcome \in Outcome, Attempt(outcome)
        PROVE  TypeOK'
    <2>1. outcome.flow \in Flow /\ outcome.picture \in BOOLEAN
      BY RunnerAssumption
    <2>2. files' \in [{Profile[t] : t \in Test} -> [Round -> Test \cup {NoTest}]]
      BY <1>1 DEF Attempt, Photograph, TypeOK
    <2>3. shot' \in BOOLEAN
      BY <1>1, <2>1 DEF Attempt, Photograph, TypeOK
    <2>4. attempts' \in 0 .. Limit
      BY <1>1, <1>a DEF Attempt, TypeOK
    <2>5. at' = "attempt" => attempts' < Limit
      BY <1>1 DEF Attempt
    <2>6. UNCHANGED <<settings, Round, Limit>>
      BY <1>1 DEF Attempt, Round, Limit
    <2>7. QED
      BY <1>1, <2>1, <2>2, <2>3, <2>4, <2>5, <2>6 DEF Attempt, TypeOK
  <1>2. CASE Record
    <2>1. UNCHANGED <<settings, Round, Limit>>
      BY <1>2 DEF Record, Round, Limit
    <2>2. [status |-> flow.status, price |-> flow.price, attempts |-> attempts, shot |-> shot] \in Row
      BY <1>a DEF TypeOK, Flow, Row
    <2>3. rows' \in [Test -> [Round -> Row]]
      BY <1>2, <2>2 DEF Record, TypeOK
    <2>4. blockedCount' \in Nat
      BY <1>2 DEF Record, TypeOK
    <2>5. /\ at' \in {"attempt", "abort", "round"}
          /\ at' = "attempt" => attempts' < Limit
          /\ attempts' \in 0 .. Limit
          /\ index' \in Test
          /\ flow' \in Flow
      <3>1. CASE at' = "abort" /\ UNCHANGED <<index, attempts, flow, shot>>
        BY <3>1 DEF TypeOK
      <3>2. CASE AdvanceTest
        <4>1. CASE index < NumTests
          BY <3>2, <4>1, <1>a, <1>b DEF AdvanceTest, TypeOK, Test
        <4>2. CASE ~(index < NumTests)
          BY <3>2, <4>2 DEF AdvanceTest, TypeOK
        <4>3. QED
          BY <4>1, <4>2
      <3>3. QED
        BY <1>2, <3>1, <3>2 DEF Record
    <2>6. shot' \in BOOLEAN
      BY <1>2, Zenon DEF Record, AdvanceTest, TypeOK
    <2>7. QED
      BY <1>2, <2>1, <2>3, <2>4, <2>5, <2>6 DEF Record, TypeOK
  <1>3. CASE Abort
    <2>1. UNCHANGED <<settings, Round, Limit>>
      BY <1>3 DEF Abort, Round, Limit
    <2>2. rows' \in [Test -> [Round -> Row]]
      BY <1>3, <1>b DEF Abort, WithSkipped, TypeOK
    <2>3. QED
      BY <1>3, <2>1, <2>2 DEF Abort, TypeOK
  <1>4. CASE EndRound
    <2>1. UNCHANGED <<settings, Round, Limit>>
      BY <1>4 DEF EndRound, Round, Limit
    <2>2. roundsCompleted' \in 0 .. settings.rounds
      BY <1>4, <1>a DEF EndRound, TypeOK, Round
    <2>3. QED
      BY <1>4, <2>1, <2>2 DEF EndRound, TypeOK
  <1>5. CASE Analyse
    <2>1. UNCHANGED <<settings, Round, Limit>>
      BY <1>5 DEF Analyse, Round, Limit
    <2>2. verdict' \in Verdict
      BY <1>5 DEF Analyse, Verdicts, Verdict
    <2>3. /\ round' \in Round
          /\ index' \in Test
          /\ attempts' \in 0 .. Limit
          /\ at' = "attempt" => attempts' < Limit
          /\ at' \in {"attempt", "finish"}
          /\ flow' \in Flow
      <3>1. CASE round < settings.rounds /\ StartRound(round + 1)
        BY <3>1, <1>a, <1>b DEF StartRound, TypeOK, Round
      <3>2. CASE at' = "finish" /\ UNCHANGED <<round, index, attempts, flow, shot>>
        BY <3>2 DEF TypeOK
      <3>3. QED
        BY <1>5, <3>1, <3>2 DEF Analyse
    <2>4. shot' \in BOOLEAN
      BY <1>5, Zenon DEF Analyse, StartRound, TypeOK
    <2>5. QED
      BY <1>5, <2>1, <2>2, <2>3, <2>4 DEF Analyse, TypeOK
  <1>6. CASE Finish \/ Fail \/ Lose
    <2>1. UNCHANGED <<settings, Round, Limit>>
      BY <1>6 DEF Finish, Fail, Lose, Round, Limit
    <2>2. QED
      BY <1>6, <2>1 DEF Finish, Fail, Lose, TypeOK
  <1>7. CASE UNCHANGED vars
    <2>1. UNCHANGED <<settings, Round, Limit>>
      BY <1>7 DEF vars, Round, Limit
    <2>2. QED
      BY <1>7, <2>1 DEF vars, progressVars, TypeOK
  <1>8. QED
    BY <1>1, <1>2, <1>3, <1>4, <1>5, <1>6, <1>7 DEF Next

\* ScanRunner is type correct: no step takes a variable out of its type or past
\* the configured number of rounds and attempts.
THEOREM TypeCorrect == Spec => []TypeOK
BY InitTypeOK, StepTypeOK, PTL DEF Spec

------------------------------------------------------------------------------
(* What the two actions that write rows do to them. *)

LEMMA RecordedRow ==
    ASSUME TypeOK, Record
    PROVE  \A t \in Test, r \in Round :
              rows'[t][r] = IF t = index /\ r = round
                            THEN [status |-> flow.status, price |-> flow.price,
                                  attempts |-> attempts, shot |-> shot]
                            ELSE rows[t][r]
BY DEF TypeOK, Record

LEMMA SkippedRows ==
    ASSUME TypeOK, Abort
    PROVE  \A t \in Test, r \in Round :
              rows'[t][r] = IF t > index /\ r = round THEN Skipped ELSE rows[t][r]
BY DEF TypeOK, Abort, WithSkipped

\* All other steps leave the rows alone.
LEMMA OtherSteps ==
    ASSUME [Next]_vars, ~Record, ~Abort
    PROVE  UNCHANGED rows
BY DEF Next, Attempt, EndRound, Analyse, Finish, Fail, Lose, vars

LEMMA SettingsFixed ==
    ASSUME [Next]_vars
    PROVE  UNCHANGED <<settings, Round, Limit, Test>>
  <1>1. UNCHANGED settings
    BY DEF Next, Attempt, Record, Abort, EndRound, Analyse, Finish, Fail, Lose, vars
  <1>2. QED
    BY <1>1 DEF Round, Limit, Test

------------------------------------------------------------------------------
(* The attempts of a test. *)

LEMMA StepRetryInv == TypeOK /\ TypeOK' /\ RetryInv /\ [Next]_vars => RetryInv'
  <1> SUFFICES ASSUME TypeOK, TypeOK', RetryInv, [Next]_vars
               PROVE  RetryInv'
    OBVIOUS
  <1>a. UNCHANGED <<settings, Round, Limit, Test>>
    BY SettingsFixed
  <1>b. Limit \in Nat /\ Limit >= 1
    BY LimitFacts DEF TypeOK
  <1>1. ASSUME NEW outcome \in Outcome, Attempt(outcome)
        PROVE  RetryInv'
    <2>1. attempts \in Nat /\ attempts < Limit /\ attempts' = attempts + 1
      BY <1>1, <1>b DEF Attempt, TypeOK
    <2>2. CASE flow'.status \in Retryable /\ attempts' < Limit
      BY <1>1, <2>2 DEF Attempt, RetryInv
    <2>3. CASE ~(flow'.status \in Retryable /\ attempts' < Limit)
      BY <1>1, <1>a, <1>b, <2>1, <2>3 DEF Attempt, RetryInv
    <2>4. QED
      BY <2>2, <2>3
  <1>2. CASE Record
    <2>1. at' # "record" /\ (at' = "attempt" => attempts' = 0)
      BY <1>2 DEF Record, AdvanceTest
    <2>2. QED
      BY <2>1 DEF RetryInv
  <1>3. CASE Analyse
    <2>1. at' # "record" /\ (at' = "attempt" => attempts' = 0)
      BY <1>3 DEF Analyse, StartRound
    <2>2. QED
      BY <2>1 DEF RetryInv
  <1>4. CASE Abort \/ EndRound \/ Finish \/ Fail \/ Lose
    BY <1>4 DEF Abort, EndRound, Finish, Fail, Lose, RetryInv
  <1>5. CASE UNCHANGED vars
    BY <1>5, <1>a DEF vars, progressVars, RetryInv
  <1>6. QED
    BY <1>1, <1>2, <1>3, <1>4, <1>5 DEF Next

\* Where the attempt loop ends, its result is final or the attempts are used up.
THEOREM RetryInvariant == Spec => []RetryInv
  <1>1. Init => RetryInv
    BY DEF Init, RetryInv
  <1>2. QED
    BY <1>1, TypeCorrect, StepRetryInv, PTL DEF Spec

LEMMA StepRetriesUsed ==
    TypeOK /\ TypeOK' /\ RetryInv /\ RetriesUsed /\ [Next]_vars => RetriesUsed'
  <1> SUFFICES ASSUME TypeOK, RetryInv, RetriesUsed, [Next]_vars,
                      NEW t \in Test, NEW r \in Round,
                      rows'[t][r].status \in FlowStatus
               PROVE  /\ rows'[t][r].attempts \in 1 .. Limit
                      /\ rows'[t][r].status \in Retryable => rows'[t][r].attempts = Limit
    BY SettingsFixed DEF RetriesUsed
  <1>1. CASE Record
    <2>1. CASE t = index /\ r = round
      BY <1>1, <2>1, RecordedRow DEF Record, RetryInv
    <2>2. CASE ~(t = index /\ r = round)
      BY <1>1, <2>2, RecordedRow DEF RetriesUsed
    <2>3. QED
      BY <2>1, <2>2
  <1>2. CASE Abort
    <2>1. CASE t > index /\ r = round
      BY <1>2, <2>1, SkippedRows DEF Skipped, FlowStatus
    <2>2. CASE ~(t > index /\ r = round)
      BY <1>2, <2>2, SkippedRows DEF RetriesUsed
    <2>3. QED
      BY <2>1, <2>2
  <1>3. CASE ~Record /\ ~Abort
    BY <1>3, OtherSteps DEF RetriesUsed
  <1>4. QED
    BY <1>1, <1>2, <1>3

\* No test has more attempts than configured, and a technical failure is only
\* recorded when all of them are used (runner.py:249-282).
THEOREM RetriesTheorem == Spec => []RetriesUsed
  <1>1. Init => RetriesUsed
    BY DEF Init, RetriesUsed, NoRow, FlowStatus
  <1>2. QED
    BY <1>1, TypeCorrect, RetryInvariant, StepRetriesUsed, PTL DEF Spec

------------------------------------------------------------------------------
(* The position of the scan and its rows. *)

LEMMA StepPositionInv == TypeOK /\ TypeOK' /\ PositionInv /\ [Next]_vars => PositionInv'
  <1> SUFFICES ASSUME TypeOK, TypeOK', PositionInv, [Next]_vars
               PROVE  PositionInv'
    OBVIOUS
  <1>a. UNCHANGED <<settings, Round, Limit, Test>>
    BY SettingsFixed
  <1>b. /\ NumTests \in Nat /\ NumTests >= 1
        /\ index \in Nat /\ round \in Nat /\ index \in Test /\ round \in Round
        /\ Test = 1 .. NumTests /\ Round \subseteq Nat
        /\ settings.rounds \in Nat /\ Round = 1 .. settings.rounds
    BY ConfigurationTypes DEF TypeOK, Test, Round
  <1>1. ASSUME NEW outcome \in Outcome, Attempt(outcome)
        PROVE  PositionInv'
    <2>1. /\ at = "attempt" /\ at' \in {"attempt", "record"}
          /\ UNCHANGED <<status, rows, round, index, roundsCompleted>>
      BY <1>1 DEF Attempt
    <2>2. QED
      BY <1>a, <2>1 DEF PositionInv, Written
  <1>2. CASE Record
    <2>1. /\ at = "record"
          /\ UNCHANGED <<status, round, roundsCompleted>>
      BY <1>2 DEF Record
    <2>2. \A t \in Test, r \in Round :
             Written(t, r)' <=> Written(t, r) \/ (t = index /\ r = round)
      BY <1>2, <1>a, RecordedRow DEF Written, TypeOK, Flow, FlowStatus
    <2>3. /\ status' = "RUNNING"
          /\ \A t \in Test, r \in Round :
                /\ r < round => Written(t, r)'
                /\ r > round => ~Written(t, r)'
          /\ roundsCompleted' = round - 1
          /\ \A t \in Test : Written(t, round)' <=> t < index + 1
      BY <1>b, <2>1, <2>2 DEF PositionInv
    <2>4. CASE at' = "abort"
      <3>1. flow.status = "BLOCKED" /\ index' = index
        BY <1>2, <2>4 DEF Record, AdvanceTest
      <3>2. rows'[index][round].status = "BLOCKED"
        BY <1>2, <1>b, <3>1, RecordedRow
      <3>3. QED
        BY <1>a, <1>b, <2>1, <2>3, <2>4, <3>1, <3>2 DEF PositionInv, Written
    <2>5. CASE at' = "attempt"
      <3>1. index' = index + 1
        BY <1>2, <2>5 DEF Record, AdvanceTest
      <3>2. QED
        BY <1>a, <1>b, <2>1, <2>3, <2>5, <3>1 DEF PositionInv, Written
    <2>6. CASE at' = "round"
      <3>1. index = NumTests
        BY <1>2, <1>b, <2>6 DEF Record, AdvanceTest
      <3>2. QED
        BY <1>a, <1>b, <2>1, <2>3, <2>6, <3>1 DEF PositionInv, Written
    <2>7. QED
      BY <1>2, <2>4, <2>5, <2>6 DEF Record, AdvanceTest
  <1>3. CASE Abort
    <2>1. /\ at = "abort" /\ at' = "round"
          /\ UNCHANGED <<status, round, roundsCompleted>>
      BY <1>3 DEF Abort
    <2>2. \A t \in Test, r \in Round :
             Written(t, r)' <=> Written(t, r) \/ (t > index /\ r = round)
      BY <1>3, <1>a, SkippedRows DEF Written, Skipped
    <2>3. QED
      BY <1>a, <1>b, <2>1, <2>2 DEF PositionInv, Written
  <1>4. CASE EndRound
    BY <1>4, <1>a, <1>b DEF EndRound, PositionInv, Written
  <1>5. CASE Analyse
    <2>1. /\ at = "analyse"
          /\ UNCHANGED <<status, rows, roundsCompleted>>
      BY <1>5 DEF Analyse
    <2>2. CASE round < settings.rounds /\ StartRound(round + 1)
      <3>1. at' = "attempt" /\ round' = round + 1 /\ index' = 1
        BY <2>2 DEF StartRound
      <3>2. \A t \in Test, r \in Round : rows[t][r].status # "none" <=> r < round + 1
        BY <1>b, <2>1 DEF PositionInv, Written
      <3>3. round + 1 \in Round
        BY <1>b, <2>2
      <3>4. \A t \in Test :
               /\ rows'[t][round'].status = "none"
               /\ ~(t < index')
        BY <1>b, <2>1, <3>1, <3>2, <3>3
      <3>5. \A t \in Test, r \in Round :
               /\ r < round' => rows'[t][r].status # "none"
               /\ r > round' => rows'[t][r].status = "none"
        BY <1>b, <2>1, <3>1, <3>2
      <3>6. status' = "RUNNING" /\ roundsCompleted' = round' - 1
        BY <1>b, <2>1, <3>1 DEF PositionInv
      <3>7. QED
        BY <1>a, <3>1, <3>4, <3>5, <3>6 DEF PositionInv, Written
    <2>3. CASE at' = "finish" /\ UNCHANGED <<round, index, attempts, flow, shot>>
      BY <1>a, <2>1, <2>3 DEF PositionInv, Written
    <2>4. QED
      BY <1>5, <2>2, <2>3 DEF Analyse
  <1>6. CASE Finish \/ Fail \/ Lose
    BY <1>6 DEF Finish, Fail, Lose, PositionInv
  <1>7. CASE UNCHANGED vars
    BY <1>7, <1>a DEF vars, progressVars, PositionInv, Written
  <1>8. QED
    BY <1>1, <1>2, <1>3, <1>4, <1>5, <1>6, <1>7 DEF Next

\* The rows that exist are those of the tests the scan has passed.
THEOREM PositionInvariant == Spec => []PositionInv
  <1>1. Init => PositionInv
    <2> SUFFICES ASSUME Init
                 PROVE  PositionInv
      OBVIOUS
    <2>1. settings \in Settings
      BY DEF Init
    <2>2. \A t \in Test, r \in Round : ~Written(t, r)
      BY DEF Init, Written, NoRow
    <2>3. QED
      BY <2>1, <2>2, ConfigurationTypes DEF Init, PositionInv, Test, Round
  <1>2. QED
    BY <1>1, TypeCorrect, StepPositionInv, PTL DEF Spec

------------------------------------------------------------------------------
(* Nothing that was not executed is hidden. *)

CompletedHaveRows ==
    \A t \in Test, r \in Round : r <= roundsCompleted => Written(t, r)
SkippedBehindBlock ==
    \A t \in Test, r \in Round :
        rows[t][r].status = "SKIPPED" =>
            \E b \in Test : /\ b < t
                            /\ rows[b][r].status = "BLOCKED"
                            /\ \A u \in Test : u > b => rows[u][r].status = "SKIPPED"
DoneHasNoMore ==
    status = "DONE" =>
        /\ at = "ended"
        /\ \A t \in Test, r \in Round : r > roundsCompleted => ~Written(t, r)

LEMMA StepCompleted ==
    TypeOK /\ PositionInv /\ PositionInv' /\ CompletedHaveRows /\ [Next]_vars => CompletedHaveRows'
  <1> SUFFICES ASSUME TypeOK, PositionInv, PositionInv', CompletedHaveRows, [Next]_vars
               PROVE  CompletedHaveRows'
    OBVIOUS
  <1>a. UNCHANGED <<settings, Round, Limit, Test>>
    BY SettingsFixed
  <1>b. Round \subseteq Nat /\ round \in Round /\ roundsCompleted \in Nat
    BY ConfigurationTypes DEF TypeOK, Round
  <1>1. CASE Record
    <2>1. UNCHANGED roundsCompleted
      BY <1>1 DEF Record
    <2>2. \A t \in Test, r \in Round : Written(t, r) => Written(t, r)'
      BY <1>1, <1>a, RecordedRow DEF Written, TypeOK, Flow, FlowStatus
    <2>3. QED
      BY <1>a, <2>1, <2>2 DEF CompletedHaveRows
  <1>2. CASE Abort
    <2>1. UNCHANGED roundsCompleted
      BY <1>2 DEF Abort
    <2>2. \A t \in Test, r \in Round : Written(t, r) => Written(t, r)'
      BY <1>2, <1>a, SkippedRows DEF Written, Skipped
    <2>3. QED
      BY <1>a, <2>1, <2>2 DEF CompletedHaveRows
  <1>3. CASE EndRound
    <2>1. at = "round" /\ roundsCompleted' = round /\ UNCHANGED rows
      BY <1>3 DEF EndRound
    <2>2. \A t \in Test, r \in Round : r <= round => Written(t, r)
      BY <1>b, <2>1 DEF PositionInv
    <2>3. QED
      BY <1>a, <2>1, <2>2 DEF CompletedHaveRows, Written
  <1>4. CASE ~Record /\ ~Abort /\ ~EndRound
    <2>1. UNCHANGED <<rows, roundsCompleted>>
      BY <1>4 DEF Next, Attempt, Analyse, Finish, Fail, Lose, vars
    <2>2. QED
      BY <1>a, <2>1 DEF CompletedHaveRows, Written
  <1>5. QED
    BY <1>1, <1>2, <1>3, <1>4

LEMMA StepSkipped ==
    TypeOK /\ PositionInv /\ SkippedBehindBlock /\ [Next]_vars => SkippedBehindBlock'
  <1> SUFFICES ASSUME TypeOK, PositionInv, SkippedBehindBlock, [Next]_vars,
                      NEW t \in Test, NEW r \in Round,
                      rows'[t][r].status = "SKIPPED"
               PROVE  \E b \in Test :
                         /\ b < t
                         /\ rows'[b][r].status = "BLOCKED"
                         /\ \A u \in Test : u > b => rows'[u][r].status = "SKIPPED"
    BY SettingsFixed DEF SkippedBehindBlock
  <1>a. Test \subseteq Nat /\ index \in Test /\ round \in Round /\ Round \subseteq Nat
    BY ConfigurationTypes DEF TypeOK, Test, Round
  <1>1. CASE Record
    <2>1. rows'[t][r] = rows[t][r]
      BY <1>1, RecordedRow DEF TypeOK, Flow, FlowStatus
    <2>2. PICK b \in Test : /\ b < t
                            /\ rows[b][r].status = "BLOCKED"
                            /\ \A u \in Test : u > b => rows[u][r].status = "SKIPPED"
      BY <2>1 DEF SkippedBehindBlock
    <2>3. ASSUME NEW u \in Test, rows[u][r].status # "none"
          PROVE  rows'[u][r] = rows[u][r]
      <3>1. CASE u = index /\ r = round
        <4>0. index \in Nat
          BY <1>a
        <4>1. ~(index < index)
          BY <4>0
        <4>2. ~Written(index, round)
          BY <1>1, <1>a, <4>1 DEF Record, PositionInv
        <4>3. QED
          BY <2>3, <3>1, <4>2 DEF Written
      <3>2. CASE ~(u = index /\ r = round)
        BY <1>1, <3>2, RecordedRow
      <3>3. QED
        BY <3>1, <3>2
    <2>4. QED
      BY <2>2, <2>3
  <1>2. CASE Abort
    <2>1. CASE r = round
      <3>1. rows[index][round].status = "BLOCKED"
        BY <1>2 DEF Abort, PositionInv
      <3>2. rows'[index][r].status = "BLOCKED"
        <4>0. index \in Nat
          BY <1>a
        <4>1. ~(index > index)
          BY <4>0
        <4>2. rows'[index][round] = rows[index][round]
          BY <1>2, <1>a, <4>1, SkippedRows
        <4>3. QED
          BY <2>1, <3>1, <4>2
      <3>3. \A u \in Test : u > index => rows'[u][r].status = "SKIPPED"
        BY <1>2, <2>1, SkippedRows DEF Skipped
      <3>4. CASE t > index
        BY <1>a, <3>2, <3>3, <3>4
      <3>5. CASE ~(t > index)
        <4>1. rows'[t][r] = rows[t][r]
          BY <1>2, <3>5, SkippedRows
        <4>2. PICK b \in Test : /\ b < t
                                /\ \A u \in Test : u > b => rows[u][r].status = "SKIPPED"
          BY <4>1 DEF SkippedBehindBlock
        <4>3. index > b
          BY <1>a, <3>5, <4>2
        <4>4. QED
          BY <1>a, <2>1, <3>1, <4>2, <4>3
      <3>6. QED
        BY <3>4, <3>5
    <2>2. CASE r # round
      <3>1. \A u \in Test : rows'[u][r] = rows[u][r]
        BY <1>2, <2>2, SkippedRows
      <3>2. QED
        BY <3>1 DEF SkippedBehindBlock
    <2>3. QED
      BY <2>1, <2>2
  <1>3. CASE ~Record /\ ~Abort
    BY <1>3, OtherSteps DEF SkippedBehindBlock
  <1>4. QED
    BY <1>1, <1>2, <1>3

LEMMA StepDone ==
    TypeOK /\ PositionInv /\ DoneHasNoMore /\ [Next]_vars => DoneHasNoMore'
  <1> SUFFICES ASSUME TypeOK, PositionInv, DoneHasNoMore, [Next]_vars, status' = "DONE"
               PROVE  /\ at' = "ended"
                      /\ \A t \in Test, r \in Round : r > roundsCompleted' => ~Written(t, r)'
    BY SettingsFixed DEF DoneHasNoMore
  <1>a. UNCHANGED <<settings, Round, Limit, Test>>
    BY SettingsFixed
  <1>1. CASE Finish
    <2>1. at = "finish" /\ at' = "ended" /\ UNCHANGED <<rows, roundsCompleted>>
      BY <1>1 DEF Finish
    <2>2. roundsCompleted = round
      BY <2>1 DEF PositionInv
    <2>3. \A t \in Test, r \in Round : r > roundsCompleted => ~Written(t, r)
      BY <2>1, <2>2 DEF PositionInv
    <2>4. QED
      BY <1>a, <2>1, <2>3 DEF Written
  <1>2. CASE ~Finish
    <2>1. at = "ended" => UNCHANGED vars
      BY <1>2 DEF Next, Attempt, Record, Abort, EndRound, Analyse, Fail, Lose
    <2>2. status = "DONE"
      BY <1>2 DEF Next, Attempt, Record, Abort, EndRound, Analyse, Fail, Lose, vars
    <2>3. UNCHANGED <<at, rows, roundsCompleted>> /\ at = "ended"
      BY <2>1, <2>2 DEF DoneHasNoMore, vars, progressVars
    <2>4. QED
      BY <1>a, <2>2, <2>3 DEF DoneHasNoMore, Written
  <1>3. QED
    BY <1>1, <1>2

\* What was not executed stays visible (runner.py:472-494): completed rounds are
\* complete, SKIPPED rows follow the block that ended the scan, and a DONE scan
\* has no rows of a round it does not count.
THEOREM NothingHiddenTheorem == Spec => []NothingHidden
  <1>1. Init => CompletedHaveRows /\ SkippedBehindBlock /\ DoneHasNoMore
    <2> SUFFICES ASSUME Init
                 PROVE  CompletedHaveRows /\ SkippedBehindBlock /\ DoneHasNoMore
      OBVIOUS
    <2>1. \A t \in Test, r \in Round : rows[t][r].status = "none"
      BY DEF Init, NoRow
    <2>2. roundsCompleted = 0 /\ status = "RUNNING" /\ \A r \in Round : ~(r <= 0)
      BY DEF Init, Round
    <2>3. QED
      BY <2>1, <2>2 DEF CompletedHaveRows, SkippedBehindBlock, DoneHasNoMore
  <1>2. CompletedHaveRows /\ SkippedBehindBlock /\ DoneHasNoMore => NothingHidden
    BY DEF CompletedHaveRows, SkippedBehindBlock, DoneHasNoMore, NothingHidden, Written
  <1>3. QED
    BY <1>1, <1>2, TypeCorrect, PositionInvariant, StepCompleted, StepSkipped, StepDone, PTL DEF Spec

------------------------------------------------------------------------------
(* No visit after the block that ends the scan. *)

LEMMA BlockedRowsFinite ==
    ASSUME TypeOK
    PROVE  IsFiniteSet(BlockedRows) /\ Cardinality(BlockedRows) \in Nat
  <1>0. NumTests \in Int /\ settings.rounds \in Int /\ 1 \in Int
    BY ConfigurationTypes DEF TypeOK
  <1>1. IsFiniteSet(Test) /\ IsFiniteSet(Round)
    <2>1. IsFiniteSet(1 .. NumTests) /\ IsFiniteSet(1 .. settings.rounds)
      BY <1>0, FS_Interval
    <2>2. QED
      BY <2>1 DEF Test, Round
  <1>2. IsFiniteSet(Test \X Round)
    BY <1>1, FS_Product
  <1>3. IsFiniteSet(BlockedRows)
    BY <1>2, FS_Subset DEF BlockedRows
  <1>4. QED
    BY <1>3, FS_CardinalityType

LEMMA StepBlockInv == TypeOK /\ TypeOK' /\ PositionInv /\ BlockInv /\ [Next]_vars => BlockInv'
  <1> SUFFICES ASSUME TypeOK, TypeOK', PositionInv, BlockInv, [Next]_vars
               PROVE  BlockInv'
    OBVIOUS
  <1>a. UNCHANGED <<settings, Round, Limit, Test>>
    BY SettingsFixed
  <1>b. /\ index \in Test /\ round \in Round /\ Test \subseteq Nat /\ index \in Nat
        /\ blockedCount \in Nat /\ settings.abortAfter \in Nat
    BY ConfigurationTypes DEF TypeOK, Test
  <1>1. CASE Record
    <2>1. at = "record" /\ BelowBlockLimit
      BY <1>1 DEF Record, BlockInv
    <2>2. rows[index][round].status = "none"
      <3>1. ~(index < index)
        BY <1>b
      <3>2. QED
        BY <1>b, <2>1, <3>1 DEF PositionInv, Written
    <2>3. CASE flow.status = "BLOCKED"
      <3>1. BlockedRows' = BlockedRows \cup {<<index, round>>}
        <4>1. \A p \in Test \X Round :
                 rows'[p[1]][p[2]].status = "BLOCKED" <=>
                    rows[p[1]][p[2]].status = "BLOCKED" \/ p = <<index, round>>
          BY <1>1, <2>3, RecordedRow
        <4>2. <<index, round>> \in Test \X Round
          BY <1>b
        <4>3. QED
          BY <1>a, <4>1, <4>2 DEF BlockedRows
      <3>2. <<index, round>> \notin BlockedRows
        BY <2>2 DEF BlockedRows
      <3>3. Cardinality(BlockedRows') = Cardinality(BlockedRows) + 1
        BY <3>1, <3>2, BlockedRowsFinite, FS_AddElement
      <3>4. blockedCount' = Cardinality(BlockedRows')
        BY <1>1, <1>b, <2>3, <3>3 DEF Record, BlockInv
      <3>5. CASE settings.abortAfter # 0 /\ blockedCount + 1 >= settings.abortAfter
        <4>1. at' = "abort"
          BY <1>1, <2>3, <3>5 DEF Record
        <4>2. QED
          BY <3>4, <4>1 DEF BlockInv
      <3>6. CASE ~(settings.abortAfter # 0 /\ blockedCount + 1 >= settings.abortAfter)
        <4>1. BelowBlockLimit'
          BY <1>1, <1>a, <1>b, <2>3, <3>6 DEF Record, BelowBlockLimit
        <4>2. QED
          BY <3>4, <4>1 DEF BlockInv
      <3>7. QED
        BY <3>5, <3>6
    <2>4. CASE flow.status # "BLOCKED"
      <3>1. \A p \in Test \X Round :
               rows'[p[1]][p[2]].status = "BLOCKED" <=> rows[p[1]][p[2]].status = "BLOCKED"
        BY <1>1, <2>2, <2>4, RecordedRow
      <3>2. BlockedRows' = BlockedRows
        BY <1>a, <3>1 DEF BlockedRows
      <3>3. blockedCount' = blockedCount
        BY <1>1, <1>b, <2>4 DEF Record
      <3>4. BelowBlockLimit'
        BY <1>a, <2>1, <3>3 DEF BelowBlockLimit
      <3>5. QED
        BY <3>2, <3>3, <3>4 DEF BlockInv
    <2>5. QED
      BY <2>3, <2>4
  <1>2. CASE Abort
    <2>1. at = "abort" /\ at' = "round" /\ aborted' = TRUE /\ UNCHANGED blockedCount
      BY <1>2, Zenon DEF Abort
    <2>2. \A t \in Test : t > index => rows[t][round].status = "none"
      BY <1>b, <2>1 DEF PositionInv, Written
    <2>3. \A p \in Test \X Round :
             rows'[p[1]][p[2]].status = "BLOCKED" <=> rows[p[1]][p[2]].status = "BLOCKED"
      <3>1. TAKE p \in Test \X Round
      <3>2. CASE p[1] > index /\ p[2] = round
        BY <1>2, <2>2, <3>2, SkippedRows DEF Skipped
      <3>3. CASE ~(p[1] > index /\ p[2] = round)
        BY <1>2, <3>3, SkippedRows
      <3>4. QED
        BY <3>2, <3>3
    <2>4. BlockedRows' = BlockedRows
      BY <1>a, <2>3 DEF BlockedRows
    <2>5. at' \notin {"attempt", "record"} /\ aborted'
      BY <2>1
    <2>6. (blockedCount = Cardinality(BlockedRows))'
      BY <2>1, <2>4 DEF BlockInv
    <2>7. QED
      BY <2>5, <2>6 DEF BlockInv
  <1>3. CASE ~Record /\ ~Abort
    <2>1. UNCHANGED BlockedRows
      BY <1>3, <1>a, OtherSteps DEF BlockedRows
    <2>2. UNCHANGED <<blockedCount, aborted, BelowBlockLimit>>
      BY <1>3, <1>a
         DEF Next, Attempt, EndRound, Analyse, Finish, Fail, Lose, vars, progressVars, BelowBlockLimit
    <2>3. at' \in {"attempt", "record", "round", "analyse"} =>
             \/ BelowBlockLimit
             \/ at' \in {"round", "analyse"} /\ aborted
      <3>1. ASSUME NEW outcome \in Outcome, Attempt(outcome)
            PROVE  BelowBlockLimit
        BY <3>1 DEF Attempt, BlockInv
      <3>2. CASE EndRound
        BY <3>2 DEF EndRound, BlockInv
      <3>3. CASE Analyse
        BY <3>3 DEF Analyse, StartRound, BlockInv
      <3>4. CASE Finish \/ Fail \/ Lose
        BY <3>4 DEF Finish, Fail, Lose
      <3>5. CASE UNCHANGED vars
        BY <3>5 DEF vars, progressVars, BlockInv
      <3>6. QED
        BY <1>3, <3>1, <3>2, <3>3, <3>4, <3>5 DEF Next
    <2>4. QED
      BY <2>1, <2>2, <2>3 DEF BlockInv
  <1>4. QED
    BY <1>1, <1>2, <1>3

\* The counter of execute_scan agrees with the rows, and another test only ever
\* follows below the limit.
THEOREM BlockInvariant == Spec => []BlockInv
  <1>1. Init => BlockInv
    <2> SUFFICES ASSUME Init
                 PROVE  BlockInv
      OBVIOUS
    <2>1. settings \in Settings /\ settings.abortAfter \in Nat
      BY ConfigurationTypes DEF Init
    <2>2. BlockedRows = {}
      BY DEF Init, BlockedRows, NoRow
    <2>3. blockedCount = 0 /\ BelowBlockLimit
      BY <2>1 DEF Init, BelowBlockLimit
    <2>4. QED
      BY <2>2, <2>3, FS_EmptySet DEF Init, BlockInv
  <1>2. QED
    BY <1>1, TypeCorrect, PositionInvariant, StepBlockInv, PTL DEF Spec

LEMMA StepNoVisit ==
    TypeOK /\ RetryInv /\ BlockInv /\ [Next]_vars =>
        [attempts' > attempts =>
            /\ ~BlockLimitReached
            /\ attempts > 0 => flow.status # "BLOCKED"]_vars
  <1> SUFFICES ASSUME TypeOK, RetryInv, BlockInv, Next, attempts' > attempts
               PROVE  /\ ~BlockLimitReached
                      /\ attempts > 0 => flow.status # "BLOCKED"
    OBVIOUS
  <1>a. attempts \in Nat /\ blockedCount \in Nat /\ settings.abortAfter \in Nat
    BY ConfigurationTypes, LimitFacts DEF TypeOK
  <1>1. ~(attempts > attempts) /\ ~(0 > attempts)
    BY <1>a
  <1>2. PICK outcome \in Outcome : Attempt(outcome)
    BY <1>1 DEF Next, Record, AdvanceTest, Abort, EndRound, Analyse, StartRound, Finish, Fail, Lose
  <1>3. at = "attempt" /\ BelowBlockLimit
    BY <1>2 DEF Attempt, BlockInv
  <1>4. ~BlockLimitReached
    BY <1>a, <1>3 DEF BelowBlockLimit, BlockLimitReached, BlockInv
  <1>5. attempts > 0 => flow.status # "BLOCKED"
    BY <1>3 DEF RetryInv, Retryable
  <1>6. QED
    BY <1>4, <1>5

\* The site is left alone after the block that ends the scan, and a blocked test
\* is not tried again (README.md:700-704).
THEOREM NoVisitTheorem == Spec => NoVisitAfterBlock
BY TypeCorrect, RetryInvariant, BlockInvariant, StepNoVisit, PTL DEF Spec, NoVisitAfterBlock

------------------------------------------------------------------------------
(* Why a scan may be DONE before all its rounds. *)

LEMMA SamePrices ==
    ASSUME UNCHANGED <<settings, rows>>
    PROVE  UNCHANGED LowestPrices
BY DEF LowestPrices, Priced, PricesOf, Test, Round

LEMMA StepStopInv ==
    TypeOK /\ TypeOK' /\ PositionInv /\ StopInv /\ [Next]_vars => StopInv'
  <1> SUFFICES ASSUME TypeOK, TypeOK', PositionInv, StopInv, [Next]_vars
               PROVE  StopInv'
    OBVIOUS
  <1>a. UNCHANGED <<settings, Round, Limit, Test>>
    BY SettingsFixed
  <1>b. /\ index \in Nat /\ round \in Nat /\ settings.rounds \in Nat
        /\ round <= settings.rounds
        /\ blockedCount \in Nat /\ settings.abortAfter \in Nat
    BY ConfigurationTypes DEF TypeOK, Test, Round
  <1>1. ASSUME NEW outcome \in Outcome, Attempt(outcome)
        PROVE  StopInv'
    BY <1>a, <1>1 DEF Attempt, StopInv
  <1>2. CASE Record
    <2>1. at = "record" /\ ~aborted /\ ~aborted' /\ status = "RUNNING" /\ status' = "RUNNING"
      BY <1>2 DEF Record, StopInv, PositionInv
    <2>2. at' \in {"abort", "attempt", "round"}
      BY <1>2 DEF Record, AdvanceTest
    <2>3. at' = "abort" => ~BelowBlockLimit'
      BY <1>2, <1>a, <1>b DEF Record, AdvanceTest, BelowBlockLimit
    <2>4. QED
      BY <2>1, <2>2, <2>3 DEF StopInv
  <1>3. CASE Abort
    <2>1. at = "abort" /\ at' = "round" /\ status' = "RUNNING"
      BY <1>3 DEF Abort, PositionInv
    <2>2. ~BelowBlockLimit'
      BY <1>3, <1>a, <2>1 DEF Abort, StopInv, BelowBlockLimit
    <2>3. QED
      BY <2>1, <2>2 DEF StopInv
  <1>4. CASE EndRound
    <2>1. at' = "analyse" /\ status' = "RUNNING"
      BY <1>4 DEF EndRound, PositionInv
    <2>2. aborted' => ~BelowBlockLimit'
      BY <1>4, <1>a DEF EndRound, StopInv, BelowBlockLimit
    <2>3. QED
      BY <2>1, <2>2 DEF StopInv
  <1>5. CASE Analyse
    <2>1. status' = "RUNNING" /\ UNCHANGED <<aborted, blockedCount, rows>>
      BY <1>5 DEF Analyse, PositionInv
    <2>2. UNCHANGED LowestPrices
      BY <1>a, <2>1, SamePrices
    <2>3. aborted => ~BelowBlockLimit'
      BY <1>a, <2>1 DEF StopInv, BelowBlockLimit
    <2>4. verdict' = "no_difference" => Cardinality(LowestPrices) = 1
      BY <1>5 DEF Analyse, Verdicts
    <2>5. CASE round < settings.rounds /\ verdict' # "no_difference" /\ ~aborted
      <3>1. at' = "attempt" /\ ~aborted'
        BY <1>5, <2>1, <2>5 DEF Analyse, StartRound
      <3>2. QED
        BY <2>1, <3>1 DEF StopInv
    <2>6. CASE ~(round < settings.rounds /\ verdict' # "no_difference" /\ ~aborted)
      <3>1. at' = "finish" /\ round' = round
        BY <1>5, <2>6 DEF Analyse
      <3>2. aborted \/ round = settings.rounds \/ Cardinality(LowestPrices) = 1
        BY <1>b, <2>4, <2>6
      <3>3. aborted' \/ round' = settings'.rounds \/ Cardinality(LowestPrices') = 1
        BY <1>a, <2>1, <2>2, <3>1, <3>2
      <3>4. QED
        BY <2>1, <2>3, <3>1, <3>3 DEF StopInv
    <2>7. QED
      BY <2>5, <2>6
  <1>6. CASE Finish
    <2>1. /\ at = "finish" /\ at' = "ended"
          /\ UNCHANGED <<aborted, blockedCount, rows, roundsCompleted>>
      BY <1>6 DEF Finish
    <2>2. UNCHANGED LowestPrices
      BY <1>a, <2>1, SamePrices
    <2>3. roundsCompleted = round
      BY <2>1 DEF PositionInv
    <2>4. aborted' \/ roundsCompleted' = settings'.rounds \/ Cardinality(LowestPrices') = 1
      BY <1>a, <2>1, <2>2, <2>3 DEF StopInv
    <2>5. aborted' => ~BelowBlockLimit'
      BY <1>a, <2>1 DEF StopInv, BelowBlockLimit
    <2>6. QED
      BY <2>1, <2>4, <2>5 DEF StopInv
  <1>7. CASE Fail \/ Lose
    <2>1. at' = "ended" /\ status' # "DONE" /\ UNCHANGED <<aborted, blockedCount>>
      BY <1>7 DEF Fail, Lose, PositionInv
    <2>2. aborted' => ~BelowBlockLimit'
      BY <1>a, <2>1 DEF StopInv, BelowBlockLimit
    <2>3. QED
      BY <2>1, <2>2 DEF StopInv
  <1>8. CASE UNCHANGED vars
    <2>1. UNCHANGED LowestPrices
      BY <1>8, SamePrices DEF vars
    <2>2. QED
      BY <1>8, <2>1 DEF vars, progressVars, StopInv, BelowBlockLimit
  <1>9. QED
    BY <1>1, <1>2, <1>3, <1>4, <1>5, <1>6, <1>7, <1>8 DEF Next

\* The reason a scan stopped for holds from its last analysis to its end.
THEOREM StopInvariant == Spec => []StopInv
  <1>1. Init => StopInv
    BY DEF Init, StopInv
  <1>2. QED
    BY <1>1, TypeCorrect, PositionInvariant, StepStopInv, PTL DEF Spec

\* A scan gives up its remaining rounds only after a block or when no price
\* differs (runner.py:414-429).
THEOREM EarlyStopTheorem == Spec => []EarlyStopJustified
  <1>1. TypeOK /\ BlockInv /\ StopInv => EarlyStopJustified
    <2> SUFFICES ASSUME TypeOK, BlockInv, StopInv,
                        status = "DONE", roundsCompleted < settings.rounds
                 PROVE  BlockLimitReached \/ Cardinality(LowestPrices) = 1
      BY DEF EarlyStopJustified
    <2>1. /\ blockedCount \in Nat /\ settings.abortAfter \in Nat
          /\ roundsCompleted \in Nat /\ settings.rounds \in Nat
      BY ConfigurationTypes DEF TypeOK
    <2>2. aborted => BlockLimitReached
      BY <2>1 DEF StopInv, BlockInv, BelowBlockLimit, BlockLimitReached
    <2>3. roundsCompleted # settings.rounds
      BY <2>1
    <2>4. QED
      BY <2>2, <2>3 DEF StopInv
  <1>2. QED
    BY <1>1, TypeCorrect, BlockInvariant, StopInvariant, PTL

------------------------------------------------------------------------------
(* What a client sees: the scan implements ScanReport. *)

LEMMA StepSkipInv == TypeOK /\ SkipInv /\ [Next]_vars => SkipInv'
  <1> SUFFICES ASSUME TypeOK, SkipInv, [Next]_vars,
                      NEW t \in Test, NEW r \in Round, rows'[t][r].status = "SKIPPED"
               PROVE  aborted'
    BY SettingsFixed DEF SkipInv
  <1>1. CASE Abort
    BY <1>1, Zenon DEF Abort
  <1>2. CASE ~Abort
    <2>1. rows[t][r].status = "SKIPPED"
      <3>1. CASE Record
        <4>1. flow.status # "SKIPPED"
          BY DEF TypeOK, Flow, FlowStatus
        <4>2. CASE t = index /\ r = round
          BY <3>1, <4>1, <4>2, RecordedRow
        <4>3. CASE ~(t = index /\ r = round)
          BY <3>1, <4>3, RecordedRow
        <4>4. QED
          BY <4>2, <4>3
      <3>2. CASE ~Record
        BY <1>2, <3>2, OtherSteps
      <3>3. QED
        BY <3>1, <3>2
    <2>2. aborted
      BY <2>1 DEF SkipInv
    <2>3. UNCHANGED aborted
      BY <1>2 DEF Next, Attempt, Record, EndRound, Analyse, Finish, Fail, Lose, vars, progressVars
    <2>4. QED
      BY <2>2, <2>3
  <1>3. QED
    BY <1>1, <1>2

\* SKIPPED rows are those of a scan that has given up.
THEOREM SkipInvariant == Spec => []SkipInv
  <1>1. Init => SkipInv
    BY DEF Init, SkipInv, NoRow
  <1>2. QED
    BY <1>1, TypeCorrect, StepSkipInv, PTL DEF Spec

\* An entry of the report stands for one row.
LEMMA LineFields ==
    ASSUME NEW t, NEW r, NEW row
    PROVE  /\ Line(t, r, row).test = t
           /\ Line(t, r, row).round = r
           /\ Line(t, r, row).status = row.status
           /\ Line(t, r, row).price = row.price
BY DEF Line

Lines(T, R, w) ==
    {Line(p[1], p[2], w[p[1]][p[2]]) : p \in {q \in T \X R : w[q[1]][q[2]].status # "none"}}

LEMMA LinesOfRows ==
    ASSUME NEW T, NEW R, NEW w, NEW e
    PROVE  e \in Lines(T, R, w)
              <=> \E t \in T, r \in R : w[t][r].status # "none" /\ e = Line(t, r, w[t][r])
  <1> DEFINE P == {q \in T \X R : w[q[1]][q[2]].status # "none"}
             L == {Line(p[1], p[2], w[p[1]][p[2]]) : p \in P}
  <1>1. ASSUME e \in L
        PROVE  \E t \in T, r \in R : w[t][r].status # "none" /\ e = Line(t, r, w[t][r])
    <2>1. PICK p \in P : e = Line(p[1], p[2], w[p[1]][p[2]])
      BY <1>1
    <2>2. p[1] \in T /\ p[2] \in R /\ w[p[1]][p[2]].status # "none"
      OBVIOUS
    <2>3. QED
      BY <2>1, <2>2
  <1>2. ASSUME NEW t \in T, NEW r \in R, w[t][r].status # "none", e = Line(t, r, w[t][r])
        PROVE  e \in L
    <2> DEFINE p == <<t, r>>
    <2>1. p \in P /\ p[1] = t /\ p[2] = r
      BY <1>2
    <2>2. e = Line(p[1], p[2], w[p[1]][p[2]])
      BY <1>2, <2>1
    <2>3. QED
      BY <2>1, <2>2
  <1>3. QED
    BY <1>1, <1>2 DEF Lines

LEMMA ReportLines ==
    \A e : e \in Report <=>
        \E t \in Test, r \in Round :
            rows[t][r].status # "none" /\ e = Line(t, r, rows[t][r])
  <1>1. Report = Lines(Test, Round, rows)
    BY DEF Report, Written, Lines
  <1>2. QED
    BY <1>1, LinesOfRows

LEMMA ReportLinesNext ==
    ASSUME UNCHANGED settings
    PROVE  \A e : e \in Report' <=>
              \E t \in Test, r \in Round :
                  rows'[t][r].status # "none" /\ e = Line(t, r, rows'[t][r])
  <1>1. UNCHANGED <<Test, Round>>
    BY DEF Test, Round
  <1>2. Report' = Lines(Test, Round, rows')
    BY <1>1 DEF Report, Written, Lines
  <1>3. QED
    BY <1>2, LinesOfRows

LEMMA ReportFixed ==
    ASSUME UNCHANGED <<settings, rows>>
    PROVE  UNCHANGED Report
BY DEF Report, Written, Test, Round

LEMMA DeliveredLines ==
    ASSUME TypeOK
    PROVE  /\ \A t \in Test : Polled!Delivered(t) <=>
                  roundsCompleted + 1 \in Round /\ Written(t, roundsCompleted + 1)
           /\ Polled!Stopped <=> \E t \in Test, r \in Round : rows[t][r].status = "SKIPPED"
  <1>1. ASSUME NEW t \in Test
        PROVE  Polled!Delivered(t) <=>
                  roundsCompleted + 1 \in Round /\ Written(t, roundsCompleted + 1)
    <2>1. ASSUME Polled!Delivered(t)
          PROVE  roundsCompleted + 1 \in Round /\ Written(t, roundsCompleted + 1)
      <3>1. PICK e \in Report : e.test = t /\ e.round = roundsCompleted + 1
        BY <2>1 DEF Polled!Delivered, Polled!Entries, Polled!Current
      <3>2. PICK u \in Test, r \in Round :
               rows[u][r].status # "none" /\ e = Line(u, r, rows[u][r])
        BY <3>1, ReportLines
      <3>3. u = t /\ r = roundsCompleted + 1
        BY <3>1, <3>2, LineFields
      <3>4. QED
        BY <3>2, <3>3 DEF Written
    <2>2. ASSUME roundsCompleted + 1 \in Round, Written(t, roundsCompleted + 1)
          PROVE  Polled!Delivered(t)
      <3> DEFINE r == roundsCompleted + 1
      <3>1. Line(t, r, rows[t][r]) \in Report
        BY <2>2, ReportLines DEF Written
      <3>2. Line(t, r, rows[t][r]) \in Polled!Entries(t)
        BY <3>1, LineFields DEF Polled!Entries, Polled!Current
      <3>3. QED
        BY <3>2 DEF Polled!Delivered
    <2>3. QED
      BY <2>1, <2>2
  <1>2. Polled!Stopped <=> \E t \in Test, r \in Round : rows[t][r].status = "SKIPPED"
    <2>1. ASSUME Polled!Stopped
          PROVE  \E t \in Test, r \in Round : rows[t][r].status = "SKIPPED"
      BY <2>1, ReportLines, LineFields DEF Polled!Stopped
    <2>2. ASSUME NEW t \in Test, NEW r \in Round, rows[t][r].status = "SKIPPED"
          PROVE  Polled!Stopped
      <3>1. Line(t, r, rows[t][r]) \in Report
        BY <2>2, ReportLines
      <3>2. QED
        BY <2>2, <3>1, LineFields DEF Polled!Stopped
    <2>3. QED
      BY <2>1, <2>2
  <1>3. QED
    BY <1>1, <1>2

LEMMA RecordDelivers ==
    ASSUME TypeOK, PositionInv, StopInv, SkipInv, Record
    PROVE  Polled!Next
  <1> DEFINE Added == Polled!Entry(index, flow.status, flow.price)
  <1>1. /\ at = "record" /\ status = "RUNNING" /\ UNCHANGED <<roundsCompleted, status, settings>>
        /\ index \in Test /\ round \in Round /\ round \in Nat /\ roundsCompleted + 1 = round
        /\ Test = Polled!Tests
        /\ flow.status \in FlowStatus /\ flow.price \in Price \cup {NoPrice}
    BY ConfigurationTypes DEF Record, PositionInv, TypeOK, Flow, Test, Round, Polled!Tests
  <1>2. ~Polled!Stopped
    <2>1. ~aborted
      BY <1>1 DEF StopInv
    <2>2. QED
      BY <2>1, DeliveredLines DEF SkipInv
  <1>3. \A u \in Polled!Tests : Polled!Delivered(u) <=> u < index
    BY <1>1, DeliveredLines DEF PositionInv
  <1>4. ASSUME NEW t \in Test, NEW r \in Round, ~(t = index /\ r = round)
        PROVE  rows'[t][r] = rows[t][r]
    BY <1>4, RecordedRow
  <1>5. /\ rows[index][round].status = "none"
        /\ rows'[index][round].status # "none"
        /\ Line(index, round, rows'[index][round]) = Added
    <2>1. ~(index < index)
      BY <1>1 DEF Test
    <2>2. rows[index][round].status = "none"
      BY <1>1, <2>1 DEF PositionInv, Written
    <2>3. /\ rows'[index][round].status = flow.status
          /\ rows'[index][round].price = flow.price
      BY <1>1, RecordedRow
    <2>4. QED
      BY <1>1, <2>2, <2>3 DEF FlowStatus, Line, Polled!Entry, Polled!Current
  <1>6. Report' = Report \cup {Added}
    <2>1. ASSUME NEW e \in Report'
          PROVE  e \in Report \/ e = Added
      <3>1. PICK t \in Test, r \in Round :
               rows'[t][r].status # "none" /\ e = Line(t, r, rows'[t][r])
        BY <1>1, ReportLinesNext
      <3>2. QED
        BY <1>4, <1>5, <3>1, ReportLines
    <2>2. ASSUME NEW e \in Report
          PROVE  e \in Report'
      <3>1. PICK t \in Test, r \in Round :
               rows[t][r].status # "none" /\ e = Line(t, r, rows[t][r])
        BY ReportLines
      <3>2. QED
        BY <1>1, <1>4, <1>5, <3>1, ReportLinesNext
    <2>3. Added \in Report'
      BY <1>1, <1>5, ReportLinesNext
    <2>4. QED
      BY <2>1, <2>2, <2>3
  <1>7. Polled!Deliver(index, flow.status, flow.price)
    BY <1>1, <1>2, <1>3, <1>6 DEF Polled!Deliver
  <1>8. QED
    BY <1>1, <1>7 DEF Polled!Next

LEMMA AbortGivesUp ==
    ASSUME TypeOK, PositionInv, StopInv, SkipInv, Abort
    PROVE  Polled!Next
  <1> DEFINE Rest == index + 1 .. NumTests
             Added(u) == Polled!Entry(u, "SKIPPED", NoPrice)
  <1>1. /\ at = "abort" /\ status = "RUNNING" /\ UNCHANGED <<roundsCompleted, status, settings>>
        /\ index \in Test /\ round \in Round /\ round \in Nat /\ roundsCompleted + 1 = round
        /\ Test = Polled!Tests
    BY ConfigurationTypes DEF Abort, PositionInv, TypeOK, Test, Round, Polled!Tests
  <1>2. ~Polled!Stopped
    <2>1. ~aborted
      BY <1>1 DEF StopInv
    <2>2. QED
      BY <2>1, DeliveredLines DEF SkipInv
  <1>3. \A u \in Polled!Tests : Polled!Delivered(u) <=> u <= index
    BY <1>1, DeliveredLines DEF PositionInv
  <1>4. \E e \in Polled!Entries(index) : e.status = "BLOCKED"
    <2>1. rows[index][round].status = "BLOCKED"
      BY <1>1 DEF PositionInv
    <2>2. Line(index, round, rows[index][round]) \in Report
      BY <1>1, <2>1, ReportLines
    <2>3. QED
      BY <1>1, <2>1, <2>2, LineFields DEF Polled!Entries, Polled!Current
  <1>5. \A u : u \in Rest <=> u \in Test /\ u > index
    BY <1>1, ConfigurationTypes DEF Test, TypeOK
  <1>6. ASSUME NEW t \in Test, NEW r \in Round, ~(t \in Rest /\ r = round)
        PROVE  rows'[t][r] = rows[t][r]
    BY <1>5, <1>6, SkippedRows
  <1>7. ASSUME NEW u \in Rest
        PROVE  /\ u \in Test
               /\ rows[u][round].status = "none"
               /\ rows'[u][round].status # "none"
               /\ Line(u, round, rows'[u][round]) = Added(u)
    <2>1. u \in Test /\ u > index /\ ~(u <= index)
      BY <1>1, <1>5 DEF Test
    <2>2. rows[u][round].status = "none"
      BY <1>1, <2>1 DEF PositionInv, Written
    <2>3. rows'[u][round] = Skipped
      BY <1>1, <2>1, SkippedRows
    <2>4. QED
      BY <1>1, <2>1, <2>2, <2>3 DEF Skipped, Line, Polled!Entry, Polled!Current
  <1> HIDE DEF Rest, Added
  <1>8. Report' = Report \cup {Added(u) : u \in Rest}
    <2>1. ASSUME NEW e \in Report'
          PROVE  e \in Report \/ \E u \in Rest : e = Added(u)
      <3>1. PICK t \in Test, r \in Round :
               rows'[t][r].status # "none" /\ e = Line(t, r, rows'[t][r])
        BY <1>1, ReportLinesNext
      <3>2. CASE t \in Rest /\ r = round
        BY <1>7, <3>1, <3>2
      <3>3. CASE ~(t \in Rest /\ r = round)
        BY <1>6, <3>1, <3>3, ReportLines
      <3>4. QED
        BY <3>2, <3>3
    <2>2. ASSUME NEW e \in Report
          PROVE  e \in Report'
      <3>1. PICK t \in Test, r \in Round :
               rows[t][r].status # "none" /\ e = Line(t, r, rows[t][r])
        BY ReportLines
      <3>2. ~(t \in Rest /\ r = round)
        BY <1>7, <3>1
      <3>3. rows'[t][r] = rows[t][r]
        BY <1>6, <3>2
      <3>4. QED
        BY <1>1, <3>1, <3>3, ReportLinesNext
    <2>3. ASSUME NEW u \in Rest
          PROVE  Added(u) \in Report'
      BY <1>1, <1>7, ReportLinesNext
    <2>4. QED
      BY <2>1, <2>2, <2>3
  <1>9. Polled!GiveUp(index)
    BY <1>1, <1>2, <1>3, <1>4, <1>8 DEF Polled!GiveUp, Rest, Added
  <1>10. QED
    BY <1>1, <1>9 DEF Polled!Next

LEMMA EndsPolled ==
    ASSUME TypeOK, PositionInv, EndRound \/ Finish \/ Fail
    PROVE  Polled!Next
  <1>1. /\ status = "RUNNING" /\ UNCHANGED <<rows, settings>>
        /\ round \in Round /\ round \in Nat /\ round >= 1 /\ Test = Polled!Tests /\ Round \subseteq Nat
    BY ConfigurationTypes DEF EndRound, Finish, Fail, PositionInv, TypeOK, Test, Round, Polled!Tests
  <1>2. UNCHANGED Report
    BY <1>1, ReportFixed
  <1>3. CASE EndRound
    <2>1. roundsCompleted + 1 = round /\ roundsCompleted' = round /\ UNCHANGED status
      BY <1>1, <1>3 DEF EndRound, PositionInv
    <2>2. \A t \in Polled!Tests : Polled!Delivered(t)
      BY <1>1, <1>3, <2>1, DeliveredLines DEF EndRound, PositionInv
    <2>3. Polled!CloseRound
      BY <1>1, <1>2, <2>1, <2>2 DEF Polled!CloseRound, Polled!Current
    <2>4. QED
      BY <2>3 DEF Polled!Next
  <1>4. CASE Finish
    <2>1. roundsCompleted = round /\ status' = "DONE" /\ UNCHANGED roundsCompleted
      BY <1>4 DEF Finish, PositionInv
    <2>2. round + 1 > round /\ roundsCompleted > 0
      BY <1>1, <2>1
    <2>3. \A t \in Polled!Tests : ~Polled!Delivered(t)
      BY <1>1, <1>4, <2>1, <2>2, DeliveredLines DEF Finish, PositionInv
    <2>4. Polled!Complete
      BY <1>1, <1>2, <2>1, <2>2, <2>3 DEF Polled!Complete
    <2>5. QED
      BY <2>4 DEF Polled!Next
  <1>5. CASE Fail
    <2>1. Polled!Break
      BY <1>1, <1>2, <1>5 DEF Fail, Polled!Break
    <2>2. QED
      BY <2>1 DEF Polled!Next
  <1>6. QED
    BY <1>3, <1>4, <1>5

LEMMA StepPolled ==
    ASSUME TypeOK, PositionInv, StopInv, SkipInv, [Next]_vars
    PROVE  [Polled!Next]_<<Report, roundsCompleted, status>>
  <1>1. CASE Record
    BY <1>1, RecordDelivers
  <1>2. CASE Abort
    BY <1>2, AbortGivesUp
  <1>3. CASE EndRound \/ Finish \/ Fail
    BY <1>3, EndsPolled
  <1>4. CASE (\E outcome \in Outcome : Attempt(outcome)) \/ Analyse \/ Lose \/ UNCHANGED vars
    <2>1. UNCHANGED <<settings, rows, roundsCompleted, status>>
      BY <1>4 DEF Attempt, Analyse, Lose, vars
    <2>2. UNCHANGED Report
      BY <2>1, ReportFixed
    <2>3. QED
      BY <2>1, <2>2
  <1>5. QED
    BY <1>1, <1>2, <1>3, <1>4 DEF Next

\* A scan shows its clients what ScanReport promises, under every setting: final
\* results in the order of the tests, rounds that are counted when they are
\* complete, and nothing after a round that was cut short.
THEOREM ImplementsReport == Spec => PolledSpec
  <1>1. Init => Polled!Init
    <2> SUFFICES ASSUME Init
                 PROVE  Polled!Init
      OBVIOUS
    <2>1. \A t \in Test, r \in Round : rows[t][r].status = "none"
      BY DEF Init, NoRow
    <2>2. Report = {}
      BY <2>1 DEF Report, Written
    <2>3. QED
      BY <2>2 DEF Init, Polled!Init
  <1>2. QED
    BY <1>1, StepPolled, TypeCorrect, PositionInvariant, StopInvariant, SkipInvariant, PTL
       DEF Spec, PolledSpec, Polled!Spec, Polled!reportVars

------------------------------------------------------------------------------
(* Every step brings the scan nearer to its end. *)

\* One test less outweighs whatever is left to do for a test.
LEMMA OneTestLess ==
    ASSUME NEW m \in Nat, NEW n \in Nat, m < n, NEW w \in Nat,
           NEW d \in 0 .. w - 1, NEW e \in Nat
    PROVE  m * w + d < n * w + e
  <1>1. PICK k \in Nat : n = m + 1 + k
    <2>1. n - m - 1 \in Nat /\ n = m + 1 + (n - m - 1)
      OBVIOUS
    <2>2. QED
      BY <2>1
  <1>2. n * w = m * w + w + k * w
    BY <1>1
  <1>3. k * w \in Nat /\ m * w \in Nat
    OBVIOUS
  <1>4. QED
    BY <1>2, <1>3

LEMMA Distances ==
    ASSUME TypeOK
    PROVE  /\ at = "attempt" => Distance = 5 + Limit - attempts
           /\ at = "record" => Distance = 5
           /\ at = "abort" => Distance = 4
           /\ at = "round" => Distance = 3
           /\ at = "analyse" => Distance = 2
           /\ at = "finish" => Distance = 1
           /\ at = "ended" => Distance = 0
BY DEF Distance

EffortInv ==
    /\ Limit \in Nat
    /\ Distance \in 0 .. Limit + 5
    /\ TestsLeft \in Nat
    /\ Effort \in Nat

LEMMA EffortTypes ==
    ASSUME TypeOK
    PROVE  /\ Limit \in Nat /\ Limit >= 1
           /\ NumTests \in Nat /\ settings.rounds \in Nat
           /\ index \in 1 .. NumTests /\ round \in 1 .. settings.rounds
           /\ EffortInv
  <1>1. /\ Limit \in Nat /\ Limit >= 1
        /\ NumTests \in Nat /\ settings.rounds \in Nat
        /\ index \in 1 .. NumTests /\ round \in 1 .. settings.rounds
        /\ attempts \in 0 .. Limit
    BY ConfigurationTypes, LimitFacts DEF TypeOK, Test, Round
  <1>2. Distance \in 0 .. Limit + 5
    BY <1>1, Distances DEF TypeOK
  <1>3. TestsLeft \in Nat
    <2>1. (settings.rounds - round) * NumTests \in Nat
      <3>1. settings.rounds - round \in Nat
        BY <1>1
      <3>2. QED
        BY <1>1, <3>1
    <2>2. QED
      BY <1>1, <2>1 DEF TestsLeft
  <1>4. TestsLeft * (Limit + 6) \in Nat
    BY <1>1, <1>3
  <1>5. Effort \in Nat
    BY <1>1, <1>2, <1>4 DEF Effort
  <1>6. QED
    BY <1>1, <1>2, <1>3, <1>5 DEF EffortInv

\* A step goes on with the same test, or there is one test less to come.
LEMMA StepOnwards ==
    ASSUME TypeOK, TypeOK', Next
    PROVE  /\ UNCHANGED Limit
           /\ \/ TestsLeft' = TestsLeft /\ Distance' < Distance
              \/ TestsLeft' < TestsLeft
  <1>a. UNCHANGED <<settings, Limit>>
    BY SettingsFixed
  <1> SUFFICES \/ TestsLeft' = TestsLeft /\ Distance' < Distance
               \/ TestsLeft' < TestsLeft
    BY <1>a
  <1>b. /\ Limit \in Nat /\ attempts \in Nat
        /\ NumTests \in Nat /\ settings.rounds \in Nat
        /\ index \in 1 .. NumTests /\ round \in 1 .. settings.rounds
    BY EffortTypes, LimitFacts DEF TypeOK
  <1>c. UNCHANGED <<round, index>> => TestsLeft' = TestsLeft
    BY <1>a DEF TestsLeft
  <1>d. /\ at' = "attempt" => Distance' = 5 + Limit - attempts'
        /\ at' = "record" => Distance' = 5
        /\ at' = "abort" => Distance' = 4
        /\ at' = "round" => Distance' = 3
        /\ at' = "analyse" => Distance' = 2
        /\ at' = "finish" => Distance' = 1
        /\ at' = "ended" => Distance' = 0
    BY <1>a DEF Distance
  <1>1. ASSUME NEW outcome \in Outcome, Attempt(outcome)
        PROVE  TestsLeft' = TestsLeft /\ Distance' < Distance
    <2>1. /\ at = "attempt" /\ at' \in {"attempt", "record"}
          /\ attempts < Limit /\ attempts' = attempts + 1
          /\ UNCHANGED <<round, index>>
      BY <1>1 DEF Attempt, TypeOK
    <2>2. QED
      BY <1>b, <1>c, <1>d, <2>1, Distances
  <1>2. CASE Record
    <2>1. CASE UNCHANGED index
      <3>1. at = "record" /\ at' \in {"abort", "round"} /\ UNCHANGED round
        BY <1>2, <1>b, <2>1 DEF Record, AdvanceTest
      <3>2. QED
        BY <1>c, <1>d, <2>1, <3>1, Distances
    <2>2. CASE ~UNCHANGED index
      <3>1. index' = index + 1 /\ UNCHANGED round
        BY <1>2, <2>2 DEF Record, AdvanceTest
      <3>2. TestsLeft' = TestsLeft - 1
        <4>1. TestsLeft' = (settings.rounds - round) * NumTests + (NumTests - (index + 1))
          BY <1>a, <3>1 DEF TestsLeft
        <4>2. (settings.rounds - round) * NumTests \in Int
          BY <1>b
        <4>3. QED
          BY <1>b, <4>1, <4>2 DEF TestsLeft
      <3>3. QED
        BY <3>2, EffortTypes DEF EffortInv
    <2>3. QED
      BY <2>1, <2>2
  <1>3. CASE Abort \/ EndRound \/ Finish
    <2>1. /\ UNCHANGED <<round, index>>
          /\ \/ at = "abort" /\ at' = "round"
             \/ at = "round" /\ at' = "analyse"
             \/ at = "finish" /\ at' = "ended"
      BY <1>3 DEF Abort, EndRound, Finish
    <2>2. QED
      BY <1>c, <1>d, <2>1, Distances
  <1>4. CASE Analyse
    <2>1. CASE at' = "finish"
      <3>1. at = "analyse" /\ UNCHANGED <<round, index>>
        BY <1>4, <2>1 DEF Analyse, StartRound
      <3>2. QED
        BY <1>c, <1>d, <2>1, <3>1, Distances
    <2>2. CASE at' # "finish"
      <3>1. round' = round + 1 /\ index' = 1
        BY <1>4, <2>2 DEF Analyse, StartRound
      <3>2. TestsLeft' < TestsLeft
        <4> DEFINE r == settings.rounds - round - 1
        <4>1. r \in Int /\ settings.rounds - round = r + 1 /\ settings.rounds - (round + 1) = r
          BY <1>b
        <4>2. TestsLeft' = r * NumTests + (NumTests - 1)
          BY <1>a, <3>1, <4>1 DEF TestsLeft
        <4>3. TestsLeft = (r + 1) * NumTests + (NumTests - index)
          BY <4>1 DEF TestsLeft
        <4>4. (r + 1) * NumTests = r * NumTests + NumTests /\ r * NumTests \in Int
          BY <1>b, <4>1
        <4>5. QED
          BY <1>b, <4>2, <4>3, <4>4
      <3>3. QED
        BY <3>2
    <2>3. QED
      BY <2>1, <2>2
  <1>5. CASE Fail \/ Lose
    <2>1. UNCHANGED <<round, index>> /\ at \in {"attempt", "record", "abort", "round", "analyse", "finish"}
          /\ at' = "ended"
      BY <1>5 DEF Fail, Lose
    <2>2. Distance > 0
      BY <1>b, <2>1, Distances DEF TypeOK
    <2>3. QED
      BY <1>c, <1>d, <2>1, <2>2
  <1>6. QED
    BY <1>a, <1>1, <1>2, <1>3, <1>4, <1>5 DEF Next

\* Every step of a scan lowers its effort, which is never negative: the rounds,
\* tests and attempts of the settings bound the length of every scan.  (That a
\* scan which has not ended can go on is what Terminates adds.)
THEOREM EffortTheorem == Spec => EffortFalls /\ [](Effort \in Nat)
  <1>1. TypeOK => EffortInv
    BY EffortTypes
  <1>2. TypeOK /\ TypeOK' /\ EffortInv /\ EffortInv' /\ [Next]_vars => [Effort' < Effort]_vars
    <2> SUFFICES ASSUME TypeOK, TypeOK', EffortInv, EffortInv', Next
                 PROVE  Effort' < Effort
      OBVIOUS
    <2>1. /\ Limit \in Nat /\ TestsLeft \in Nat /\ TestsLeft' \in Nat
          /\ Distance \in 0 .. Limit + 5 /\ Distance' \in 0 .. Limit' + 5
          /\ Limit' = Limit
      BY StepOnwards DEF EffortInv
    <2>2. /\ Effort = TestsLeft * (Limit + 6) + Distance
          /\ Effort' = TestsLeft' * (Limit + 6) + Distance'
      BY <2>1 DEF Effort
    <2>3. CASE TestsLeft' = TestsLeft /\ Distance' < Distance
      <3> DEFINE a == TestsLeft * (Limit + 6)
      <3>1. a \in Nat
        BY <2>1
      <3>2. Effort = a + Distance /\ Effort' = a + Distance'
        BY <2>2, <2>3
      <3>3. Distance \in Nat /\ Distance' \in Nat
        BY <2>1
      <3>4. Distance' < Distance
        BY <2>3
      <3>5. a + Distance' < a + Distance
        BY <3>1, <3>3, <3>4
      <3>6. QED
        BY <3>2, <3>5
    <2>4. CASE TestsLeft' < TestsLeft
      <3> DEFINE w == Limit + 6
      <3>1. w \in Nat /\ Distance' \in 0 .. w - 1 /\ Distance \in Nat
        BY <2>1
      <3>2. Effort = TestsLeft * w + Distance /\ Effort' = TestsLeft' * w + Distance'
        BY <2>2
      <3> HIDE DEF w
      <3>3. QED
        BY <2>1, <2>4, <3>1, <3>2, OneTestLess
    <2>5. QED
      BY <2>3, <2>4, StepOnwards
  <1>3. EffortInv => Effort \in Nat
    BY DEF EffortInv
  <1>4. QED
    BY <1>1, <1>2, <1>3, TypeCorrect, PTL DEF Spec, EffortFalls
==============================================================================
