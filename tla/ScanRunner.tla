------------------------------ MODULE ScanRunner ------------------------------
(***************************************************************************)
(* One execute_scan, from the commit that sets the scan RUNNING to its     *)
(* end: the rounds, the tests of a round one after the other, the attempts *)
(* of a test, what is committed when, the stop after a block, the early    *)
(* stop when no price differs, and the exits by an exception.              *)
(*                                                                         *)
(* A test is an entry of the matrix (profile, cookie mode, referrer,       *)
(* proxy); a flow status is its class: BLOCKED for BLOCKED_STATES, TIMEOUT *)
(* for RETRYABLE, OK for all others.  A price is a small number, NoPrice   *)
(* when none was read; the model's prices differ by more than TOLERANCE.   *)
(***************************************************************************)
EXTENDS Naturals, FiniteSetsExt

CONSTANTS
    NumTests,       \* tests per round (len(specs), at least one here)
    Profile,        \* Profile[t]: the browser profile of test t
    Price,          \* the prices a flow may read
    Outcome,        \* what an attempt may bring: a flow result, with a picture or not
    Settings        \* the configurations to look at

NoPrice == 0
FlowStatus == {"OK", "TIMEOUT", "BLOCKED"}
Flow == [status : FlowStatus, price : Price \cup {NoPrice}]

ASSUME RunnerAssumption ==
    /\ NumTests \in Nat \ {0}
    /\ DOMAIN Profile = 1 .. NumTests
    /\ Price \subseteq Nat \ {NoPrice}
    /\ Outcome \subseteq [flow : Flow, picture : BOOLEAN]
    /\ Settings \subseteq [abortAfter : Nat,        \* abort_scan_after_blocks
                           maxRetries : Nat,        \* max_retries_per_profile
                           rounds     : Nat \ {0}]  \* options["rounds"]

VARIABLES
    settings,           \* the configuration of this process and scan
    at,                 \* where execute_scan / run_single_test is
    round, index,       \* round_no; the position in `specs'
    attempts,           \* attempts of the current test
    flow,               \* the last FlowResult of the current test
    shot,               \* ctx.artifacts names a screenshot
    blockedCount,       \* blocked_count
    aborted,            \* aborted
    verdict,            \* verdict of the last build_analysis
    rows,               \* rows[t][r]: the ScanResult row, or NoRow
    status,             \* scans.status
    roundsCompleted,    \* scans.rounds_completed
    files               \* files[p][r]: the test last photographed in the folder

progressVars == <<at, round, index, attempts, flow, shot, blockedCount, aborted, verdict>>
vars == <<settings, progressVars, rows, status, roundsCompleted, files>>

Test == 1 .. NumTests
NoTest == 0
Round == 1 .. settings.rounds
Verdict == {"none", "insufficient_data", "not_comparable", "no_difference", "difference"}

Retryable == {"TIMEOUT"}
Limit == Max({1, settings.maxRetries})

\* run_single_test starts out with an ERROR and no artifacts.
NoFlow == [status |-> "TIMEOUT", price |-> NoPrice]

NoRow == [status |-> "none", price |-> NoPrice, attempts |-> 0, shot |-> FALSE]
Skipped == [status |-> "SKIPPED", price |-> NoPrice, attempts |-> 0, shot |-> FALSE]
Row == [status : FlowStatus \cup {"none", "SKIPPED"}, price : Price \cup {NoPrice},
        attempts : Nat, shot : BOOLEAN]

Init ==
    /\ settings \in Settings
    /\ at = "attempt"
    /\ round = 1
    /\ index = 1
    /\ attempts = 0
    /\ flow = NoFlow
    /\ shot = FALSE
    /\ blockedCount = 0
    /\ aborted = FALSE
    /\ verdict = "none"
    /\ rows = [t \in Test |-> [r \in Round |-> NoRow]]
    /\ status = "RUNNING"
    /\ roundsCompleted = 0
    /\ files = [p \in {Profile[t] : t \in Test} |-> [r \in Round |-> NoTest]]

------------------------------------------------------------------------------
(* run_single_test *)

\* The folder of a test is named after its profile and the round only, and a
\* step has the same file name in every test: a later test writes over it.
Photograph(picture) ==
    /\ shot' = (shot \/ picture)
    /\ files' = IF picture THEN [files EXCEPT ![Profile[index]][round] = index] ELSE files

\* Faulty variants: one attempt too many; the attempts are not counted.
AttemptOnceMore(outcome) ==
    /\ at = "attempt"
    /\ attempts' = attempts + 1
    /\ flow' = outcome.flow
    /\ Photograph(outcome.picture)
    /\ at' = IF flow'.status \in Retryable /\ attempts < Limit THEN "attempt" ELSE "record"
    /\ UNCHANGED <<settings, round, index, blockedCount, aborted, verdict, rows,
                   status, roundsCompleted>>

AttemptUncounted(outcome) ==
    /\ at = "attempt"
    /\ attempts' = 1
    /\ flow' = outcome.flow
    /\ Photograph(outcome.picture)
    /\ at' = IF flow'.status \in Retryable /\ attempts' < Limit THEN "attempt" ELSE "record"
    /\ UNCHANGED <<settings, round, index, blockedCount, aborted, verdict, rows,
                   status, roundsCompleted>>

\* One pass of the attempt loop: provider.run_flow returns a result or raises
\* (an ERROR, of class TIMEOUT); a technical failure is tried again after a
\* pause while attempts are left.  The pictures of all attempts add up in ctx.
Attempt(outcome) ==
    /\ at = "attempt"
    /\ attempts' = attempts + 1
    /\ flow' = outcome.flow
    /\ Photograph(outcome.picture)
    /\ at' = IF flow'.status \in Retryable /\ attempts' < Limit THEN "attempt" ELSE "record"
    /\ UNCHANGED <<settings, round, index, blockedCount, aborted, verdict, rows,
                   status, roundsCompleted>>

\* The next test of the round, or the end of the round.
AdvanceTest ==
    IF index < NumTests
    THEN /\ at' = "attempt"
         /\ index' = index + 1
         /\ attempts' = 0
         /\ flow' = NoFlow
         /\ shot' = FALSE
    ELSE /\ at' = "round"
         /\ UNCHANGED <<index, attempts, flow, shot>>

\* The commit of the result; a block is counted and may end the scan.
Record ==
    LET blocked == blockedCount + (IF flow.status = "BLOCKED" THEN 1 ELSE 0)
    IN  /\ at = "record"
        /\ rows' = [rows EXCEPT ![index][round] =
                      [status |-> flow.status, price |-> flow.price,
                       attempts |-> attempts, shot |-> shot]]
        /\ blockedCount' = blocked
        /\ IF flow.status = "BLOCKED" /\ settings.abortAfter # 0 /\ blocked >= settings.abortAfter
           THEN at' = "abort" /\ UNCHANGED <<index, attempts, flow, shot>>
           ELSE AdvanceTest
        /\ UNCHANGED <<settings, round, aborted, verdict, status, roundsCompleted, files>>

------------------------------------------------------------------------------
(* execute_scan *)

WithSkipped == [t \in Test |-> IF t > index THEN [rows[t] EXCEPT ![round] = Skipped] ELSE rows[t]]

\* Faulty variants: only the round is cut short; the rest of it stays invisible.
AbortRoundOnly ==
    /\ at = "abort"
    /\ rows' = WithSkipped
    /\ at' = "round"
    /\ UNCHANGED <<settings, round, index, attempts, flow, shot, blockedCount, aborted,
                   verdict, status, roundsCompleted, files>>

AbortSilently ==
    /\ at = "abort"
    /\ aborted' = TRUE
    /\ at' = "round"
    /\ UNCHANGED <<settings, round, index, attempts, flow, shot, blockedCount, verdict,
                   rows, status, roundsCompleted, files>>

\* The site blocked us often enough: the rest of the round is marked SKIPPED.
Abort ==
    /\ at = "abort"
    /\ rows' = WithSkipped
    /\ aborted' = TRUE
    /\ at' = "round"
    /\ UNCHANGED <<settings, round, index, attempts, flow, shot, blockedCount,
                   verdict, status, roundsCompleted, files>>

\* Faulty variant: a round that was cut short is not counted.
EndRoundUncounted ==
    /\ at = "round"
    /\ roundsCompleted' = IF aborted THEN roundsCompleted ELSE round
    /\ at' = "analyse"
    /\ UNCHANGED <<settings, round, index, attempts, flow, shot, blockedCount, aborted,
                   verdict, rows, status, files>>

\* The commit of rounds_completed, also for a round that was cut short.
EndRound ==
    /\ at = "round"
    /\ roundsCompleted' = round
    /\ at' = "analyse"
    /\ UNCHANGED <<settings, round, index, attempts, flow, shot, blockedCount, aborted,
                   verdict, rows, status, files>>

\* What build_analysis makes of the rows: per test the lowest price over the
\* rounds, then the spread of those.  Offers with prices may turn out not to
\* be the same offer; their identities are not in this model.
PricesOf(t) == {rows[t][r].price : r \in Round} \ {NoPrice}
Priced == {t \in Test : PricesOf(t) # {}}
LowestPrices == {Min(PricesOf(t)) : t \in Priced}
Verdicts ==
    {v \in Verdict :
        \/ v = "insufficient_data" /\ Priced = {}
        \/ v = "not_comparable" /\ Cardinality(Priced) > 1
        \/ v = "no_difference" /\ Cardinality(LowestPrices) = 1
        \/ v = "difference" /\ Cardinality(LowestPrices) > 1}

StartRound(r) ==
    /\ round' = r
    /\ index' = 1
    /\ attempts' = 0
    /\ flow' = NoFlow
    /\ shot' = FALSE
    /\ at' = "attempt"

\* Faulty variant: only a difference is worth another round.
AnalyseHastily ==
    /\ at = "analyse"
    /\ verdict' \in Verdicts
    /\ IF round < settings.rounds /\ verdict' = "difference" /\ ~aborted
       THEN StartRound(round + 1)
       ELSE at' = "finish" /\ UNCHANGED <<round, index, attempts, flow, shot>>
    /\ UNCHANGED <<settings, blockedCount, aborted, rows, status, roundsCompleted, files>>

\* The interim analysis: without a difference, or after a block, the remaining
\* rounds are dropped.
Analyse ==
    /\ at = "analyse"
    /\ verdict' \in Verdicts
    /\ IF round < settings.rounds /\ verdict' # "no_difference" /\ ~aborted
       THEN StartRound(round + 1)
       ELSE at' = "finish" /\ UNCHANGED <<round, index, attempts, flow, shot>>
    /\ UNCHANGED <<settings, blockedCount, aborted, rows, status, roundsCompleted, files>>

\* The last commit; the final analysis sees the same rows as the interim one.
Finish ==
    /\ at = "finish"
    /\ status' = "DONE"
    /\ at' = "ended"
    /\ UNCHANGED <<settings, round, index, attempts, flow, shot, blockedCount, aborted,
                   verdict, rows, roundsCompleted, files>>

\* An exception outside the attempt loop (an unknown provider, a defect of the
\* analysis): the handler records the failure.
Fail ==
    /\ \/ at = "attempt" /\ attempts = 0
       \/ at \in {"analyse", "finish"}
    /\ status' = "FAILED"
    /\ at' = "ended"
    /\ UNCHANGED <<settings, round, index, attempts, flow, shot, blockedCount, aborted,
                   verdict, rows, roundsCompleted, files>>

\* A commit fails: the session is unusable and the handler fails as well.
Lose ==
    /\ at \in {"record", "abort", "round", "analyse", "finish"}
    /\ at' = "ended"
    /\ UNCHANGED <<settings, round, index, attempts, flow, shot, blockedCount, aborted,
                   verdict, rows, status, roundsCompleted, files>>

Next ==
    \/ \E outcome \in Outcome : Attempt(outcome)
    \/ Record
    \/ Abort
    \/ EndRound
    \/ Analyse
    \/ Finish
    \/ Fail
    \/ Lose

Spec == Init /\ [][Next]_vars

\* The worker thread runs, and every flow ends: its waits have timeouts.
FairSpec == Spec /\ WF_vars(Next)

------------------------------------------------------------------------------
(* Properties *)

\* Every variable has its type and stays within the configuration, and the
\* attempt loop is only entered while attempts are left.
TypeOK ==
    /\ settings \in Settings
    /\ at \in {"attempt", "record", "abort", "round", "analyse", "finish", "ended"}
    /\ round \in Round
    /\ index \in Test
    /\ attempts \in 0 .. Limit
    /\ at = "attempt" => attempts < Limit
    /\ flow \in Flow
    /\ shot \in BOOLEAN
    /\ blockedCount \in Nat
    /\ aborted \in BOOLEAN
    /\ verdict \in Verdict
    /\ rows \in [Test -> [Round -> Row]]
    /\ status \in {"RUNNING", "DONE", "FAILED"}
    /\ roundsCompleted \in 0 .. settings.rounds
    /\ files \in [{Profile[t] : t \in Test} -> [Round -> Test \cup {NoTest}]]

BlockedRows == {p \in Test \X Round : rows[p[1]][p[2]].status = "BLOCKED"}
BlockLimitReached == settings.abortAfter # 0 /\ Cardinality(BlockedRows) >= settings.abortAfter

\* The site is visited only while fewer blocks are on record than the limit,
\* and a test that was answered with a block is never tried again (README.md:
\* 700-704, runner.py:249-282 and 384-397).
NoVisitAfterBlock ==
    [][attempts' > attempts =>
          /\ ~BlockLimitReached
          /\ attempts > 0 => flow.status # "BLOCKED"]_vars

\* A result that stands in the database after fewer attempts than allowed is
\* not a technical failure, and no test has more attempts than allowed.
RetriesUsed ==
    \A t \in Test, r \in Round :
        rows[t][r].status \in FlowStatus =>
            /\ rows[t][r].attempts \in 1 .. Limit
            /\ rows[t][r].status \in Retryable => rows[t][r].attempts = Limit

\* What was not executed stays visible (runner.py:475): every test of every
\* completed round has a row, SKIPPED exactly when it comes after the block that
\* ended the scan, and no round behind rounds_completed has one when it is DONE.
NothingHidden ==
    /\ \A t \in Test, r \in Round :
          r <= roundsCompleted => rows[t][r].status # "none"
    /\ \A t \in Test, r \in Round :
          rows[t][r].status = "SKIPPED" =>
             \E b \in Test : /\ b < t
                             /\ rows[b][r].status = "BLOCKED"
                             /\ \A u \in Test : u > b => rows[u][r].status = "SKIPPED"
    /\ status = "DONE" => \A t \in Test, r \in Round :
          r > roundsCompleted => rows[t][r].status = "none"

\* A scan is DONE before all its rounds only when the site blocked it or when
\* prices were found and none of the tests can be told apart by its lowest one
\* (runner.py:407-425).
EarlyStopJustified ==
    status = "DONE" /\ roundsCompleted < settings.rounds =>
        BlockLimitReached \/ Cardinality(LowestPrices) = 1

\* What is left to do: the tests of this round and of the later ones, and for the
\* test under way its attempts and the way to the end.  Every step of a scan
\* lowers this number, whatever the site, the database and the settings do.
TestsLeft == (settings.rounds - round) * NumTests + (NumTests - index)
Distance ==
    IF at = "attempt" THEN 5 + Limit - attempts
    ELSE [record |-> 5, abort |-> 4, round |-> 3, analyse |-> 2, finish |-> 1, ended |-> 0][at]
Effort == TestsLeft * (Limit + 6) + Distance
EffortFalls == [][Effort' < Effort]_vars

\* execute_scan ends, whatever the site, the database and the settings do.
Terminates == <>(at = "ended")

\* What survives every step: the tests that have a row are exactly those the
\* position has passed, and rounds_completed follows the position.
Written(t, r) == rows[t][r].status # "none"
PositionInv ==
    /\ at # "ended" =>
          /\ status = "RUNNING"
          /\ \A t \in Test, r \in Round :
                /\ r < round => Written(t, r)
                /\ r > round => ~Written(t, r)
          /\ roundsCompleted = IF at \in {"analyse", "finish"} THEN round ELSE round - 1
    /\ at \in {"attempt", "record"} => \A t \in Test : Written(t, round) <=> t < index
    /\ at = "abort" =>
          /\ \A t \in Test : Written(t, round) <=> t <= index
          /\ rows[index][round].status = "BLOCKED"
    /\ at \in {"round", "analyse", "finish"} => \A t \in Test : Written(t, round)

\* The results a client finds in the database, and what it may see of a scan:
\* results are final and come in the order of the tests, a round counts when it
\* is complete, and nothing follows a round that was cut short (routes.py:277).
Line(t, r, row) == [test |-> t, round |-> r, status |-> row.status, price |-> row.price]
Report == {Line(p[1], p[2], rows[p[1]][p[2]]) : p \in {q \in Test \X Round : Written(q[1], q[2])}}
Polled == INSTANCE ScanReport WITH report <- Report
PolledSpec == Polled!Spec

\* Only a scan that gives up has SKIPPED rows.
SkipInv == (\E t \in Test, r \in Round : rows[t][r].status = "SKIPPED") => aborted

\* What the attempt loop and its end have in common.
RetryInv ==
    /\ at = "attempt" /\ attempts > 0 => flow.status \in Retryable
    /\ at = "record" =>
          /\ attempts \in 1 .. Limit
          /\ flow.status \in Retryable => attempts = Limit

\* blocked_count counts the blocked rows, and where another test may still
\* follow it is below the limit, unless the scan is already aborted.
BelowBlockLimit == settings.abortAfter = 0 \/ blockedCount < settings.abortAfter
BlockInv ==
    /\ blockedCount = Cardinality(BlockedRows)
    /\ at \in {"attempt", "record"} => BelowBlockLimit
    /\ at \in {"round", "analyse"} => aborted \/ BelowBlockLimit

\* Why a scan goes to its end: a block has cut it short, the rounds are done, or
\* no price differs; and that reason still holds when it is DONE.
StopInv ==
    /\ aborted => at \in {"round", "analyse", "finish", "ended"} /\ ~BelowBlockLimit
    /\ at = "abort" => ~BelowBlockLimit
    /\ at = "finish" =>
          aborted \/ round = settings.rounds \/ Cardinality(LowestPrices) = 1
    /\ status = "DONE" =>
          /\ at = "ended"
          /\ aborted \/ roundsCompleted = settings.rounds \/ Cardinality(LowestPrices) = 1

\* Screenshots serve as evidence (README.md:4): the picture behind a result
\* shows the test the result is about.
EvidenceIsOwn ==
    \A t \in Test, r \in Round :
        rows[t][r].shot => files[Profile[t]][r] = t
==============================================================================
