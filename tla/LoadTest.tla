------------------------------ MODULE LoadTest ------------------------------
(***************************************************************************)
(* The pure part of the load tests: how the server completes, checks and   *)
(* hands on the configuration of a simulation, what the k6 scripts make of *)
(* it, and how the numbers of k6 reach the results page.  A duration is a  *)
(* sequence of parts, as in "1m30s"; the seconds that the program counts   *)
(* in fractions are thousandths here, and rates are percentages.           *)
(***************************************************************************)
EXTENDS Integers, Sequences, FiniteSets, SequencesExt, FiniteSetsExt

CONSTANT Unset       \* a field that is missing

Part(value, unit) == [value |-> value, unit |-> unit]
Stage(seconds, target) == [duration |-> <<Part(seconds, "s")>>, target |-> target]

Second == 1000
ThousandthsPer == [ms |-> 1, s |-> Second, m |-> 60 * Second, h |-> 3600 * Second]

\* parseFloat reads the first number of the text, endsWith its last unit.
DurationIsReadable(duration) == /\ duration # <<>>
                                /\ Last(duration).unit \in DOMAIN ThousandthsPer
durationToSeconds(duration) == Head(duration).value * ThousandthsPer[Last(duration).unit]

calculateStageDuration(stages) ==
    FoldLeft(LAMBDA total, stage : total + durationToSeconds(stage.duration), 0, stages)
getMaximumStageVUs(stages) ==
    FoldLeft(LAMBDA most, stage : IF stage.target > most THEN stage.target ELSE most, 0, stages)

Or(value, default) == IF value = Unset THEN default ELSE value

SpikeStages == <<Stage(20, 5), Stage(20, 25), Stage(20, 50), Stage(20, 100), Stage(20, 25),
                 Stage(20, 5)>>
StressStages == <<Stage(30, 10), Stage(30, 25), Stage(30, 50), Stage(30, 100), Stage(30, 150)>>

Staged(testType, stages) ==
    [testType |-> testType, stages |-> stages, durationSeconds |-> calculateStageDuration(stages)]

defaultConfig(config) ==
    CASE config.testType = "NORMAL" ->
            [testType |-> "NORMAL", vus |-> Or(config.vus, 5),
             durationSeconds |-> Or(config.durationSeconds, 30 * Second)]
      [] config.testType = "LOAD" ->
            [testType |-> "LOAD", vus |-> Or(config.vus, 25),
             durationSeconds |-> Or(config.durationSeconds, 120 * Second)]
      [] config.testType = "SPIKE" -> Staged("SPIKE", Or(config.stages, SpikeStages))
      [] config.testType = "STRESS" -> Staged("STRESS", Or(config.stages, StressStages))

\* defaultConfig throws on stages whose durations it cannot read.
HasDefaults(config) ==
    config.testType \in {"SPIKE", "STRESS"} /\ config.stages # Unset =>
        \A i \in DOMAIN config.stages : DurationIsReadable(config.stages[i].duration)

Seconds == (5 * Second)..(3600 * Second)
validateConfig(config) ==
    IF config.testType \in {"NORMAL", "LOAD"}
    THEN /\ config.vus \in 1..1000
         /\ config.durationSeconds \in Seconds /\ config.durationSeconds % Second = 0
    ELSE /\ config.stages # <<>>
         /\ \A i \in DOMAIN config.stages :
              /\ config.stages[i].target \in 1..2000
              /\ durationToSeconds(config.stages[i].duration) > 0
         /\ config.durationSeconds \in Seconds

Accepted(config) == HasDefaults(config) /\ validateConfig(defaultConfig(config))

-----------------------------------------------------------------------------
(* What runs: the environment of the child process, and the options that   *)
(* the script of each test makes of it.                                    *)

K6Environment_NoDuration(config) ==         \* mutant: the duration is not handed on
    [VUS |-> defaultConfig(config).vus, DURATION |-> Unset, STAGES_JSON |-> Unset]
K6Environment(config) ==
    LET planned == defaultConfig(config) IN
    IF planned.testType \in {"NORMAL", "LOAD"}
    THEN [VUS |-> planned.vus, DURATION |-> planned.durationSeconds, STAGES_JSON |-> Unset]
    ELSE [VUS |-> Unset, DURATION |-> Unset, STAGES_JSON |-> planned.stages]

NormalOptions(env) == [vus |-> Or(env.VUS, 5), seconds |-> Or(env.DURATION, 30 * Second)]
LoadOptions(env) == [vus |-> Or(env.VUS, 25), seconds |-> Or(env.DURATION, 120 * Second)]

\* The scripts with stages do not read the environment: their stages are their own.
SpikeScriptStages == <<Stage(20, 5), Stage(20, 25), Stage(30, 50), Stage(20, 100),
                       Stage(20, 25), Stage(20, 5)>>
StressScriptStages == <<Stage(30, 10), Stage(30, 25), Stage(30, 50), Stage(30, 100),
                        Stage(30, 150)>>

Planned(stages) == [vus |-> getMaximumStageVUs(stages), seconds |-> calculateStageDuration(stages)]

K6Options(config) ==
    CASE config.testType = "NORMAL" -> NormalOptions(K6Environment(config))
      [] config.testType = "LOAD" -> LoadOptions(K6Environment(config))
      [] config.testType = "SPIKE" -> Planned(SpikeScriptStages)
      [] config.testType = "STRESS" -> Planned(StressScriptStages)

-----------------------------------------------------------------------------
(* What a script does: it logs all its users in, and every iteration pays  *)
(* from one of them to another.                                            *)

\* logins[i]: the account that the i-th login was answered with, or Unset.
setup(logins) == SelectSeq(logins, LAMBDA account : account # Unset)
SetupSucceeds(logins) == Len(setup(logins)) >= 2

\* Users are drawn until the accounts differ, and for ever if they cannot.
payments(users) ==
    {[from |-> pair[1], to |-> pair[2]] :
        pair \in {p \in Range(users) \X Range(users) : p[1] # p[2]}}

\* The checks that an answer passes and fails: a body that is no JSON throws after the
\* first of the three.
checks(answer) ==
    CASE answer = "paid" -> [passes |-> 3, fails |-> 0]
      [] answer = "refused" -> [passes |-> 0, fails |-> 3]
      [] answer = "garbled" -> [passes |-> 0, fails |-> 1]

SumOf(seq, field) == FoldLeft(LAMBDA sum, entry : sum + entry[field], 0, seq)

\* What k6 counts of a run: the logins are requests as well.
Measured(logins, answers) ==
    LET checked == [i \in DOMAIN answers |-> checks(answers[i])]
        Of(seq, kinds) == Cardinality({i \in DOMAIN seq : seq[i] \in kinds})
    IN  [total |-> Len(logins) + Len(answers),
         failed |-> Of(logins, {Unset}) + Of(answers, {"refused", "garbled"}),
         passes |-> SumOf(checked, "passes"), fails |-> SumOf(checked, "fails")]

-----------------------------------------------------------------------------
(* The numbers of a finished run.  A metric of k6 is [values, flat]: what   *)
(* handleSummary nests under "values", and what --summary-export writes     *)
(* beside the name; one of them is Unset.                                   *)

Field(fields, name) == IF fields # Unset /\ name \in DOMAIN fields THEN fields[name] ELSE 0

HasMetric(summary, metric) == metric \in DOMAIN summary.metrics
extractMetric(summary, metric) == IF HasMetric(summary, metric) THEN summary.metrics[metric].values
                                  ELSE Unset
FlatMetric(summary, metric) == IF HasMetric(summary, metric) THEN summary.metrics[metric].flat
                               ELSE Unset

\* Rates are percentages; Math.round of halves goes up.
Rounded(rate, total) == (rate * total + 50) \div 100

parseK6Summary(summary) ==
    LET httpReqs == extractMetric(summary, "http_reqs")
        duration == extractMetric(summary, "http_req_duration")
        failureRate == Field(extractMetric(summary, "http_req_failed"), "rate")
    IN  [totalRequests |-> Field(httpReqs, "count"), failureRate |-> failureRate,
         failedRequests |-> Rounded(failureRate, Field(httpReqs, "count")),
         avgLatencyMs |-> Field(duration, "avg"), maxLatencyMs |-> Field(duration, "max"),
         checksPassed |-> Field(extractMetric(summary, "checks"), "passes"),
         checksFailed |-> Field(extractMetric(summary, "checks"), "fails")]

writeSimulationResult(config, status, summary) ==
    [status |-> "COMPLETED", config |-> config, durationMs |-> Or(status.durationMs, 0),
     metrics |-> parseK6Summary(summary), k6 |-> summary]

getEffectiveMetrics_ServerOnly(result) ==   \* mutant: the numbers of the server are shown
    result.metrics
getEffectiveMetrics(result) ==
    LET summary == result.metrics
        counted == summary.totalRequests > 0
        total == IF counted THEN summary.totalRequests
                 ELSE Field(FlatMetric(result.k6, "http_reqs"), "count")
        failureRate == IF counted THEN summary.failureRate
                       ELSE Field(FlatMetric(result.k6, "http_req_failed"), "value")
        expected == "http_req_duration{expected_response:true}"
        latency == IF HasMetric(result.k6, expected) THEN FlatMetric(result.k6, expected)
                   ELSE FlatMetric(result.k6, "http_req_duration")
        Latency(own, field) == IF summary.avgLatencyMs > 0 THEN own ELSE Field(latency, field)
        Checks(own, field) ==
            IF summary.checksPassed # 0 \/ summary.checksFailed # 0 THEN own
            ELSE IF HasMetric(result.k6, "checks")
                 THEN Field(FlatMetric(result.k6, "checks"), field)
                 ELSE SumOf(result.k6.rootChecks, field)
    IN  [totalRequests |-> total, failureRate |-> failureRate,
         failedRequests |-> IF counted THEN summary.failedRequests ELSE Rounded(failureRate, total),
         avgLatencyMs |-> Latency(summary.avgLatencyMs, "avg"),
         maxLatencyMs |-> Latency(summary.maxLatencyMs, "max"),
         checksPassed |-> Checks(summary.checksPassed, "passes"),
         checksFailed |-> Checks(summary.checksFailed, "fails")]

-----------------------------------------------------------------------------
(* What the results page shows of the configuration and of the numbers.    *)

\* The configuration of the result that is shown.
renderConfiguration(config) ==
    IF config.testType \in {"NORMAL", "LOAD"}
    THEN [testType |-> config.testType, vus |-> config.vus, seconds |-> config.durationSeconds]
    ELSE [testType |-> config.testType, seconds |-> config.durationSeconds,
          count |-> Len(config.stages), stages |-> config.stages]

\* A zero means that k6 did not say, and is shown as a dash; so is a missing number.
formatNumber(value) == IF value = Unset THEN "-" ELSE value
formatLatency(value) == IF value \in {Unset, 0} THEN "-" ELSE value
\* The charts: heights in percent of the largest value, at least 5 when there is one.
LatencyChart(bars) ==
    LET largest == Max({bars[i] : i \in DOMAIN bars} \cup {1})
    IN  [i \in DOMAIN bars |-> IF bars[i] > 0 THEN Max({(bars[i] * 100) \div largest, 5}) ELSE 3]
Share(part, total) == IF total > 0 THEN (part * 100) \div total ELSE 0
RequestHealthChart(total, failed) ==
    [successful |-> Share(Max({total - failed, 0}), total), failed |-> Share(failed, total)]
ChecksChart(passed, failed) ==
    [passed |-> Share(passed, passed + failed), failed |-> Share(failed, passed + failed)]
=============================================================================
