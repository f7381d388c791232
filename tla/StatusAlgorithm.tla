---------------------------- MODULE StatusAlgorithm ----------------------------
(***************************************************************************)
(* algorithm/status.go: the status of a service from its recent reports,   *)
(* its recent probes and its baselines.  The operators are the Go          *)
(* functions; the little state machine under them lets signals arrive one  *)
(* at a time, so that what one more report or one more failed probe may    *)
(* do is a property of steps.                                              *)
(*                                                                         *)
(* The report baseline is counted in tenths of a report and the probe      *)
(* baseline's failure rate in sixtieths, so that every threshold of the    *)
(* code and every ratio of at most five probes is an integer.              *)
(***************************************************************************)
EXTENDS Integers

CONSTANTS
  MaxReports,   \* bound: reports in the window
  Means,        \* means of the report baseline
  StdDevs,      \* and its standard deviations
  Weeks,        \* and its weeks of history
  Rates,        \* failure rates of the probe baseline
  Samples       \* and its samples

ASSUME StatusAssumption ==
  /\ MaxReports \in Nat
  /\ Means \subseteq Nat /\ StdDevs \subseteq Nat /\ Weeks \subseteq Nat
  /\ Rates \subseteq 0..60 /\ Samples \subseteq Nat

Tenth == 10   \* one report
Whole == 60   \* a failure rate of 1

RecentProbeWindow == 5
minBaselineWeeks == 4
minProbeBaselineSamples == 20
coldStartReportThreshold == 15
minAbsoluteReports == 3
reportZScoreThreshold == 3
minProbeSamples == 3
probeFailRateThreshold == 48         \* 0.8
reportSupportZScoreThreshold == 1

Status == {"Operational", "Degraded", "Outage"}

Signals == [reports : 0..MaxReports, mean : Means, stdDev : StdDevs, weeks : Weeks,
            total : 0..RecentProbeWindow, failures : 0..RecentProbeWindow,
            rate : Rates, samples : Samples]

StdDevFloor(s) == IF s.stdDev < Tenth THEN Tenth ELSE s.stdDev

\* Mutant of zAtLeast: a deviation to either side.
zAtLeastEitherSide(s, threshold) ==
  \/ Tenth * s.reports - s.mean >= threshold * StdDevFloor(s)
  \/ s.mean - Tenth * s.reports >= threshold * StdDevFloor(s)

\* z >= threshold, with the standard deviation raised to one report.
zAtLeast(s, threshold) == Tenth * s.reports - s.mean >= threshold * StdDevFloor(s)

\* Cold start: many reports.  Then: far above the baseline, and not just a few.
hasUserReportOutage(s) ==
  IF s.weeks < minBaselineWeeks THEN s.reports >= coldStartReportThreshold
  ELSE zAtLeast(s, reportZScoreThreshold) /\ s.reports >= minAbsoluteReports

\* Mutant of hasReportSupportAnomaly: also without a mature baseline, and with a
\* mean that counts as reached.
hasReportSupportAnomalyEager(s) == Tenth * s.reports >= s.mean

hasReportSupportAnomaly(s) ==
  /\ s.weeks >= minBaselineWeeks
  /\ zAtLeast(s, reportSupportZScoreThreshold)
  /\ Tenth * s.reports > s.mean

\* The baseline's rate plus 0.4, between 0.6 and 0.95.
mature(rate) ==
  IF rate + 24 < 36 THEN 36 ELSE IF rate + 24 > 57 THEN 57 ELSE rate + 24

\* In float64 the sum of rate and 0.4 lies above the ratio it should equal at two
\* rates: 1/5 (0.2 + 0.4 > 3.0/5.0) and 4/15 (4.0/15.0 + 0.4 > 2.0/3.0).
SumRoundsUp == {12, 16}

hasProbeProblem(s) ==
  LET rate == Whole * s.failures
      bar  == IF s.samples < minProbeBaselineSamples THEN probeFailRateThreshold
              ELSE mature(s.rate)
  IN  /\ s.total >= minProbeSamples
      /\ IF s.samples >= minProbeBaselineSamples /\ s.rate \in SumRoundsUp
         THEN rate > bar * s.total
         ELSE rate >= bar * s.total

DetermineStatus(s) ==
  IF hasUserReportOutage(s) THEN "Outage"
  ELSE IF ~hasProbeProblem(s) THEN "Operational"
  ELSE IF hasReportSupportAnomaly(s) THEN "Outage" ELSE "Degraded"

Severity(status) ==
  CASE status = "Operational" -> 0 [] status = "Degraded" -> 1 [] status = "Outage" -> 2

-------------------------------------------------------------------------------
VARIABLE signals

TypeOK == signals \in Signals /\ signals.failures <= signals.total

Init == signals \in {s \in Signals : s.failures <= s.total}

\* A user reports, or a report leaves the window.
OneMoreReport ==
  /\ signals.reports < MaxReports
  /\ signals' = [signals EXCEPT !.reports = @ + 1]
OneReportLess ==
  /\ signals.reports > 0
  /\ signals' = [signals EXCEPT !.reports = @ - 1]

\* A probe result enters the window, and once it is full another one leaves it.
\* ok, gone: whether these were successes.
ProbeCompletes(ok, gone) ==
  LET full == signals.total = RecentProbeWindow
      left == IF full /\ ~gone THEN 1 ELSE 0
  IN
  /\ full => IF gone THEN signals.failures < signals.total ELSE signals.failures > 0
  /\ signals' = [signals EXCEPT !.total = IF full THEN @ ELSE @ + 1,
                                !.failures = @ - left + IF ok THEN 0 ELSE 1]

Next ==
  \/ OneMoreReport
  \/ OneReportLess
  \/ \E ok, gone \in BOOLEAN : ProbeCompletes(ok, gone)

Spec == Init /\ [][Next]_signals

-------------------------------------------------------------------------------
\* Nothing that gets worse makes a service look better: neither one report more, in
\* spite of the two report rules that decide at different thresholds, nor a failed probe
\* in the place of a successful one.
WorseNeverMilder ==
  [][OneMoreReport \/ (signals.total = RecentProbeWindow /\ ProbeCompletes(FALSE, TRUE))
       => Severity(DetermineStatus(signals')) >= Severity(DetermineStatus(signals))]_signals

\* "Probe failures alone do not produce Outage", and a service without history
\* needs coldStartReportThreshold reports.
OutageNeedsReports ==
  DetermineStatus(signals) = "Outage" =>
    /\ signals.reports > 0
    /\ signals.weeks < minBaselineWeeks => signals.reports >= coldStartReportThreshold

\* The rule that decides alone is the stricter one: where it holds on a mature
\* baseline, the supporting rule holds too.
StrongImpliesSupport ==
  signals.weeks >= minBaselineWeeks /\ hasUserReportOutage(signals)
    => hasReportSupportAnomaly(signals)
===============================================================================
