----------------------------- MODULE StatusProofs -----------------------------
(* What DetermineStatus guarantees for every report count and every baseline. *)
EXTENDS StatusAlgorithm, TLAPS

USE DEF minBaselineWeeks, minProbeBaselineSamples, coldStartReportThreshold,
        minAbsoluteReports, reportZScoreThreshold, minProbeSamples,
        probeFailRateThreshold, reportSupportZScoreThreshold, Tenth, Whole,
        RecentProbeWindow

\* The fields of signals are integers.
LEMMA SignalTypes ==
  ASSUME NEW s \in Signals
  PROVE  /\ s.reports \in Nat /\ s.mean \in Nat /\ s.stdDev \in Nat /\ s.weeks \in Nat
         /\ s.total \in Nat /\ s.failures \in Nat /\ s.rate \in 0..60 /\ s.samples \in Nat
<1>1. /\ s.reports \in 0..MaxReports /\ s.mean \in Means /\ s.stdDev \in StdDevs
      /\ s.weeks \in Weeks /\ s.total \in 0..5 /\ s.failures \in 0..5
      /\ s.rate \in Rates /\ s.samples \in Samples
  BY DEF Signals
<1>2. /\ MaxReports \in Nat /\ Means \subseteq Nat /\ StdDevs \subseteq Nat
      /\ Weeks \subseteq Nat /\ Rates \subseteq 0..60 /\ Samples \subseteq Nat
  BY StatusAssumption
<1>3. s.reports \in Nat /\ s.total \in Nat /\ s.failures \in Nat
  BY <1>1, <1>2
<1>4. QED
  BY <1>1, <1>2, <1>3

\* Both report rules are monotone in the reports.
LEMMA ReportRulesMonotone ==
  ASSUME NEW s \in Signals, NEW t \in Signals,
         t.reports >= s.reports, t.mean = s.mean, t.stdDev = s.stdDev, t.weeks = s.weeks
  PROVE  /\ hasUserReportOutage(s) => hasUserReportOutage(t)
         /\ hasReportSupportAnomaly(s) => hasReportSupportAnomaly(t)
BY SignalTypes DEF hasUserReportOutage, hasReportSupportAnomaly, zAtLeast, StdDevFloor

\* With the window full, the probe rule is monotone in the failures.
LEMMA ProbeRuleMonotone ==
  ASSUME NEW s \in Signals, NEW t \in Signals,
         s.total = RecentProbeWindow, t.total = RecentProbeWindow,
         t.failures >= s.failures, t.rate = s.rate, t.samples = s.samples
  PROVE  hasProbeProblem(s) => hasProbeProblem(t)
BY SignalTypes DEF hasProbeProblem, mature, SumRoundsUp

\* Severity of the status, rule by rule.
LEMMA SeverityMonotone ==
  ASSUME NEW s, NEW t,
         hasUserReportOutage(s) => hasUserReportOutage(t),
         hasReportSupportAnomaly(s) => hasReportSupportAnomaly(t),
         hasProbeProblem(s) => hasProbeProblem(t)
  PROVE  Severity(DetermineStatus(t)) >= Severity(DetermineStatus(s))
BY DEF Severity, DetermineStatus

\* A strong report anomaly is a supporting one.
LEMMA StrongIsSupport ==
  ASSUME NEW s \in Signals, s.weeks >= minBaselineWeeks, hasUserReportOutage(s)
  PROVE  hasReportSupportAnomaly(s)
BY SignalTypes DEF hasUserReportOutage, hasReportSupportAnomaly, zAtLeast, StdDevFloor

\* An outage needs reports, and many of them when there is no history.
LEMMA OutageReports ==
  ASSUME NEW s \in Signals, DetermineStatus(s) = "Outage"
  PROVE  /\ s.reports > 0
         /\ s.weeks < minBaselineWeeks => s.reports >= coldStartReportThreshold
<1>1. hasUserReportOutage(s) \/ hasReportSupportAnomaly(s)
  BY DEF DetermineStatus
<1>2. s.weeks < minBaselineWeeks => hasUserReportOutage(s)
  BY <1>1, SignalTypes DEF hasReportSupportAnomaly
<1>3. QED
  BY <1>1, <1>2, SignalTypes DEF hasUserReportOutage, hasReportSupportAnomaly

-------------------------------------------------------------------------------
\* The signals are always those of a window of reports and of five probes.
THEOREM TypeCorrect == Spec => []TypeOK
<1>1. Init => TypeOK
  BY DEF Init, TypeOK
<1>2. TypeOK /\ [Next]_signals => TypeOK'
  <2> SUFFICES ASSUME TypeOK, [Next]_signals
               PROVE  TypeOK'
    OBVIOUS
  <2> USE DEF TypeOK
  <2>1. CASE OneMoreReport
    BY <2>1, StatusAssumption DEF OneMoreReport, Signals
  <2>2. CASE OneReportLess
    BY <2>2, StatusAssumption DEF OneReportLess, Signals
  <2>3. ASSUME NEW ok \in BOOLEAN, NEW gone \in BOOLEAN, ProbeCompletes(ok, gone)
        PROVE  TypeOK'
    <3>1. signals.total \in 0..RecentProbeWindow /\ signals.failures \in 0..signals.total
      BY DEF Signals
    <3> DEFINE full == signals.total = RecentProbeWindow
               total == IF full THEN signals.total ELSE signals.total + 1
               left == IF full /\ ~gone THEN 1 ELSE 0
               failures == signals.failures - left + IF ok THEN 0 ELSE 1
    <3>2. signals' = [signals EXCEPT !.total = total, !.failures = failures]
      BY <2>3 DEF ProbeCompletes
    <3>3. total \in 0..RecentProbeWindow /\ failures \in 0..total
      BY <2>3, <3>1 DEF ProbeCompletes
    <3>4. total \in 0..5 /\ failures \in 0..5 /\ failures <= total
      BY <3>3
    <3> HIDE DEF total, failures
    <3>5. signals' \in Signals
      BY <3>2, <3>4 DEF Signals
    <3>6. signals'.failures = failures /\ signals'.total = total
      BY <3>2 DEF Signals
    <3>7. QED
      BY <3>4, <3>5, <3>6
  <2>4. CASE UNCHANGED signals
    BY <2>4
  <2>5. QED
    BY <2>1, <2>2, <2>3, <2>4 DEF Next
<1>3. QED
  BY <1>1, <1>2, PTL DEF Spec

\* Neither one report more nor a failure that takes the place of a success makes the
\* status milder.
THEOREM WorseIsNotMilder == Spec => WorseNeverMilder
<1> DEFINE Worse == \/ OneMoreReport
                    \/ signals.total = RecentProbeWindow /\ ProbeCompletes(FALSE, TRUE)
<1>1. TypeOK /\ TypeOK' /\ Worse
        => Severity(DetermineStatus(signals')) >= Severity(DetermineStatus(signals))
  <2> SUFFICES ASSUME TypeOK, TypeOK', Worse
               PROVE  Severity(DetermineStatus(signals')) >= Severity(DetermineStatus(signals))
    OBVIOUS
  <2>1. signals \in Signals /\ signals' \in Signals
    BY DEF TypeOK
  <2>2. /\ signals'.mean = signals.mean /\ signals'.stdDev = signals.stdDev
        /\ signals'.weeks = signals.weeks /\ signals'.rate = signals.rate
        /\ signals'.samples = signals.samples
    BY <2>1 DEF OneMoreReport, ProbeCompletes, Signals
  <2>3. CASE OneMoreReport
    <3>1. /\ signals'.reports >= signals.reports
          /\ signals'.total = signals.total /\ signals'.failures = signals.failures
      BY <2>1, <2>3, SignalTypes DEF OneMoreReport, Signals
    <3>2. hasProbeProblem(signals) => hasProbeProblem(signals')
      BY <2>2, <3>1 DEF hasProbeProblem
    <3>3. QED
      BY <2>1, <2>2, <3>1, <3>2, ReportRulesMonotone, SeverityMonotone
  <2>4. CASE signals.total = RecentProbeWindow /\ ProbeCompletes(FALSE, TRUE)
    <3>1. /\ signals'.reports = signals.reports /\ signals'.total = signals.total
          /\ signals'.failures >= signals.failures
      BY <2>1, <2>4, SignalTypes DEF ProbeCompletes, Signals
    <3>2. hasProbeProblem(signals) => hasProbeProblem(signals')
      BY <2>1, <2>2, <2>4, <3>1, ProbeRuleMonotone
    <3>3. signals'.reports >= signals.reports
      BY <2>1, <3>1, SignalTypes
    <3>4. QED
      BY <2>1, <2>2, <3>2, <3>3, ReportRulesMonotone, SeverityMonotone
  <2>5. QED
    BY <2>3, <2>4
<1>2. QED
  BY <1>1, TypeCorrect, PTL DEF WorseNeverMilder

\* Probes alone never give an outage; without history, few reports neither.
THEOREM OutagesNeedReports == Spec => []OutageNeedsReports
<1>1. TypeOK => OutageNeedsReports
  BY OutageReports DEF TypeOK, OutageNeedsReports
<1>2. QED
  BY <1>1, TypeCorrect, PTL

\* The rule that decides alone is the stricter one.
THEOREM StrongRuleIsStricter == Spec => []StrongImpliesSupport
<1>1. TypeOK => StrongImpliesSupport
  BY StrongIsSupport DEF TypeOK, StrongImpliesSupport
<1>2. QED
  BY <1>1, TypeCorrect, PTL
===============================================================================
