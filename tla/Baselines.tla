------------------------------- MODULE Baselines -------------------------------
(***************************************************************************)
(* The history of one service: its reports and hourly probe rollups, and   *)
(* the table service_baselines that RefreshAllBaselines makes of them, one *)
(* row per hour of the week, for the status decision to compare with.      *)
(*                                                                         *)
(* Time is counted in quarters of an hour from a Sunday's midnight, UTC    *)
(* (also the session's time zone).  Days and weeks have any length, six    *)
(* months too.  A report or a probe result is dated before its row is      *)
(* committed, and a refresh reads after it took the time: each may be Lag  *)
(* behind the clock.  An active service is refreshed at any time or not;   *)
(* an inactive one, a failed or a late cycle is a refresh not taken.       *)
(* Standard deviations come of the same counts as means and are left out,  *)
(* latencies too.                                                          *)
(***************************************************************************)
EXTENDS Integers, Sequences, FiniteSets

CONSTANTS
  HoursPerDay, DaysPerWeek,
  SixMonths,    \* the longest lookback
  Lag,          \* bound: how late a commit or a read can be
  MaxTime,      \* bound: the clock
  MaxReports,   \* bound: reports
  MaxProbes     \* bound: probe results

HalfHour == 2
Hour == 4
Day == Hour * HoursPerDay
Week == Day * DaysPerWeek

\* The zero time.Time.
LongAgo == -10 * SixMonths

ASSUME BaselinesAssumption ==
  /\ {HoursPerDay, DaysPerWeek, SixMonths} \subseteq Nat \ {0}
  /\ SixMonths % HalfHour = 0
  /\ Week <= SixMonths
  /\ {Lag, MaxTime, MaxReports, MaxProbes} \subseteq Nat

VARIABLES
  now,
  created,    \* services.created_at
  reports,    \* user_reports: their dates, with a number to tell those of one date apart
  rollups,    \* probe_hourly_rollups, by bucket_start
  baselines   \* service_baselines, by hour of the week

history == <<now, created, reports, rollups, baselines>>

Time == 0..MaxTime
HoursOfWeek == 0..HoursPerDay * DaysPerWeek - 1
Rollup == [total : Nat, failures : Nat]
\* mean_reports is kept as reports over windows, probe_failure_rate as failures over probes.
ServiceBaseline == [reports : Nat, windows : Nat, sampleCount : Nat, probes : Nat, failures : Nat]

HistoryTypeOK ==
  /\ now \in Time
  /\ created \in Time \cup {LongAgo}
  /\ reports \subseteq Time \X (1..MaxReports)
  /\ DOMAIN rollups \subseteq Time /\ \A b \in DOMAIN rollups : rollups[b] \in Rollup
  /\ DOMAIN baselines \subseteq HoursOfWeek
  /\ \A h \in DOMAIN baselines :
       baselines[h] \in ServiceBaseline /\ baselines[h].failures <= baselines[h].probes

\* The service is created, somewhere in its first hour.
HistoryInit ==
  /\ now \in {t \in Time : t < Hour}
  /\ created = now
  /\ reports = {}
  /\ rollups = <<>>
  /\ baselines = <<>>

floorToHalfHour(t) == t - (t % HalfHour)
floorToHour(t) == t - (t % Hour)
ceilToHour(t) == floorToHour(t + Hour - 1)
hourOfWeek(t) == (t \div Hour) % (HoursPerDay * DaysPerWeek)
\* DATE_TRUNC('week'): weeks begin a day later than in hourOfWeek.
WeekOf(t) == (t - Day) \div Week

Recently == {t \in Time : t <= now /\ now - t <= Lag}

\* The sum of small counts over a set (a fold of many elements is slow to evaluate).
Total(count(_), set) ==
  Cardinality({p \in set \X (1..2 * (MaxReports + MaxProbes)) : p[2] <= count(p[1])})

\* Reports dated from one time up to, and not at, another.
ReportsWithin(from, to) == Cardinality({r \in reports : from <= r[1] /\ r[1] < to})

\* CreateUserReport
CreateUserReport(t) ==
  /\ t \in Recently
  /\ t >= created
  /\ Cardinality(reports) < MaxReports
  /\ reports' = reports \cup {<<t, ReportsWithin(t, t + 1) + 1>>}
  /\ UNCHANGED <<now, created, rollups, baselines>>

\* Mutant of Counted: the total is that of the inserted row.
CountedAlone(old, success) ==
  [total |-> 1, failures |-> old.failures + IF success THEN 0 ELSE 1]

\* The counters with one result more.
Counted(old, success) ==
  [total |-> old.total + 1, failures |-> old.failures + IF success THEN 0 ELSE 1]

upsertProbeHourlyRollup(checkedAt, success) ==
  LET bucketStart == floorToHour(checkedAt)
      old == IF bucketStart \in DOMAIN rollups THEN rollups[bucketStart]
             ELSE [total |-> 0, failures |-> 0]
  IN
  /\ checkedAt \in Recently
  /\ checkedAt >= created
  /\ Total(LAMBDA b : rollups[b].total, DOMAIN rollups) < MaxProbes
  /\ rollups' = [b \in DOMAIN rollups \cup {bucketStart} |->
                   IF b = bucketStart THEN Counted(old, success) ELSE rollups[b]]
  /\ UNCHANGED <<now, created, reports, baselines>>

\* UpdateService from the terminal: the form has no created_at, and saves it as zero.
UpdateService ==
  /\ created' = LongAgo
  /\ UNCHANGED <<now, reports, rollups, baselines>>

Tick ==
  /\ now < MaxTime
  /\ now' = now + 1
  /\ UNCHANGED <<created, reports, rollups, baselines>>

-------------------------------------------------------------------------------
(* refreshServiceBaselines, at the time `at` that its cycle took. *)

End(at) == floorToHalfHour(at)

Start(at) == IF created < End(at) - SixMonths THEN End(at) - SixMonths
             ELSE floorToHalfHour(created)

\* generate_series: the half hours from Start to the one that begins at End.
Windows(at) ==
  LET start == Start(at) IN {w \in start..End(at) : (w - start) % HalfHour = 0}

\* Mutant of InWindow: a report on the border is in two windows.
InWindowOrEnd(report, w) == w <= report[1] /\ report[1] <= w + HalfHour

\* The join of user_reports and windows.
InWindow(report, w) == w <= report[1] /\ report[1] < w + HalfHour

\* The rollups of hours that are over and lie in the lookback.
FinishedHours(at) ==
  LET from == ceilToHour(Start(at))
  IN  {b \in DOMAIN rollups : b >= from /\ b + Hour <= End(at)}

\* Mutant of SampleCount: windows are counted, not weeks.
SampleCountOfWindows(windows) == Cardinality(windows)

SampleCount(windows) == Cardinality({WeekOf(w) : w \in windows})

Row(at, h) ==
  LET windows == {w \in Windows(at) : hourOfWeek(w) = h}
      hours == {b \in FinishedHours(at) : hourOfWeek(b) = h}
  IN  [reports |-> Cardinality({j \in reports \X windows : InWindow(j[1], j[2])}),
       windows |-> Cardinality(windows),
       sampleCount |-> SampleCount(windows),
       probes |-> Total(LAMBDA b : rollups[b].total, hours),
       failures |-> Total(LAMBDA b : rollups[b].failures, hours)]

HoursSeen(at) == {hourOfWeek(w) : w \in Windows(at)}

\* The rows of the hours seen are written over those there are; none is deleted.
RefreshAllBaselines(at) ==
  LET seen == HoursSeen(at) IN
  /\ at \in Recently
  /\ Start(at) <= End(at)
  /\ UNCHANGED <<now, created, reports, rollups>>
  /\ baselines' = [h \in DOMAIN baselines \cup seen |->
                     IF h \in seen THEN Row(at, h) ELSE baselines[h]]

-------------------------------------------------------------------------------
\* A refresh that changes the table.
Refreshes(at) == baselines' # baselines /\ RefreshAllBaselines(at)

\* Every report of the lookback, the running half hour included, is in the mean of one
\* hour of the week, and every probe result of a finished hour in one failure rate:
\* windows neither overlap nor leave gaps, and no rollup is without a report bucket to
\* be merged into.  And no row outlives the lookback it was made of, although nothing
\* deletes rows: each refresh writes every row there is (but one that is overtaken by
\* another worker's, and a half hour late, leaves that one's newest row).
RefreshIsComplete ==
  [][\A at \in Recently : Refreshes(at) =>
       /\ Total(LAMBDA h : baselines'[h].reports, HoursSeen(at))
            = ReportsWithin(Start(at), End(at) + HalfHour)
       /\ Total(LAMBDA h : baselines'[h].probes, HoursSeen(at))
            = Total(LAMBDA b : rollups[b].total, FinishedHours(at))
       /\ End(at) = End(now) => DOMAIN baselines \subseteq HoursSeen(at)]_history

\* A row has n weekly samples when the service is n - 1 weeks old, or in the hour before,
\* and no earlier, unless its created_at was lost.
MaturesWithAge ==
  created # LongAgo =>
    \A h \in DOMAIN baselines :
      (baselines[h].sampleCount - 1) * Week < now - created + Hour
===============================================================================
