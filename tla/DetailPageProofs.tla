--------------------------- MODULE DetailPageProofs ---------------------------
(***************************************************************************)
(* Theorems about DetailPage and Baselines, for any lengths of days, weeks *)
(* and lookback, bars, window and timeline, and for any bounds.            *)
(***************************************************************************)
EXTENDS DetailPage, FiniteSetTheorems, TLAPS

-------------------------------------------------------------------------------
(* Lemmas about times: every border is a multiple of a length. *)

\* The quotient of a time by a length, before the epoch too.
LEMMA Quotient ==
  ASSUME NEW d \in Nat \ {0}, NEW t \in Int
  PROVE  /\ t \div d \in Int
         /\ d * (t \div d) \in Int
         /\ d * (t \div d) <= t
         /\ t < d * (t \div d) + d
<1> DEFINE q == t \div d
           r == t % d
<1>1. q \in Int /\ r \in Nat /\ r < d /\ t = d * q + r
  BY SMT
<1>2. d * q \in Int
  BY <1>1, SMT
<1> HIDE DEF q, r
<1> QED  BY <1>1, <1>2, SMT DEF q

LEMMA TimesIsMonotone ==
  ASSUME NEW d \in Nat \ {0}, NEW a \in Int, NEW b \in Int, a <= b
  PROVE  d * a \in Int /\ d * b \in Int /\ d * a <= d * b
<1>1. b - a \in Nat
  OBVIOUS
<1>2. d * (b - a) \in Nat
  BY <1>1, SMT
<1>3. d * (b - a) = d * b - d * a
  BY SMT
<1>4. d * a \in Int /\ d * b \in Int
  BY SMT
<1> QED  BY <1>2, <1>3, <1>4, SMT

\* A quotient is at least what fits in.
LEMMA QuotientAtLeast ==
  ASSUME NEW d \in Nat \ {0}, NEW t \in Int, NEW q \in Int, d * q <= t
  PROVE  q <= t \div d
<1>1. SUFFICES ASSUME t \div d < q  PROVE FALSE
  BY Quotient
<1>2. t \div d \in Int /\ t < d * (t \div d) + d /\ d * (t \div d) \in Int
  BY Quotient
<1>3. d * (t \div d + 1) <= d * q /\ d * (t \div d + 1) = d * (t \div d) + d
  <2>1. t \div d + 1 \in Int /\ t \div d + 1 <= q
    BY <1>1, <1>2
  <2>2. d * (t \div d + 1) = d * (t \div d) + d
    BY <1>2, SMT
  <2> QED  BY <2>1, <2>2, TimesIsMonotone
<1>4. d * q \in Int
  BY SMT
<1> QED  BY <1>2, <1>3, <1>4

LEMMA QuotientIsMonotone ==
  ASSUME NEW d \in Nat \ {0}, NEW t \in Int, NEW u \in Int, t <= u
  PROVE  t \div d <= u \div d
<1>1. t \div d \in Int /\ d * (t \div d) \in Int /\ d * (t \div d) <= t
  BY Quotient
<1> QED  BY <1>1, QuotientAtLeast

\* The quotient is the one multiple that a time lies in.
LEMMA QuotientIs ==
  ASSUME NEW d \in Nat \ {0}, NEW t \in Int, NEW q \in Int, d * q <= t, t < d * q + d
  PROVE  t \div d = q
<1>1. q <= t \div d /\ t \div d \in Int
  BY QuotientAtLeast, Quotient
<1>2. SUFFICES ASSUME q + 1 <= t \div d  PROVE FALSE
  BY <1>1
<1>3. d * (q + 1) <= d * (t \div d) /\ d * (q + 1) = d * q + d
  BY <1>1, <1>2, TimesIsMonotone, SMT
<1>4. d * (t \div d) <= t /\ d * (t \div d) \in Int /\ d * q \in Int
  BY Quotient, SMT
<1> QED  BY <1>3, <1>4

\* Half hours, days and weeks.
LEMMA Lengths ==
  /\ HoursPerDay \in Nat \ {0} /\ DaysPerWeek \in Nat \ {0} /\ SixMonths \in Nat \ {0}
  /\ Lag \in Nat /\ MaxTime \in Nat /\ MaxReports \in Nat /\ MaxProbes \in Nat
  /\ HoursPerDay * DaysPerWeek \in Nat \ {0}
  /\ Day \in Nat \ {0} /\ Day = 4 * HoursPerDay
  /\ Week \in Nat \ {0} /\ Week = 4 * (HoursPerDay * DaysPerWeek)
  /\ LongAgo \in Int /\ LongAgo < 0
<1>1. /\ HoursPerDay \in Nat \ {0} /\ DaysPerWeek \in Nat \ {0} /\ SixMonths \in Nat \ {0}
      /\ Lag \in Nat /\ MaxTime \in Nat /\ MaxReports \in Nat /\ MaxProbes \in Nat
  BY BaselinesAssumption
<1>2. HoursPerDay * DaysPerWeek \in Nat \ {0}
  BY <1>1, SMT
<1>3. Day = 4 * HoursPerDay /\ Day \in Nat \ {0}
  BY <1>1 DEF Day, Hour
<1>4. Week = 4 * (HoursPerDay * DaysPerWeek)
  <2>1. (4 * HoursPerDay) * DaysPerWeek = 4 * (HoursPerDay * DaysPerWeek)
    BY <1>1, SMT
  <2> QED  BY <1>3, <2>1 DEF Week
<1>5. LongAgo \in Int /\ LongAgo < 0
  BY <1>1 DEF LongAgo
<1> QED  BY <1>1, <1>2, <1>3, <1>4, <1>5

LEMMA DayFact ==
  ASSUME NEW t \in Int
  PROVE  DayOf(t) \in Int /\ Day * DayOf(t) \in Int /\ Day * DayOf(t) <= t /\ t < Day * DayOf(t) + Day
BY Lengths, Quotient DEF DayOf

LEMMA DaysAreOrdered ==
  ASSUME NEW t \in Int, NEW u \in Int, t <= u
  PROVE  DayOf(t) <= DayOf(u)
BY Lengths, QuotientIsMonotone DEF DayOf

\* A time that is at most a day later is of the same day or the next.
LEMMA NextDay ==
  ASSUME NEW t \in Int, NEW u \in Int, u <= t + Day
  PROVE  DayOf(u) <= DayOf(t) + 1
<1>1. t + Day \in Int /\ DayOf(u) <= DayOf(t + Day)
  BY Lengths, DaysAreOrdered
<1>2. Day * (DayOf(t) + 1) = Day * DayOf(t) + Day
  BY Lengths, DayFact, SMT
<1>3. DayOf(t + Day) = DayOf(t) + 1
  <2>1. DayOf(t) + 1 \in Int /\ Day \in Nat \ {0}
    BY DayFact, Lengths
  <2>2. Day * (DayOf(t) + 1) <= t + Day /\ t + Day < Day * (DayOf(t) + 1) + Day
    BY <1>2, DayFact, Lengths
  <2> QED  BY <1>1, <2>1, <2>2, QuotientIs DEF DayOf
<1> QED  BY <1>1, <1>3

\* A half hour that begins on the half hour lies within a day.
LEMMA HalfHourInDay ==
  ASSUME NEW v \in Int, NEW t \in Int, 2 * v <= t, t < 2 * v + HalfHour
  PROVE  DayOf(t) = DayOf(2 * v)
<1> DEFINE q == DayOf(2 * v)
           m == HoursPerDay * q
<1>1. 2 * v \in Int /\ q \in Int /\ Day * q <= 2 * v /\ 2 * v < Day * q + Day
  BY DayFact
<1>2. m \in Int /\ Day * q = 4 * m
  <2>1. (4 * HoursPerDay) * q = 4 * (HoursPerDay * q)
    BY <1>1, Lengths, SMT
  <2> QED  BY <1>1, <2>1, Lengths
<1> HIDE DEF q, m
<1>3. Day * q <= t /\ t < Day * q + Day
  BY <1>1, <1>2, Lengths DEF HalfHour
<1> QED  BY <1>1, <1>3, Lengths, QuotientIs DEF q, DayOf

-------------------------------------------------------------------------------
(* The baselines: a row's weekly samples. *)

\* Windows of one hour of the week: how far apart their weeks are, they are themselves.
LEMMA WeekOfHour ==
  ASSUME NEW h \in Int, NEW e \in 0..3, NEW q \in Int, NEW r \in Int,
         h = (HoursPerDay * DaysPerWeek) * q + r
  PROVE  WeekOf(4 * h + e) = q + ((r - HoursPerDay) \div (HoursPerDay * DaysPerWeek))
<1> DEFINE P == HoursPerDay * DaysPerWeek
           s == (r - HoursPerDay) \div P
<1>1. P \in Nat \ {0} /\ HoursPerDay \in Nat /\ Week = 4 * P /\ Day = 4 * HoursPerDay
        /\ Week \in Nat \ {0}
  BY Lengths
<1> HIDE DEF P
<1>2. s \in Int /\ P * s \in Int /\ P * s <= r - HoursPerDay /\ r - HoursPerDay < P * s + P
  BY <1>1, Quotient
<1> HIDE DEF s
<1>3. h = P * q + r /\ P * q \in Int
  BY <1>1, SMT DEF P
<1>4. Week * (q + s) = 4 * (P * q) + 4 * (P * s)
  BY <1>1, <1>2, SMT
<1> DEFINE t == (4 * h + e) - Day
           m == P * q
           n == P * s
           k == q + s
           l == Week * k
<1>5. /\ h = m + r /\ m \in Int /\ n \in Int /\ l = 4 * m + 4 * n
      /\ n <= r - HoursPerDay /\ r - HoursPerDay < n + P
  BY <1>2, <1>3, <1>4
<1> HIDE DEF m, n, l
<1>6. t \in Int /\ l <= t /\ t < l + Week
  BY <1>1, <1>5
<1>7. k \in Int /\ Week * k <= t /\ t < Week * k + Week
  BY <1>2, <1>6 DEF l
<1>8. WeekOf(4 * h + e) = t \div Week
  BY DEF WeekOf
<1> HIDE DEF t, k
<1>9. WeekOf(4 * h + e) = k
  BY <1>1, <1>6, <1>7, <1>8, QuotientIs
<1> QED  BY <1>9 DEF k, s, P

LEMMA IntervalCardinality ==
  ASSUME NEW a \in Int, NEW b \in Int
  PROVE  IsFiniteSet(a..b) /\ Cardinality(a..b) = IF a > b THEN 0 ELSE b - a + 1
BY FS_Interval

\* A set of windows of one hour of the week has no more weeks than their span allows.
LEMMA WeeklySamples ==
  ASSUME NEW from \in Int, NEW to \in Int, NEW h \in Int,
         NEW windows \in SUBSET (from..to), from <= to + Hour,
         \A w \in windows : w % HalfHour = 0 /\ hourOfWeek(w) = h
  PROVE  /\ IsFiniteSet({WeekOf(w) : w \in windows})
         /\ Cardinality({WeekOf(w) : w \in windows}) \in Nat
         /\ (Cardinality({WeekOf(w) : w \in windows}) - 1) * Week <= to - from + HalfHour
<1> DEFINE P == HoursPerDay * DaysPerWeek
           weeks == {WeekOf(w) : w \in windows}
           s == (h - HoursPerDay) \div P
           low == from - HalfHour - 4 * h - 1
           high == to - 4 * h
           c == low \div Week
           a == c + 1
           b == high \div Week
<1>1. P \in Nat \ {0} /\ HoursPerDay \in Nat /\ Week = 4 * P /\ Week \in Nat \ {0}
  BY Lengths
<1>2. low \in Int /\ high \in Int
  BY DEF HalfHour
<1> HIDE DEF low, high
<1>3. /\ c \in Int /\ Week * c \in Int /\ Week * c <= low /\ low < Week * c + Week
      /\ b \in Int /\ Week * b \in Int /\ Week * b <= high
  BY <1>1, <1>2, Quotient
<1> HIDE DEF c, b
<1>4. s \in Int
  BY <1>1, Quotient
<1> HIDE DEF s
<1>5. weeks \in SUBSET (a + s .. b + s)
  <2> SUFFICES ASSUME NEW w \in windows  PROVE WeekOf(w) \in a + s .. b + s
    OBVIOUS
  <2> DEFINE j == w \div 4
             q == j \div P
             e == w % 4
  <2>1. w \in Int /\ from <= w /\ w <= to /\ w % 2 = 0
    BY DEF HalfHour
  <2>2. j \in Int /\ e \in 0..3 /\ w = 4 * j + e
    BY <2>1
  <2>3. e <= 2
    BY <2>1, <2>2
  <2>4. q \in Int /\ P * q \in Int /\ j = P * q + (j % P)
    <3> HIDE DEF j, P
    <3> QED  BY <1>1, <2>2, SMT
  <2>5. j % P = h
    BY DEF hourOfWeek, Hour
  <2> HIDE DEF j, q, e
  <2>6. WeekOf(w) = q + s
    <3>1. j = P * q + h
      BY <2>4, <2>5
    <3>2. WeekOf(4 * j + e) = q + ((h - HoursPerDay) \div P)
      BY <2>2, <2>4, <3>1, WeekOfHour
    <3> QED  BY <2>2, <3>2 DEF s
  <2> HIDE DEF P
  <2>7. w = 4 * (P * q) + 4 * h + e
    BY <2>2, <2>4, <2>5
  <2>8. Week * q \in Int /\ Week * q = 4 * (P * q)
    BY <1>1, <2>4, SMT
  <2>9. Week * q <= high
    BY <2>1, <2>2, <2>7, <2>8, <2>4 DEF high
  <2>10. q <= b
    <3>1. q <= high \div Week
      BY <1>1, <1>2, <2>4, <2>9, QuotientAtLeast
    <3> QED  BY <3>1 DEF b
  <2>11. low < Week * q
    BY <2>1, <2>2, <2>3, <2>7, <2>8, <2>4 DEF HalfHour, low
  <2>12. c < q
    <3>1. SUFFICES ASSUME q <= c  PROVE FALSE
      BY <1>3, <2>4
    <3>2. Week * q <= Week * c
      BY <1>1, <1>3, <2>4, <3>1, TimesIsMonotone
    <3> QED  BY <1>2, <1>3, <2>8, <2>11, <3>2
  <2> QED  BY <1>3, <1>4, <2>4, <2>6, <2>10, <2>12
<1> HIDE DEF weeks
<1>6. /\ a + s \in Int /\ b + s \in Int
      /\ IsFiniteSet(a + s .. b + s)
      /\ Cardinality(a + s .. b + s) = IF a + s > b + s THEN 0 ELSE (b + s) - (a + s) + 1
  <2>1. a + s \in Int /\ b + s \in Int
    BY <1>3, <1>4
  <2> HIDE DEF a
  <2> QED  BY <2>1, IntervalCardinality
<1>7. /\ IsFiniteSet(weeks) /\ Cardinality(weeks) \in Nat
      /\ Cardinality(weeks) <= Cardinality(a + s .. b + s)
  BY <1>5, <1>6, FS_Subset, FS_CardinalityType
<1> DEFINE n == Cardinality(weeks)
<1>8. n \in Nat /\ (n = 0 \/ n <= b - c)
  BY <1>3, <1>4, <1>6, <1>7
<1> HIDE DEF n
<1>9. (n - 1) * Week <= to - from + HalfHour
  <2>1. CASE n = 0
    BY <1>1, <2>1 DEF HalfHour, Hour
  <2>2. CASE n <= b - c
    <3>1. Week * n <= Week * (b - c)
      BY <1>1, <1>3, <1>8, <2>2, TimesIsMonotone
    <3>2. Week * (b - c) = Week * b - Week * c
      BY <1>1, <1>3, SMT
    <3>3. (n - 1) * Week = Week * n - Week /\ Week * n \in Int
      BY <1>1, <1>8, SMT
    <3>4. low < high - Week * n + Week
      BY <1>1, <1>2, <1>3, <3>1, <3>2, <3>3
    <3> QED  BY <1>1, <3>3, <3>4 DEF HalfHour, low, high
  <2> QED  BY <1>8, <2>1, <2>2
<1> QED  BY <1>7, <1>9 DEF n, weeks

-------------------------------------------------------------------------------
(* The inductive invariants.                                               *)

\* The history: types, and that no rollup has more failures than results.
HistInv ==
  /\ HistoryTypeOK
  /\ \A b \in DOMAIN rollups : rollups[b].failures <= rollups[b].total

\* The incidents: none ends before it began.
LogInv ==
  /\ log \in [{Shown} -> Seq(Incidents!Incident)]
  /\ \A k \in DOMAIN incidents :
       incidents[k].resolved # Ongoing => incidents[k].started <= incidents[k].resolved

Phases == {"none", "bars", "incidents", "days", "timeline", "done"}
BarsRead == {"incidents", "days", "timeline", "done"}
DaysRead == {"timeline", "done"}

\* What has been read of a page by its phase.
Fields ==
  LET counts == {"days", "up", "outage", "elevated"}
  IN  [none |-> {"phase"},
       bars |-> {"phase", "at"},
       incidents |-> {"phase", "at", "bars"},
       days |-> {"phase", "at", "bars", "overlapping"},
       timeline |-> {"phase", "at", "bars", "overlapping"} \cup counts,
       done |-> {"phase", "at", "bars", "overlapping", "timeline"} \cup counts]

\* A page is asked for in the past, not longer than Lag ago.
AskedInv ==
  /\ page.phase \in Phases
  /\ DOMAIN page = Fields[page.phase]
  /\ page.phase = "none" => page = NoPage
  /\ page.phase # "none" => page.at \in Time /\ page.at <= now /\ now <= page.at + Lag

\* Reports of a bar are reports of its day, from when they are read on.
BarsInv ==
  page.phase \in BarsRead =>
    /\ DOMAIN page.bars = BarWindows(page.at)
    /\ \A w \in BarWindows(page.at) :
         page.bars[w] > 0 =>
           IF page.phase \in DaysRead THEN page.days[DayOf(w)] # "operational"
           ELSE DailyReports(DayOf(w)) > 0

\* The days that the incidents read for the bar of days cover, or have covered.
Covered ==
  IF page.phase = "days"
    THEN {day \in PageDays(page.at) : \E i \in page.overlapping : day \in IncidentDays(i, page.at)}
    ELSE {day \in PageDays(page.at) : page.days[day] = "outage"}

\* Every incident that began before the page's Lag, and reaches into its days, was read
\* with all its days there, whatever became of it since.
CoversInv ==
  page.phase \in {"days", "timeline"} =>
    \A k \in DOMAIN incidents :
      LET i == incidents[k] IN
      /\ i.started < page.at - Lag
      /\ i.resolved = Ongoing \/ DayOf(i.resolved) >= FirstDay(page.at)
      => IncidentDays(i, page.at) \cap PageDays(page.at) \subseteq Covered

\* What was read is still in the table, ended at most since the page's Lag.
StillListed ==
  page.phase = "days" =>
    \A i \in page.overlapping : \E k \in DOMAIN incidents :
      /\ incidents[k].started = i.started
      /\ \/ incidents[k].resolved = i.resolved
         \/ i.resolved = Ongoing /\ incidents[k].resolved >= page.at - Lag

\* Days that were shown are past and belong to an incident, and a page that has read
\* its incidents covers those that lie in its window.
ShownInv ==
  /\ \A day \in shown :
       /\ day \in Nat /\ day < DayOf(now)
       /\ page.phase # "none" => day < DayOf(page.at)
       /\ \E k \in DOMAIN incidents :
            /\ DayOf(incidents[k].started) <= day
            /\ incidents[k].resolved = Ongoing \/ day <= DayOf(incidents[k].resolved)
  /\ page.phase \in {"days", "timeline", "done"} => shown \cap PageDays(page.at) \subseteq Covered

\* The levels and the counts of a page.
LevelsInv ==
  page.phase \in DaysRead =>
    /\ page.days \in [PageDays(page.at) -> Level]
    /\ {page.up, page.outage, page.elevated} \subseteq 0..WindowDays
    /\ page.up <= WindowDays - page.outage
    /\ page.up >= WindowDays - page.outage - page.elevated

TimelineInv ==
  page.phase = "done" =>
    \A i \in page.timeline :
      i.started < page.at - Lag => IncidentDays(i, page.at) \cap PageDays(page.at) \subseteq Covered

PageInv ==
  /\ LogInv
  /\ AskedInv
  /\ BarsInv
  /\ CoversInv
  /\ StillListed
  /\ ShownInv
  /\ LevelsInv
  /\ TimelineInv

-------------------------------------------------------------------------------
(* Counting.                                                               *)

\* The history's sets are finite.
LEMMA HistoryIsFinite ==
  ASSUME HistoryTypeOK
  PROVE  IsFiniteSet(reports) /\ Cardinality(reports) \in Nat /\ IsFiniteSet(DOMAIN rollups)
<1>1. IsFiniteSet(Time) /\ IsFiniteSet(1..MaxReports)
  BY Lengths, IntervalCardinality DEF Time
<1>2. IsFiniteSet(Time \X (1..MaxReports))
  BY <1>1, FS_Product
<1>3. IsFiniteSet(reports)
  BY <1>2, FS_Subset DEF HistoryTypeOK
<1>4. IsFiniteSet(DOMAIN rollups)
  BY <1>1, FS_Subset DEF HistoryTypeOK
<1> QED  BY <1>3, <1>4, FS_CardinalityType

\* The number of reports within a time is that of some of the reports.
LEMMA WithinIsNat ==
  ASSUME HistoryTypeOK, NEW from, NEW to
  PROVE  /\ IsFiniteSet({r \in reports : from <= r[1] /\ r[1] < to})
         /\ ReportsWithin(from, to) \in Nat
         /\ ReportsWithin(from, to) <= Cardinality(reports)
<1> DEFINE some == {r \in reports : from <= r[1] /\ r[1] < to}
<1>1. IsFiniteSet(reports) /\ some \in SUBSET reports
  BY HistoryIsFinite
<1> HIDE DEF some
<1>2. IsFiniteSet(some) /\ Cardinality(some) \in Nat /\ Cardinality(some) <= Cardinality(reports)
  BY <1>1, FS_Subset, FS_CardinalityType
<1> QED  BY <1>2 DEF ReportsWithin, some

\* A report that lies within is counted.
LEMMA WithinIsPositive ==
  ASSUME HistoryTypeOK, NEW from, NEW to, NEW r \in reports, from <= r[1], r[1] < to
  PROVE  ReportsWithin(from, to) > 0
<1> DEFINE some == {e \in reports : from <= e[1] /\ e[1] < to}
<1>1. IsFiniteSet(some) /\ r \in some
  BY WithinIsNat
<1> HIDE DEF some
<1>2. Cardinality(some) \in Nat /\ Cardinality(some) # 0
  BY <1>1, FS_CardinalityType, FS_EmptySet
<1> QED  BY <1>2 DEF ReportsWithin, some

\* And where some are counted there is one.
LEMMA WithinHasReport ==
  ASSUME HistoryTypeOK, NEW from, NEW to, ReportsWithin(from, to) > 0
  PROVE  \E r \in reports : from <= r[1] /\ r[1] < to
<1>1. SUFFICES ASSUME {r \in reports : from <= r[1] /\ r[1] < to} = {}  PROVE FALSE
  OBVIOUS
<1>2. ReportsWithin(from, to) = 0
  BY <1>1, FS_EmptySet DEF ReportsWithin
<1> QED  BY <1>2

\* Sums over hours of the rollups: of failures no more than of results.
LEMMA TotalsOfRollups ==
  ASSUME HistInv, NEW hours \in SUBSET (DOMAIN rollups)
  PROVE  /\ Total(LAMBDA b : rollups[b].total, hours) \in Nat
         /\ Total(LAMBDA b : rollups[b].failures, hours) \in Nat
         /\ Total(LAMBDA b : rollups[b].failures, hours) <= Total(LAMBDA b : rollups[b].total, hours)
<1> DEFINE pairs == hours \X (1..2 * (MaxReports + MaxProbes))
           all == {p \in pairs : p[2] <= rollups[p[1]].total}
           failed == {p \in pairs : p[2] <= rollups[p[1]].failures}
<1>1. IsFiniteSet(pairs)
  <2>1. IsFiniteSet(hours)
    BY HistoryIsFinite, FS_Subset DEF HistInv
  <2>2. 2 * (MaxReports + MaxProbes) \in Int
    BY Lengths
  <2>3. IsFiniteSet(1..2 * (MaxReports + MaxProbes))
    BY <2>2, IntervalCardinality
  <2> QED  BY <2>1, <2>3, FS_Product
<1>2. failed \in SUBSET all
  <2> SUFFICES ASSUME NEW p \in pairs, p[2] <= rollups[p[1]].failures
               PROVE p[2] <= rollups[p[1]].total
    OBVIOUS
  <2>1. p[1] \in DOMAIN rollups /\ p[2] \in Int
    BY Lengths
  <2>2. rollups[p[1]] \in Rollup /\ rollups[p[1]].failures <= rollups[p[1]].total
    BY <2>1 DEF HistInv, HistoryTypeOK
  <2> QED  BY <2>1, <2>2 DEF Rollup
<1>3. all \in SUBSET pairs
  OBVIOUS
<1> HIDE DEF pairs
<1>4. IsFiniteSet(all) /\ Cardinality(all) \in Nat /\ IsFiniteSet(failed) /\ Cardinality(failed) \in Nat
        /\ Cardinality(failed) <= Cardinality(all)
  <2> HIDE DEF all, failed
  <2>1. IsFiniteSet(all)
    BY <1>1, <1>3, FS_Subset
  <2> QED  BY <1>2, <2>1, FS_Subset, FS_CardinalityType
<1>5. Total(LAMBDA b : rollups[b].total, hours) = Cardinality(all)
  BY DEF Total, pairs
<1>6. Total(LAMBDA b : rollups[b].failures, hours) = Cardinality(failed)
  BY DEF Total, pairs
<1> QED  BY <1>4, <1>5, <1>6

-------------------------------------------------------------------------------
(* Windows.                                                                *)

LEMMA HalfHours ==
  ASSUME NEW t \in Int
  PROVE  /\ floorToHalfHour(t) \in Int
         /\ floorToHalfHour(t) % 2 = 0
         /\ floorToHalfHour(t) <= t /\ t < floorToHalfHour(t) + 2
BY DEF floorToHalfHour, HalfHour

\* A refresh's windows begin on the half hour, and not before that of the creation.
LEMMA WindowsAreHalfHours ==
  ASSUME HistoryTypeOK, NEW at \in Time
  PROVE  /\ Start(at) \in Int /\ End(at) \in Int
         /\ End(at) <= at
         /\ created # LongAgo => Start(at) >= created - 1
         /\ IsFiniteSet(Windows(at)) /\ Windows(at) \in SUBSET (Start(at)..End(at))
         /\ \A w \in Windows(at) : w % HalfHour = 0
<1>1. at \in Int /\ created \in Int /\ SixMonths \in Nat /\ SixMonths % 2 = 0
  BY Lengths, BaselinesAssumption DEF HistoryTypeOK, Time, HalfHour
<1>2. End(at) \in Int /\ End(at) % 2 = 0 /\ End(at) <= at
  BY <1>1, HalfHours DEF End
<1>3. Start(at) \in Int /\ Start(at) % 2 = 0
  <2>1. CASE created < End(at) - SixMonths
    BY <1>1, <1>2, <2>1 DEF Start
  <2>2. CASE ~(created < End(at) - SixMonths)
    BY <1>1, <2>2, HalfHours DEF Start
  <2> QED  BY <2>1, <2>2
<1>4. Start(at) >= created - 1
  <2>1. CASE created < End(at) - SixMonths
    BY <1>1, <1>2, <2>1 DEF Start
  <2>2. CASE ~(created < End(at) - SixMonths)
    <3>1. floorToHalfHour(created) \in Int /\ created < floorToHalfHour(created) + 2
      BY <1>1, HalfHours
    <3> QED  BY <1>1, <2>2, <3>1 DEF Start
  <2> QED  BY <2>1, <2>2
<1>5. Windows(at) \in SUBSET (Start(at)..End(at))
  BY DEF Windows
<1>6. IsFiniteSet(Windows(at))
  BY <1>2, <1>3, <1>5, IntervalCardinality, FS_Subset
<1>7. \A w \in Windows(at) : w % HalfHour = 0
  BY <1>2, <1>3 DEF Windows, HalfHour
<1> QED  BY <1>2, <1>3, <1>4, <1>5, <1>6, <1>7

LEMMA HourOfWeekType ==
  ASSUME NEW w \in Int
  PROVE  hourOfWeek(w) \in HoursOfWeek
<1> DEFINE P == HoursPerDay * DaysPerWeek
           j == w \div 4
<1>1. P \in Nat \ {0} /\ j \in Int
  BY Lengths
<1> HIDE DEF P, j
<1>2. j % P \in Int /\ 0 <= j % P /\ j % P < P
  BY <1>1, SMT
<1>3. j % P \in 0..P - 1
  BY <1>1, <1>2
<1> QED  BY <1>3 DEF hourOfWeek, HoursOfWeek, P, j, Hour

\* The row of an hour of the week.
LEMMA RowTypes ==
  ASSUME HistInv, NEW at \in Time, at <= now, Start(at) <= End(at), NEW h \in Int
  PROVE  /\ Row(at, h) \in ServiceBaseline
         /\ Row(at, h).failures <= Row(at, h).probes
         /\ created # LongAgo => (Row(at, h).sampleCount - 1) * Week < now - created + Hour
<1> DEFINE windows == {w \in Windows(at) : hourOfWeek(w) = h}
           hours == {b \in FinishedHours(at) : hourOfWeek(b) = h}
           joined == {j \in reports \X windows : InWindow(j[1], j[2])}
           probes == Total(LAMBDA b : rollups[b].total, hours)
           failures == Total(LAMBDA b : rollups[b].failures, hours)
<1>1. HistoryTypeOK /\ now \in Int /\ created \in Int /\ at \in Int
  BY Lengths DEF HistInv, HistoryTypeOK, Time
<1>2. /\ Start(at) \in Int /\ End(at) \in Int /\ End(at) <= at
      /\ created # LongAgo => Start(at) >= created - 1
      /\ IsFiniteSet(windows) /\ windows \in SUBSET (Start(at)..End(at))
      /\ \A w \in windows : w % HalfHour = 0 /\ hourOfWeek(w) = h
  <2>1. windows \in SUBSET Windows(at)
    OBVIOUS
  <2> HIDE DEF windows
  <2>2. IsFiniteSet(windows)
    BY <1>1, <2>1, WindowsAreHalfHours, FS_Subset
  <2>3. \A w \in windows : hourOfWeek(w) = h
    BY DEF windows
  <2> QED  BY <1>1, <2>1, <2>2, <2>3, WindowsAreHalfHours
<1> HIDE DEF windows
<1>3. Cardinality(joined) \in Nat
  <2>1. IsFiniteSet(reports \X windows)
    BY <1>1, <1>2, HistoryIsFinite, FS_Product
  <2>2. joined \in SUBSET (reports \X windows)
    OBVIOUS
  <2> HIDE DEF joined
  <2> QED  BY <2>1, <2>2, FS_Subset, FS_CardinalityType
<1>4. Cardinality(windows) \in Nat
  BY <1>2, FS_CardinalityType
<1>5. /\ SampleCount(windows) \in Nat
      /\ (SampleCount(windows) - 1) * Week <= End(at) - Start(at) + HalfHour
  <2>1. Start(at) <= End(at) + Hour
    BY <1>2 DEF Hour
  <2> QED  BY <1>2, <2>1, WeeklySamples DEF SampleCount
<1>6. probes \in Nat /\ failures \in Nat /\ failures <= probes
  <2>1. hours \in SUBSET (DOMAIN rollups)
    BY DEF FinishedHours
  <2> HIDE DEF hours
  <2> QED  BY <2>1, TotalsOfRollups
<1>7. Row(at, h) = [reports |-> Cardinality(joined), windows |-> Cardinality(windows),
                    sampleCount |-> SampleCount(windows), probes |-> probes, failures |-> failures]
  BY DEF Row, windows
<1> HIDE DEF joined, probes, failures, hours
<1>8. Row(at, h) \in ServiceBaseline /\ Row(at, h).failures <= Row(at, h).probes
  BY <1>3, <1>4, <1>5, <1>6, <1>7 DEF ServiceBaseline
<1>9. ASSUME created # LongAgo
      PROVE  (Row(at, h).sampleCount - 1) * Week < now - created + Hour
  <2> DEFINE span == (SampleCount(windows) - 1) * Week
  <2>1. span \in Int /\ span <= End(at) - Start(at) + HalfHour
    <3>1. Week \in Int /\ SampleCount(windows) - 1 \in Int
      BY <1>5, Lengths
    <3> QED  BY <1>5, <3>1, SMT
  <2>2. (Row(at, h).sampleCount - 1) * Week = span
    BY <1>7
  <2> HIDE DEF span
  <2>3. span < now - created + Hour
    BY <1>1, <1>2, <1>9, <2>1 DEF HalfHour, Hour
  <2> QED  BY <2>2, <2>3
<1> QED  BY <1>8, <1>9

-------------------------------------------------------------------------------
(* The history keeps its types, and its rows mature with age.              *)

AgeInv == HistInv /\ MaturesWithAge

LEMMA AgeInit ==
  ASSUME Init
  PROVE  AgeInv
<1>1. now \in Time /\ created = now /\ reports = {} /\ rollups = <<>> /\ baselines = <<>>
  BY DEF Init, HistoryInit
<1>2. DOMAIN rollups = {} /\ DOMAIN baselines = {}
  BY <1>1
<1> QED  BY <1>1, <1>2 DEF AgeInv, HistInv, HistoryTypeOK, MaturesWithAge

\* What a report leaves: one report more.
LEMMA ReportStep ==
  ASSUME HistInv, NEW t \in Recently, CreateUserReport(t)
  PROVE  HistInv' /\ reports \subseteq reports'
<1>1. HistoryTypeOK /\ t \in Time /\ MaxReports \in Nat
  BY Lengths DEF HistInv, Recently
<1>2. ReportsWithin(t, t + 1) + 1 \in 1..MaxReports
  <2>1. /\ ReportsWithin(t, t + 1) \in Nat /\ Cardinality(reports) \in Nat
        /\ ReportsWithin(t, t + 1) <= Cardinality(reports)
    BY <1>1, WithinIsNat, HistoryIsFinite
  <2>2. Cardinality(reports) < MaxReports
    BY DEF CreateUserReport
  <2> HIDE DEF ReportsWithin
  <2> QED  BY <1>1, <2>1, <2>2
<1>3. reports' = reports \cup {<<t, ReportsWithin(t, t + 1) + 1>>}
        /\ UNCHANGED <<now, created, rollups, baselines>>
  BY DEF CreateUserReport
<1> QED  BY <1>1, <1>2, <1>3 DEF HistInv, HistoryTypeOK

LEMMA RollupStep ==
  ASSUME HistInv, NEW at \in Recently, NEW success \in BOOLEAN, upsertProbeHourlyRollup(at, success)
  PROVE  HistInv'
<1> DEFINE start == floorToHour(at)
           old == IF start \in DOMAIN rollups THEN rollups[start] ELSE [total |-> 0, failures |-> 0]
           new == Counted(old, success)
<1>1. at \in Time /\ at \in Nat
  BY Lengths DEF Recently, Time
<1>2. start \in Time
  BY <1>1, Lengths DEF floorToHour, Hour, Time
<1>3. old \in Rollup /\ old.failures <= old.total
  BY DEF HistInv, HistoryTypeOK, Rollup
<1>4. /\ rollups' = [b \in DOMAIN rollups \cup {start} |-> IF b = start THEN new ELSE rollups[b]]
      /\ UNCHANGED <<now, created, reports, baselines>>
  BY DEF upsertProbeHourlyRollup
<1> HIDE DEF start, old
<1>5. new \in Rollup /\ new.failures <= new.total
  BY <1>3 DEF Counted, Rollup
<1> HIDE DEF new
<1>6. DOMAIN rollups' = DOMAIN rollups \cup {start}
        /\ \A b \in DOMAIN rollups' : rollups'[b] = IF b = start THEN new ELSE rollups[b]
  BY <1>4
<1> QED  BY <1>2, <1>4, <1>5, <1>6 DEF HistInv, HistoryTypeOK

LEMMA RefreshStep ==
  ASSUME AgeInv, NEW at \in Recently, RefreshAllBaselines(at)
  PROVE  AgeInv'
<1>1. HistInv /\ HistoryTypeOK /\ at \in Time /\ at <= now
  BY DEF AgeInv, HistInv, Recently
<1>2. /\ Start(at) <= End(at)
      /\ UNCHANGED <<now, created, reports, rollups>>
      /\ baselines' = [h \in DOMAIN baselines \cup HoursSeen(at) |->
                         IF h \in HoursSeen(at) THEN Row(at, h) ELSE baselines[h]]
  BY DEF RefreshAllBaselines
<1>3. HoursSeen(at) \subseteq HoursOfWeek
  <2> SUFFICES ASSUME NEW w \in Windows(at)  PROVE hourOfWeek(w) \in HoursOfWeek
    BY DEF HoursSeen
  <2>1. w \in Int
    BY <1>1, WindowsAreHalfHours
  <2> QED  BY <2>1, HourOfWeekType
<1>4. \A h \in DOMAIN baselines' :
        /\ h \in HoursOfWeek
        /\ baselines'[h] \in ServiceBaseline
        /\ baselines'[h].failures <= baselines'[h].probes
        /\ created # LongAgo => (baselines'[h].sampleCount - 1) * Week < now - created + Hour
  <2> SUFFICES ASSUME NEW h \in DOMAIN baselines'
               PROVE  /\ h \in HoursOfWeek
                      /\ baselines'[h] \in ServiceBaseline
                      /\ baselines'[h].failures <= baselines'[h].probes
                      /\ created # LongAgo => (baselines'[h].sampleCount - 1) * Week < now - created + Hour
    OBVIOUS
  <2>1. CASE h \in HoursSeen(at)
    <3>1. h \in HoursOfWeek /\ h \in Int
      BY <1>3, <2>1, Lengths DEF HoursOfWeek
    <3>2. baselines'[h] = Row(at, h)
      BY <1>2, <2>1
    <3> HIDE DEF Row
    <3> QED  BY <1>1, <1>2, <3>1, <3>2, RowTypes
  <2>2. CASE h \notin HoursSeen(at)
    <3>1. h \in DOMAIN baselines /\ baselines'[h] = baselines[h]
      BY <1>2, <2>2
    <3> QED  BY <1>1, <3>1 DEF AgeInv, MaturesWithAge, HistoryTypeOK
  <2> QED  BY <2>1, <2>2
<1> QED  BY <1>1, <1>2, <1>4 DEF AgeInv, HistInv, HistoryTypeOK, MaturesWithAge

\* A step that leaves the rows and the creation keeps their ages, as time passes.
LEMMA RowsAge ==
  ASSUME HistInv, MaturesWithAge, UNCHANGED <<created, baselines>>, now' = now \/ now' = now + 1
  PROVE  MaturesWithAge'
<1> SUFFICES ASSUME created # LongAgo, NEW h \in DOMAIN baselines
             PROVE  (baselines[h].sampleCount - 1) * Week < now' - created + Hour
  BY DEF MaturesWithAge
<1> DEFINE span == (baselines[h].sampleCount - 1) * Week
<1>1. span \in Int /\ now \in Int /\ created \in Int
  <2>1. baselines[h].sampleCount - 1 \in Int /\ Week \in Int
    BY Lengths DEF HistInv, HistoryTypeOK, ServiceBaseline
  <2>2. span \in Int
    BY <2>1, SMT
  <2> QED  BY <2>2, Lengths DEF HistInv, HistoryTypeOK, Time
<1>2. span < now - created + Hour
  BY DEF MaturesWithAge
<1> HIDE DEF span
<1>3. span < now' - created + Hour
  BY <1>1, <1>2 DEF Hour
<1> QED  BY <1>3 DEF span

LEMMA AgeStep ==
  ASSUME AgeInv, [Next]_vars
  PROVE  AgeInv'
<1> USE DEF AgeInv
<1>1. now \in Nat
  BY Lengths DEF HistInv, HistoryTypeOK, Time
<1>2. ASSUME NEW t \in Recently, CreateUserReport(t)  PROVE AgeInv'
  <2>1. UNCHANGED <<now, created, baselines>>
    BY <1>2 DEF CreateUserReport
  <2> QED  BY <1>1, <1>2, <2>1, ReportStep, RowsAge
<1>3. ASSUME Tick  PROVE AgeInv'
  <2>1. now' = now + 1 /\ now < MaxTime /\ UNCHANGED <<created, reports, rollups, baselines>>
    BY <1>3 DEF Tick
  <2>2. HistInv'
    BY <1>1, <2>1, Lengths DEF HistInv, HistoryTypeOK, Time
  <2> QED  BY <1>1, <2>1, <2>2, RowsAge
<1>4. ASSUME NEW at \in Recently, NEW success \in BOOLEAN, upsertProbeHourlyRollup(at, success)
      PROVE AgeInv'
  <2>1. UNCHANGED <<now, created, baselines>>
    BY <1>4 DEF upsertProbeHourlyRollup
  <2> QED  BY <1>1, <1>4, <2>1, RollupStep, RowsAge
<1>5. ASSUME NEW at \in Recently, RefreshAllBaselines(at)  PROVE AgeInv'
  BY <1>5, RefreshStep
<1>6. ASSUME UpdateService  PROVE AgeInv'
  BY <1>6 DEF UpdateService, HistInv, HistoryTypeOK, MaturesWithAge
<1>7. ASSUME UNCHANGED history  PROVE AgeInv'
  BY <1>7 DEF history, HistInv, HistoryTypeOK, MaturesWithAge
<1>8. ASSUME PageStep  PROVE UNCHANGED history
  BY <1>8 DEF PageStep, OpenPage, ReadBars, ReadIncidents, ReadDays, ReadTimeline, Respond, TrackIncidents, Reads
<1> QED
  BY <1>2, <1>3, <1>4, <1>5, <1>6, <1>7, <1>8 DEF Next, HistoryStep, RefresherStep, vars

\* A row has as many weekly samples as the service has weeks, or one more in the hour
\* before, for any length of weeks and any lookback (refreshServiceBaselines).
THEOREM RowsMatureWithAge == Spec => []MaturesWithAge
<1>1. Init => AgeInv
  BY AgeInit
<1>2. AgeInv /\ [Next]_vars => AgeInv'
  BY AgeStep
<1>3. AgeInv => MaturesWithAge
  BY DEF AgeInv
<1> QED  BY <1>1, <1>2, <1>3, PTL DEF Spec

-------------------------------------------------------------------------------
(* A refresh is complete: sums over disjoint sets.                         *)

\* The members of a family of sets, and their number as Total counts it.
Members(H, J) == UNION {J[h] : h \in H}
Sizes(H, J, B) == {p \in H \X (1..B) : p[2] <= Cardinality(J[p[1]])}

\* Pairs counted up to the sizes of disjoint sets are as many as the sets' members.
LEMMA TotalOfDisjoint ==
  ASSUME NEW H, NEW J, NEW B \in Nat,
         IsFiniteSet(Members(H, J)),
         \A h, k \in H : h # k => J[h] \cap J[k] = {},
         \A h \in H : Cardinality(J[h]) <= B
  PROVE  Cardinality(Sizes(H, J, B)) = Cardinality(Members(H, J))
<1> DEFINE U == UNION {J[h] : h \in H}
           S == {p \in H \X (1..B) : p[2] <= Cardinality(J[p[1]])}
           n(h) == Cardinality(J[h])
           g == [h \in H |-> CHOOSE f : f \in Bijection(1..n(h), J[h])]
           F == [p \in S |-> g[p[1]][p[2]]]
<1>0. IsFiniteSet(U)
  BY DEF Members
<1>1. \A h \in H : /\ n(h) \in Nat /\ n(h) <= B
                   /\ g[h] \in Bijection(1..n(h), J[h])
  <2> SUFFICES ASSUME NEW h \in H
               PROVE  n(h) \in Nat /\ n(h) <= B /\ g[h] \in Bijection(1..n(h), J[h])
    OBVIOUS
  <2>1. J[h] \in SUBSET U
    OBVIOUS
  <2>2. IsFiniteSet(J[h])
    BY <1>0, <2>1, FS_Subset
  <2>3. PICK k \in Nat : Cardinality(J[h]) = k /\ ExistsBijection(1..k, J[h])
    BY <2>2, FS_CardinalityType
  <2>4. \E f : f \in Bijection(1..n(h), J[h])
    BY <2>3 DEF ExistsBijection
  <2> QED  BY <2>3, <2>4
<1>2. \A h \in H : /\ g[h] \in [1..n(h) -> J[h]]
                   /\ \A i, j \in 1..n(h) : g[h][i] = g[h][j] => i = j
                   /\ \A x \in J[h] : \E i \in 1..n(h) : g[h][i] = x
  <2> SUFFICES ASSUME NEW h \in H
               PROVE  /\ g[h] \in [1..n(h) -> J[h]]
                      /\ \A i, j \in 1..n(h) : g[h][i] = g[h][j] => i = j
                      /\ \A x \in J[h] : \E i \in 1..n(h) : g[h][i] = x
    OBVIOUS
  <2> DEFINE f == g[h]
             I == 1..n(h)
             T == J[h]
  <2>1. f \in Bijection(I, T)
    BY <1>1
  <2> HIDE DEF f, I, T
  <2>2. f \in [I -> T] /\ IsInjective(f) /\ \A x \in T : \E i \in I : f[i] = x
    BY <2>1 DEF Bijection, Injection, Surjection
  <2>3. \A i, j \in I : f[i] = f[j] => i = j
    BY <2>2 DEF IsInjective
  <2> QED  BY <2>2, <2>3 DEF f, I, T
<1> HIDE DEF g
<1>3. \A p \in S : /\ p[1] \in H /\ p[2] \in 1..n(p[1]) /\ p = <<p[1], p[2]>>
                   /\ F[p] = g[p[1]][p[2]] /\ F[p] \in J[p[1]]
  <2> SUFFICES ASSUME NEW p \in S
               PROVE  /\ p[1] \in H /\ p[2] \in 1..n(p[1]) /\ p = <<p[1], p[2]>>
                      /\ F[p] = g[p[1]][p[2]] /\ F[p] \in J[p[1]]
    OBVIOUS
  <2>1. p[1] \in H /\ p[2] \in 1..B /\ p = <<p[1], p[2]>> /\ p[2] <= n(p[1])
    OBVIOUS
  <2>2. n(p[1]) \in Nat
    BY <1>1, <2>1
  <2>3. p[2] \in 1..n(p[1])
    BY <2>1, <2>2
  <2>4. g[p[1]][p[2]] \in J[p[1]]
    BY <1>2, <2>1, <2>3
  <2> QED  BY <2>1, <2>3, <2>4
<1>4. F \in [S -> U]
  BY <1>3
<1>5. \A p, q \in S : F[p] = F[q] => p = q
  <2> SUFFICES ASSUME NEW p \in S, NEW q \in S, F[p] = F[q]
               PROVE  p = q
    OBVIOUS
  <2>1. p[1] = q[1]
    BY <1>3
  <2>2. p[2] = q[2]
    BY <1>2, <1>3, <2>1
  <2> QED  BY <1>3, <2>1, <2>2
<1>6. \A x \in U : \E p \in S : F[p] = x
  <2> SUFFICES ASSUME NEW h \in H, NEW x \in J[h]
               PROVE  \E p \in S : F[p] = x
    OBVIOUS
  <2>1. PICK i \in 1..n(h) : g[h][i] = x
    BY <1>2
  <2>2. n(h) \in Nat /\ n(h) <= B
    BY <1>1
  <2>3. i \in 1..B /\ i <= n(h)
    BY <2>2
  <2>4. <<h, i>> \in S
    BY <2>3
  <2>5. F[<<h, i>>] = x
    BY <2>1, <2>4
  <2> QED  BY <2>4, <2>5
<1> HIDE DEF F, S
<1>7. F \in Injection(S, U) /\ F \in Surjection(S, U)
  BY <1>4, <1>5, <1>6 DEF Injection, Surjection, IsInjective
<1> HIDE DEF U
<1>8. Cardinality(S) = Cardinality(U)
  BY <1>0, <1>7, FS_Injection
<1> QED  BY <1>8 DEF S, U, Sizes, Members

\* The bound of Total.
LEMMA CountsFit ==
  /\ 2 * (MaxReports + MaxProbes) \in Nat
  /\ MaxReports <= 2 * (MaxReports + MaxProbes)
  /\ MaxProbes <= 2 * (MaxReports + MaxProbes)
BY Lengths

-------------------------------------------------------------------------------
(* What a refresh reads.                                                   *)

\* No more reports and results than their bounds; rollups begin on the hour; and the
\* rows of a service whose age is known are of hours that it has been through.
CompleteInv ==
  /\ Cardinality(reports) <= MaxReports
  /\ Total(LAMBDA b : rollups[b].total, DOMAIN rollups) <= MaxProbes
  /\ \A b \in DOMAIN rollups : b % Hour = 0
  /\ created # LongAgo =>
       \A h \in DOMAIN baselines :
         \E w \in floorToHalfHour(created)..now : w % HalfHour = 0 /\ hourOfWeek(w) = h

\* The windows of a refresh are all half hours from its start to its end.
LEMMA AllHalfHours ==
  ASSUME HistoryTypeOK, NEW at \in Time
  PROVE  /\ Start(at) \in Int /\ End(at) \in Int /\ Start(at) % 2 = 0 /\ End(at) % 2 = 0
         /\ End(at) <= at /\ at < End(at) + 2
         /\ Start(at) = End(at) - SixMonths \/ Start(at) = floorToHalfHour(created)
         /\ created = LongAgo => Start(at) = End(at) - SixMonths
         /\ Start(at) >= floorToHalfHour(created)
         /\ \A w \in Int : w \in Windows(at) <=> Start(at) <= w /\ w <= End(at) /\ w % 2 = 0
<1>1. at \in Nat /\ created \in Int /\ SixMonths \in Nat \ {0} /\ SixMonths % 2 = 0
  BY Lengths, BaselinesAssumption DEF HistoryTypeOK, Time, HalfHour
<1>2. End(at) \in Int /\ End(at) % 2 = 0 /\ End(at) <= at /\ at < End(at) + 2
  BY <1>1, HalfHours DEF End
<1>3. floorToHalfHour(created) \in Int /\ floorToHalfHour(created) % 2 = 0
        /\ floorToHalfHour(created) <= created
  BY <1>1, HalfHours
<1>4. /\ Start(at) \in Int /\ Start(at) % 2 = 0
      /\ Start(at) = End(at) - SixMonths \/ Start(at) = floorToHalfHour(created)
      /\ Start(at) >= floorToHalfHour(created)
  <2>1. CASE created < End(at) - SixMonths
    BY <1>1, <1>2, <1>3, <2>1 DEF Start
  <2>2. CASE ~(created < End(at) - SixMonths)
    BY <1>1, <1>3, <2>2 DEF Start
  <2> QED  BY <2>1, <2>2
<1>5. ASSUME created = LongAgo  PROVE Start(at) = End(at) - SixMonths
  <2>1. created = -10 * SixMonths
    BY <1>5 DEF LongAgo
  <2>2. End(at) > -2
    BY <1>1, <1>2
  <2>3. -10 * SixMonths < End(at) - SixMonths
    BY <1>1, <1>2, <2>2
  <2> QED  BY <2>1, <2>3 DEF Start
<1>6. \A w \in Int : w \in Windows(at) <=> Start(at) <= w /\ w <= End(at) /\ w % 2 = 0
  BY <1>2, <1>4 DEF Windows, HalfHour
<1> QED  BY <1>2, <1>4, <1>5, <1>6

\* A lookback of six months goes through every hour of the week.
LEMMA EveryHourOfWeek ==
  ASSUME HistoryTypeOK, NEW at \in Time, Start(at) = End(at) - SixMonths
  PROVE  HoursOfWeek \subseteq HoursSeen(at)
<1> SUFFICES ASSUME NEW h \in HoursOfWeek
             PROVE  \E w \in Windows(at) : hourOfWeek(w) = h
  BY DEF HoursSeen
<1> DEFINE P == HoursPerDay * DaysPerWeek
           e == End(at)
           d == e \div 4
           k == (d - h) \div P
           j == P * k + h
<1>1. P \in Nat \ {0} /\ Week = 4 * P /\ Week <= SixMonths /\ SixMonths \in Nat
  BY Lengths, BaselinesAssumption
<1>2. h \in Nat /\ h < P
  BY <1>1 DEF HoursOfWeek
<1>3. e \in Int
  BY AllHalfHours
<1>4. d \in Int /\ 4 * d <= e /\ e < 4 * d + 4
  BY <1>3
<1> HIDE DEF P, e, d
<1>5. k \in Int /\ P * k \in Int /\ P * k <= d - h /\ d - h < P * k + P
  BY <1>1, <1>2, <1>4, Quotient
<1> HIDE DEF k
<1>6. j \in Int /\ j <= d /\ d < j + P
  BY <1>1, <1>2, <1>4, <1>5
<1>7. hourOfWeek(4 * j) = h
  <2>1. (4 * j) \div 4 = j
    BY <1>6
  <2>2. j \div P = k
    <3>1. P * k <= j /\ j < P * k + P
      BY <1>1, <1>2, <1>5
    <3> HIDE DEF j
    <3> QED  BY <1>1, <1>5, <1>6, <3>1, QuotientIs
  <2>3. j = P * (j \div P) + (j % P)
    <3> HIDE DEF j
    <3> QED  BY <1>1, <1>6, SMT
  <2>4. j % P = h
    <3> HIDE DEF j
    <3>1. j % P \in Int
      BY <1>1, <1>6, SMT
    <3>2. j = P * k + h
      BY DEF j
    <3> QED  BY <1>2, <1>5, <2>2, <2>3, <3>1, <3>2
  <2> QED  BY <2>1, <2>4 DEF hourOfWeek, Hour, P
<1> HIDE DEF j
<1>8. 4 * j \in Windows(at)
  <2>1. 4 * j <= e
    BY <1>3, <1>4, <1>6
  <2>2. e - SixMonths <= 4 * j
    BY <1>1, <1>3, <1>4, <1>6
  <2>3. (4 * j) % 2 = 0 /\ 4 * j \in Int
    BY <1>6
  <2> QED  BY <2>1, <2>2, <2>3, AllHalfHours DEF e
<1> QED  BY <1>7, <1>8

\* Reports of the lookback, each with its window: as many as there are reports.
LEMMA ReportsHaveWindows ==
  ASSUME HistoryTypeOK, NEW at \in Time
  PROVE  LET joined == {j \in reports \X Windows(at) : InWindow(j[1], j[2])}
         IN  /\ IsFiniteSet(joined)
             /\ Cardinality(joined) = ReportsWithin(Start(at), End(at) + HalfHour)
<1> DEFINE joined == {j \in reports \X Windows(at) : InWindow(j[1], j[2])}
           some == {r \in reports : Start(at) <= r[1] /\ r[1] < End(at) + HalfHour}
           f == [r \in some |-> <<r, floorToHalfHour(r[1])>>]
<1>1. \A r \in reports : r[1] \in Int
  BY Lengths DEF HistoryTypeOK, Time
<1>2. Start(at) \in Int /\ End(at) \in Int /\ Start(at) % 2 = 0 /\ End(at) % 2 = 0
  BY AllHalfHours
<1>3. \A r \in reports : \A w \in Int :
        w % 2 = 0 => (InWindow(r, w) <=> w = floorToHalfHour(r[1]))
  BY <1>1 DEF InWindow, floorToHalfHour, HalfHour
<1>4. \A r \in some : <<r, floorToHalfHour(r[1])>> \in joined
  <2> SUFFICES ASSUME NEW r \in some
               PROVE  <<r, floorToHalfHour(r[1])>> \in joined
    OBVIOUS
  <2> DEFINE w == floorToHalfHour(r[1])
  <2>1. r \in reports /\ r[1] \in Int /\ Start(at) <= r[1] /\ r[1] < End(at) + 2
    BY <1>1 DEF HalfHour
  <2>2. w \in Int /\ w % 2 = 0 /\ w <= r[1] /\ r[1] < w + 2
    BY <2>1, HalfHours
  <2> HIDE DEF w
  <2>3. Start(at) <= w /\ w <= End(at)
    BY <1>2, <2>1, <2>2
  <2>4. w \in Windows(at)
    BY <2>2, <2>3, AllHalfHours
  <2>5. InWindow(r, w)
    BY <1>3, <2>1, <2>2 DEF w
  <2> QED  BY <2>1, <2>4, <2>5 DEF w
<1>5. \A j \in joined : j[1] \in some /\ j = <<j[1], floorToHalfHour(j[1][1])>>
  <2> SUFFICES ASSUME NEW j \in joined
               PROVE  j[1] \in some /\ j = <<j[1], floorToHalfHour(j[1][1])>>
    OBVIOUS
  <2>1. j[1] \in reports /\ j[2] \in Windows(at) /\ j = <<j[1], j[2]>> /\ InWindow(j[1], j[2])
    OBVIOUS
  <2>2. j[2] \in Int
    BY <2>1, WindowsAreHalfHours
  <2>3. j[2] % 2 = 0 /\ Start(at) <= j[2] /\ j[2] <= End(at)
    BY <2>1, <2>2, AllHalfHours
  <2>4. j[2] = floorToHalfHour(j[1][1])
    BY <1>3, <2>1, <2>2, <2>3
  <2>5. Start(at) <= j[1][1] /\ j[1][1] < End(at) + HalfHour
    BY <1>1, <1>2, <2>1, <2>2, <2>3 DEF InWindow, HalfHour
  <2> QED  BY <2>1, <2>4, <2>5
<1> DEFINE pair(r) == <<r, floorToHalfHour(r[1])>>
<1>6. f \in [some -> joined] /\ \A r \in some : f[r] = pair(r)
  BY <1>4
<1>7. \A r, s \in some : f[r] = f[s] => r = s
  BY <1>6
<1>8. \A j \in joined : \E r \in some : f[r] = j
  BY <1>5, <1>6
<1> HIDE DEF f, pair
<1>9. f \in Bijection(some, joined)
  <2> HIDE DEF some, joined
  <2> QED  BY <1>6, <1>7, <1>8 DEF Bijection, Injection, Surjection, IsInjective
<1>10. IsFiniteSet(some) /\ Cardinality(some) = ReportsWithin(Start(at), End(at) + HalfHour)
  BY WithinIsNat DEF ReportsWithin
<1> HIDE DEF some, joined
<1>11. IsFiniteSet(joined) /\ Cardinality(joined) = Cardinality(some)
  BY <1>9, <1>10, FS_Bijection DEF ExistsBijection
<1> QED  BY <1>10, <1>11 DEF joined

\* Every report of the lookback is in the mean of one hour of the week.
LEMMA ReportsAreComplete ==
  ASSUME HistoryTypeOK, CompleteInv, NEW at \in Time,
         \A h \in HoursSeen(at) : baselines'[h] = Row(at, h)
  PROVE  Total(LAMBDA h : baselines'[h].reports, HoursSeen(at))
           = ReportsWithin(Start(at), End(at) + HalfHour)
<1> DEFINE H == HoursSeen(at)
           B == 2 * (MaxReports + MaxProbes)
           joined == {j \in reports \X Windows(at) : InWindow(j[1], j[2])}
           J == [h \in H |-> {j \in reports \X {w \in Windows(at) : hourOfWeek(w) = h} :
                                InWindow(j[1], j[2])}]
<1>1. IsFiniteSet(joined) /\ Cardinality(joined) = ReportsWithin(Start(at), End(at) + HalfHour)
  BY ReportsHaveWindows
<1>2. \A h \in H : baselines'[h].reports = Cardinality(J[h])
  <2> SUFFICES ASSUME NEW h \in H
               PROVE  baselines'[h].reports = Cardinality(J[h])
    OBVIOUS
  <2>1. Row(at, h).reports = Cardinality({j \in reports \X {w \in Windows(at) : hourOfWeek(w) = h} :
                                            InWindow(j[1], j[2])})
    BY DEF Row
  <2>2. baselines'[h] = Row(at, h)
    OBVIOUS
  <2> HIDE DEF Row
  <2> QED  BY <2>1, <2>2
<1>3. \A h \in H : \A j : j \in J[h] <=> j \in joined /\ hourOfWeek(j[2]) = h
  OBVIOUS
<1>4. \A j \in joined : hourOfWeek(j[2]) \in H
  BY DEF HoursSeen
<1>5. Members(H, J) = joined
  <2> HIDE DEF H, J, joined
  <2> QED  BY <1>3, <1>4 DEF Members
<1>6. \A h, k \in H : h # k => J[h] \cap J[k] = {}
  <2> HIDE DEF H, J, joined
  <2> QED  BY <1>3
<1>7. \A h \in H : Cardinality(J[h]) <= B
  <2> SUFFICES ASSUME NEW h \in H
               PROVE  Cardinality(J[h]) <= B
    OBVIOUS
  <2> DEFINE here == J[h]
  <2>1. here \in SUBSET joined
    BY <1>3
  <2>2. ReportsWithin(Start(at), End(at) + HalfHour) <= Cardinality(reports)
          /\ ReportsWithin(Start(at), End(at) + HalfHour) \in Nat
    BY WithinIsNat
  <2>3. Cardinality(reports) \in Nat /\ Cardinality(reports) <= MaxReports
    BY HistoryIsFinite DEF CompleteInv
  <2> HIDE DEF here, joined
  <2>4. Cardinality(here) \in Nat /\ Cardinality(here) <= Cardinality(joined)
    BY <1>1, <2>1, FS_Subset, FS_CardinalityType
  <2> DEFINE c == Cardinality(here)
             m == ReportsWithin(Start(at), End(at) + HalfHour)
  <2>5. c \in Nat /\ c <= m
    BY <1>1, <2>4
  <2> HIDE DEF c, m
  <2>6. c <= B
    BY <2>2, <2>3, <2>5, CountsFit, Lengths DEF m
  <2> QED  BY <2>6 DEF c, here
<1>8. B \in Nat
  BY CountsFit
<1>9. Total(LAMBDA h : baselines'[h].reports, H)
        = Cardinality({p \in H \X (1..B) : p[2] <= baselines'[p[1]].reports})
  BY DEF Total
<1>10. {p \in H \X (1..B) : p[2] <= baselines'[p[1]].reports} = Sizes(H, J, B)
  <2> HIDE DEF J, H, B
  <2> QED  BY <1>2 DEF Sizes
<1> HIDE DEF H, J, B, joined
<1>11. Cardinality(Sizes(H, J, B)) = Cardinality(Members(H, J))
  BY <1>1, <1>5, <1>6, <1>7, <1>8, TotalOfDisjoint
<1> QED  BY <1>1, <1>5, <1>9, <1>10, <1>11 DEF H

\* Every probe result of a finished hour is in the failure rate of one hour of the week.
LEMMA ProbesAreComplete ==
  ASSUME HistInv, CompleteInv, NEW at \in Time,
         \A h \in HoursSeen(at) : baselines'[h] = Row(at, h)
  PROVE  Total(LAMBDA h : baselines'[h].probes, HoursSeen(at))
           = Total(LAMBDA b : rollups[b].total, FinishedHours(at))
<1> DEFINE H == HoursSeen(at)
           B == 2 * (MaxReports + MaxProbes)
           results == {p \in FinishedHours(at) \X (1..B) : p[2] <= rollups[p[1]].total}
           hours(h) == {b \in FinishedHours(at) : hourOfWeek(b) = h}
           J == [h \in H |-> {p \in hours(h) \X (1..B) : p[2] <= rollups[p[1]].total}]
<1>1. HistoryTypeOK /\ FinishedHours(at) \in SUBSET (DOMAIN rollups)
  BY DEF HistInv, FinishedHours
<1>2. \A h \in H : baselines'[h].probes = Cardinality(J[h])
  <2> SUFFICES ASSUME NEW h \in H
               PROVE  baselines'[h].probes = Cardinality(J[h])
    OBVIOUS
  <2>1. Row(at, h).probes = Cardinality({p \in hours(h) \X (1..B) : p[2] <= rollups[p[1]].total})
    BY DEF Row, Total
  <2>2. baselines'[h] = Row(at, h)
    OBVIOUS
  <2> HIDE DEF Row
  <2> QED  BY <2>1, <2>2
<1>3. \A h \in H : \A p : p \in J[h] <=> p \in results /\ hourOfWeek(p[1]) = h
  OBVIOUS
<1>4. \A p \in results : hourOfWeek(p[1]) \in H
  <2> SUFFICES ASSUME NEW b \in FinishedHours(at)
               PROVE  hourOfWeek(b) \in H
    OBVIOUS
  <2>1. b \in Int /\ b % 4 = 0
    BY <1>1, Lengths DEF HistoryTypeOK, CompleteInv, Time, Hour
  <2>2. Start(at) \in Int /\ End(at) \in Int
    BY <1>1, AllHalfHours
  <2>3. Start(at) <= b /\ b <= End(at) /\ b % 2 = 0
    <3> DEFINE s == Start(at)
    <3>1. s \in Int /\ b >= ceilToHour(s) /\ b + 4 <= End(at)
      BY <2>2 DEF FinishedHours, Hour
    <3> HIDE DEF s
    <3>2. ceilToHour(s) >= s
      BY <3>1 DEF ceilToHour, floorToHour, Hour
    <3>3. ceilToHour(s) \in Int
      BY <3>1 DEF ceilToHour, floorToHour, Hour
    <3>4. s <= b
      BY <2>1, <3>1, <3>2, <3>3
    <3> QED  BY <2>1, <2>2, <3>1, <3>4 DEF s
  <2>4. b \in Windows(at)
    BY <1>1, <2>1, <2>3, AllHalfHours
  <2> QED  BY <2>4 DEF HoursSeen
<1>5. Members(H, J) = results
  <2> HIDE DEF H, J, results
  <2> QED  BY <1>3, <1>4 DEF Members
<1>6. \A h, k \in H : h # k => J[h] \cap J[k] = {}
  <2> HIDE DEF H, J, results
  <2> QED  BY <1>3
<1>7. IsFiniteSet(results) /\ Cardinality(results) <= MaxProbes
  <2> DEFINE pairs == (DOMAIN rollups) \X (1..B)
             all == {p \in pairs : p[2] <= rollups[p[1]].total}
  <2>1. IsFiniteSet(pairs)
    <3>1. IsFiniteSet(1..B)
      BY CountsFit, IntervalCardinality
    <3> HIDE DEF B
    <3> QED  BY <1>1, <3>1, HistoryIsFinite, FS_Product
  <2>2. results \in SUBSET all /\ all \in SUBSET pairs
    BY <1>1
  <2>3. Cardinality(all) <= MaxProbes
    BY DEF CompleteInv, Total
  <2> HIDE DEF pairs, all, results
  <2>4. IsFiniteSet(all)
    BY <2>1, <2>2, FS_Subset
  <2>5. /\ IsFiniteSet(results) /\ Cardinality(results) \in Nat /\ Cardinality(all) \in Nat
        /\ Cardinality(results) <= Cardinality(all)
    BY <2>2, <2>4, FS_Subset, FS_CardinalityType
  <2> QED  BY <2>3, <2>5, Lengths
<1>8. \A h \in H : Cardinality(J[h]) <= B
  <2> SUFFICES ASSUME NEW h \in H
               PROVE  Cardinality(J[h]) <= B
    OBVIOUS
  <2> DEFINE here == J[h]
  <2>1. here \in SUBSET results
    BY <1>3
  <2> HIDE DEF here, results
  <2>2. /\ Cardinality(here) \in Nat /\ Cardinality(results) \in Nat
        /\ Cardinality(here) <= Cardinality(results)
    BY <1>7, <2>1, FS_Subset, FS_CardinalityType
  <2>3. Cardinality(here) <= MaxProbes
    BY <1>7, <2>2, Lengths
  <2>4. Cardinality(here) <= B
    BY <2>2, <2>3, CountsFit, Lengths
  <2> QED  BY <2>4 DEF here
<1>9. B \in Nat
  BY CountsFit
<1>10. Total(LAMBDA h : baselines'[h].probes, H)
         = Cardinality({p \in H \X (1..B) : p[2] <= baselines'[p[1]].probes})
  BY DEF Total
<1>11. {p \in H \X (1..B) : p[2] <= baselines'[p[1]].probes} = Sizes(H, J, B)
  <2> HIDE DEF J, H, B
  <2> QED  BY <1>2 DEF Sizes
<1>12. Total(LAMBDA b : rollups[b].total, FinishedHours(at)) = Cardinality(results)
  BY DEF Total
<1> HIDE DEF H, J, B, results
<1>13. Cardinality(Sizes(H, J, B)) = Cardinality(Members(H, J))
  BY <1>5, <1>6, <1>7, <1>8, <1>9, TotalOfDisjoint
<1> QED  BY <1>5, <1>10, <1>11, <1>12, <1>13 DEF H

\* A refresh that is not overtaken writes every row there is.
LEMMA RowsAreRewritten ==
  ASSUME HistoryTypeOK, CompleteInv, NEW at \in Time, Start(at) <= End(at), End(at) = End(now)
  PROVE  DOMAIN baselines \subseteq HoursSeen(at)
<1>1. CASE Start(at) = End(at) - SixMonths
  BY <1>1, EveryHourOfWeek DEF HistoryTypeOK
<1>2. CASE Start(at) = floorToHalfHour(created) /\ created # LongAgo
  <2> SUFFICES ASSUME NEW h \in DOMAIN baselines
               PROVE  \E w \in Windows(at) : hourOfWeek(w) = h
    BY DEF HoursSeen
  <2>1. PICK w \in floorToHalfHour(created)..now : w % HalfHour = 0 /\ hourOfWeek(w) = h
    BY <1>2 DEF CompleteInv
  <2>2. now \in Time /\ created \in Int /\ now \in Int
    BY Lengths DEF HistoryTypeOK, Time
  <2>3. End(now) \in Int /\ End(now) % 2 = 0 /\ now < End(now) + 2
    BY <2>2, AllHalfHours
  <2>4. floorToHalfHour(created) \in Int
    BY <2>2, HalfHours
  <2>5. w \in Int /\ Start(at) <= w /\ w <= now /\ w % 2 = 0
    BY <1>2, <2>1, <2>2, <2>4 DEF HalfHour
  <2>6. w <= End(at)
    BY <2>2, <2>3, <2>5
  <2>7. w \in Windows(at)
    BY <2>5, <2>6, AllHalfHours
  <2> QED  BY <2>1, <2>7
<1> QED  BY <1>1, <1>2, AllHalfHours

-------------------------------------------------------------------------------
LEMMA CompleteInit ==
  ASSUME Init
  PROVE  CompleteInv
<1>1. reports = {} /\ DOMAIN rollups = {} /\ DOMAIN baselines = {}
  BY DEF Init, HistoryInit
<1>2. Cardinality(reports) <= MaxReports
  BY <1>1, FS_EmptySet, Lengths
<1>3. Total(LAMBDA b : rollups[b].total, DOMAIN rollups) <= MaxProbes
  <2> DEFINE all == {p \in (DOMAIN rollups) \X (1..2 * (MaxReports + MaxProbes)) :
                       p[2] <= rollups[p[1]].total}
  <2>1. all = {}
    BY <1>1
  <2>2. Cardinality(all) <= MaxProbes
    <3> HIDE DEF all
    <3> QED  BY <2>1, FS_EmptySet, Lengths
  <2> QED  BY <2>2 DEF Total
<1> QED  BY <1>1, <1>2, <1>3 DEF CompleteInv

\* A probe result is one pair more at most.
LEMMA ResultIsOneMore ==
  ASSUME HistInv, CompleteInv, NEW at \in Recently, NEW success \in BOOLEAN,
         upsertProbeHourlyRollup(at, success)
  PROVE  CompleteInv'
<1> DEFINE start == floorToHour(at)
           old == IF start \in DOMAIN rollups THEN rollups[start] ELSE [total |-> 0, failures |-> 0]
           new == Counted(old, success)
           I == 1..2 * (MaxReports + MaxProbes)
           before == {p \in (DOMAIN rollups) \X I : p[2] <= rollups[p[1]].total}
           after == {p \in (DOMAIN rollups') \X I : p[2] <= rollups'[p[1]].total}
           one == <<start, old.total + 1>>
<1>1. at \in Int /\ HistoryTypeOK
  BY Lengths DEF Recently, Time, HistInv
<1>2. start % Hour = 0
  BY <1>1 DEF floorToHour, Hour
<1>3. old.total \in Nat /\ new.total = old.total + 1
  BY DEF HistInv, HistoryTypeOK, Rollup, Counted
<1>4. /\ rollups' = [b \in DOMAIN rollups \cup {start} |-> IF b = start THEN new ELSE rollups[b]]
      /\ UNCHANGED <<now, created, reports, baselines>>
  BY DEF upsertProbeHourlyRollup
<1>5. start \in DOMAIN rollups => old = rollups[start]
  OBVIOUS
<1> HIDE DEF start, old, new
<1>6. DOMAIN rollups' = DOMAIN rollups \cup {start}
        /\ \A b \in DOMAIN rollups' : rollups'[b] = IF b = start THEN new ELSE rollups[b]
  BY <1>4
<1>7. after \subseteq before \cup {one}
  <2> SUFFICES ASSUME NEW b \in DOMAIN rollups', NEW i \in I, i <= rollups'[b].total,
                      <<b, i>> # one
               PROVE  b \in DOMAIN rollups /\ i <= rollups[b].total
    OBVIOUS
  <2>1. i \in Nat /\ i > 0
    BY CountsFit
  <2>2. CASE b = start
    <3>1. i <= old.total + 1 /\ i # old.total + 1
      BY <1>3, <1>6, <2>2
    <3>2. i <= old.total
      BY <1>3, <2>1, <3>1
    <3>3. start \in DOMAIN rollups
      BY <2>1, <3>2 DEF old
    <3> QED  BY <1>5, <2>2, <3>2, <3>3
  <2>3. CASE b # start
    BY <1>6, <2>3
  <2> QED  BY <2>2, <2>3
<1>8. Cardinality(before) < MaxProbes
  BY DEF upsertProbeHourlyRollup, Total
<1>9. IsFiniteSet(before)
  <2>1. IsFiniteSet(I)
    BY CountsFit, IntervalCardinality
  <2>2. IsFiniteSet((DOMAIN rollups) \X I)
    <3> HIDE DEF I
    <3> QED  BY <1>1, <2>1, HistoryIsFinite, FS_Product
  <2>3. before \in SUBSET ((DOMAIN rollups) \X I)
    OBVIOUS
  <2> HIDE DEF before
  <2> QED  BY <2>2, <2>3, FS_Subset
<1> HIDE DEF before, after, one
<1>10. IsFiniteSet(before \cup {one})
  BY <1>9, FS_AddElement
<1>11. /\ Cardinality(before \cup {one}) <= Cardinality(before) + 1
       /\ Cardinality(before) \in Nat
  BY <1>9, FS_AddElement, FS_CardinalityType
<1>12. Cardinality(after) <= Cardinality(before \cup {one}) /\ Cardinality(after) \in Nat
        /\ Cardinality(before \cup {one}) \in Nat
  BY <1>7, <1>10, FS_Subset, FS_CardinalityType
<1>13. Cardinality(after) <= MaxProbes
  BY <1>8, <1>11, <1>12, Lengths
<1>14. (Total(LAMBDA b : rollups[b].total, DOMAIN rollups) <= MaxProbes)'
  BY <1>13 DEF Total, after
<1> QED  BY <1>2, <1>4, <1>6, <1>14 DEF CompleteInv

LEMMA CompleteStep ==
  ASSUME HistInv, CompleteInv, [Next]_vars
  PROVE  CompleteInv'
<1> DEFINE RowsOf(c, b, n) ==
             c # LongAgo =>
               \A h \in DOMAIN b :
                 \E w \in floorToHalfHour(c)..n : w % HalfHour = 0 /\ hourOfWeek(w) = h
<1>1. HistoryTypeOK /\ now \in Nat /\ created \in Int /\ RowsOf(created, baselines, now)
  BY Lengths DEF HistInv, HistoryTypeOK, Time, CompleteInv
<1>2. ASSUME NEW t \in Recently, CreateUserReport(t)  PROVE CompleteInv'
  <2> DEFINE new == <<t, ReportsWithin(t, t + 1) + 1>>
  <2>1. reports' = reports \cup {new} /\ Cardinality(reports) < MaxReports
          /\ UNCHANGED <<now, created, rollups, baselines>>
    BY <1>2 DEF CreateUserReport
  <2> HIDE DEF new
  <2>2. IsFiniteSet(reports) /\ Cardinality(reports) \in Nat
    BY <1>1, HistoryIsFinite
  <2>3. Cardinality(reports') <= Cardinality(reports) + 1 /\ Cardinality(reports') \in Nat
    BY <2>1, <2>2, FS_AddElement
  <2>4. Cardinality(reports') <= MaxReports
    BY <2>1, <2>2, <2>3, Lengths
  <2> QED  BY <2>1, <2>4 DEF CompleteInv, Total
<1>3. ASSUME Tick  PROVE CompleteInv'
  <2>1. now' = now + 1 /\ UNCHANGED <<created, reports, rollups, baselines>>
    BY <1>3 DEF Tick
  <2>2. created # LongAgo =>
          \A h \in DOMAIN baselines :
            \E w \in floorToHalfHour(created)..now + 1 : w % HalfHour = 0 /\ hourOfWeek(w) = h
    <3>1. floorToHalfHour(created)..now \subseteq floorToHalfHour(created)..now + 1
      BY <1>1, HalfHours
    <3> QED  BY <3>1 DEF CompleteInv
  <2> QED  BY <2>1, <2>2 DEF CompleteInv, Total
<1>4. ASSUME NEW at \in Recently, NEW success \in BOOLEAN, upsertProbeHourlyRollup(at, success)
      PROVE CompleteInv'
  BY <1>4, ResultIsOneMore
<1>5. ASSUME NEW at \in Recently, RefreshAllBaselines(at)  PROVE CompleteInv'
  <2>1. /\ UNCHANGED <<now, created, reports, rollups>>
        /\ DOMAIN baselines' = DOMAIN baselines \cup HoursSeen(at)
    BY <1>5 DEF RefreshAllBaselines
  <2>2. ASSUME NEW h \in HoursSeen(at)
        PROVE  \E w \in floorToHalfHour(created)..now : w % HalfHour = 0 /\ hourOfWeek(w) = h
    <3>1. PICK w \in Windows(at) : hourOfWeek(w) = h
      BY DEF HoursSeen
    <3>2. at \in Time /\ at <= now /\ at \in Nat
      BY Lengths DEF Recently, Time
    <3>3. w \in Int /\ w % HalfHour = 0
      BY <1>1, <3>2, WindowsAreHalfHours
    <3>4. /\ Start(at) <= w /\ w <= End(at) /\ End(at) <= at
          /\ Start(at) >= floorToHalfHour(created) /\ Start(at) \in Int /\ End(at) \in Int
      BY <1>1, <3>1, <3>2, <3>3, AllHalfHours
    <3>5. floorToHalfHour(created) \in Int
      BY <1>1, HalfHours
    <3>6. w \in floorToHalfHour(created)..now
      BY <1>1, <3>2, <3>3, <3>4, <3>5
    <3> QED  BY <3>1, <3>3, <3>6
  <2> QED  BY <2>1, <2>2 DEF CompleteInv, Total
<1>6. ASSUME UpdateService  PROVE CompleteInv'
  BY <1>6 DEF UpdateService, CompleteInv, Total
<1>7. ASSUME UNCHANGED history  PROVE CompleteInv'
  BY <1>7 DEF history, CompleteInv, Total
<1>8. ASSUME PageStep  PROVE UNCHANGED history
  BY <1>8 DEF PageStep, OpenPage, ReadBars, ReadIncidents, ReadDays, ReadTimeline, Respond, TrackIncidents, Reads
<1> QED
  BY <1>2, <1>3, <1>4, <1>5, <1>6, <1>7, <1>8 DEF Next, HistoryStep, RefresherStep, vars

\* Windows neither overlap nor leave gaps: every report of the lookback and every probe
\* result of its finished hours is in the row of one hour of the week, and no row
\* outlives its lookback (refreshServiceBaselines, buildBaselines).
THEOREM RefreshesAreComplete == Spec => RefreshIsComplete
<1>1. Init => AgeInv /\ CompleteInv
  BY AgeInit, CompleteInit
<1>2. AgeInv /\ CompleteInv /\ [Next]_vars => (AgeInv /\ CompleteInv)'
  BY AgeStep, CompleteStep DEF AgeInv
<1>3. AgeInv /\ CompleteInv =>
        \A at \in Recently : Refreshes(at) =>
          /\ Total(LAMBDA h : baselines'[h].reports, HoursSeen(at))
               = ReportsWithin(Start(at), End(at) + HalfHour)
          /\ Total(LAMBDA h : baselines'[h].probes, HoursSeen(at))
               = Total(LAMBDA b : rollups[b].total, FinishedHours(at))
          /\ End(at) = End(now) => DOMAIN baselines \subseteq HoursSeen(at)
  <2> SUFFICES ASSUME AgeInv, CompleteInv, NEW at \in Recently, Refreshes(at)
               PROVE  /\ Total(LAMBDA h : baselines'[h].reports, HoursSeen(at))
                           = ReportsWithin(Start(at), End(at) + HalfHour)
                      /\ Total(LAMBDA h : baselines'[h].probes, HoursSeen(at))
                           = Total(LAMBDA b : rollups[b].total, FinishedHours(at))
                      /\ End(at) = End(now) => DOMAIN baselines \subseteq HoursSeen(at)
    OBVIOUS
  <2>1. HistInv /\ HistoryTypeOK /\ at \in Time
    BY DEF AgeInv, HistInv, Recently
  <2>2. Start(at) <= End(at)
    BY DEF Refreshes, RefreshAllBaselines
  <2>3. \A h \in HoursSeen(at) : baselines'[h] = Row(at, h)
    BY DEF Refreshes, RefreshAllBaselines
  <2> QED
    BY <2>1, <2>2, <2>3, ReportsAreComplete, ProbesAreComplete, RowsAreRewritten
<1> QED  BY <1>1, <1>2, <1>3, PTL DEF Spec, RefreshIsComplete

-------------------------------------------------------------------------------
(* The incidents.                                                          *)

\* What the tracker does to the incidents of the service: one more that began lately,
\* or the end of one, lately.
LogMoves ==
  \A k \in DOMAIN incidents' :
    \/ /\ k \in DOMAIN incidents
       /\ incidents'[k].started = incidents[k].started
       /\ \/ incidents'[k].resolved = incidents[k].resolved
          \/ /\ incidents[k].resolved = Ongoing
             /\ incidents'[k].resolved \in Time /\ incidents'[k].resolved >= now - Lag
    \/ /\ k \notin DOMAIN incidents
       /\ incidents'[k].started >= now - Lag

LEMMA LogTypes ==
  ASSUME LogInv, NEW k \in DOMAIN incidents
  PROVE  /\ incidents[k] \in Incidents!Incident
         /\ incidents[k].started \in Time /\ incidents[k].started \in Nat
         /\ incidents[k].resolved \in Time \cup {Ongoing} /\ incidents[k].resolved \in Int
         /\ incidents[k].resolved # Ongoing => incidents[k].resolved \in Time
<1>1. incidents \in Seq(Incidents!Incident)
  BY DEF LogInv, incidents
<1>2. incidents[k] \in Incidents!Incident
  BY <1>1
<1> HIDE DEF incidents
<1> QED  BY <1>2, Lengths DEF Incidents!Incident, Incidents!Ongoing, Ongoing, Time

LEMMA LogInit ==
  ASSUME Init
  PROVE  LogInv /\ incidents = <<>> /\ DOMAIN incidents = {}
<1>1. log = [s \in {Shown} |-> <<>>]
  BY DEF Init, Incidents!Init
<1>2. incidents = <<>> /\ DOMAIN incidents = {}
  BY <1>1 DEF incidents
<1>3. log \in [{Shown} -> Seq(Incidents!Incident)]
  BY <1>1
<1> QED  BY <1>2, <1>3 DEF LogInv

LEMMA LogOpens ==
  ASSUME HistInv, LogInv, NEW at \in Recently, Incidents!Open(Shown, at)
  PROVE  LogInv' /\ LogMoves /\ DOMAIN incidents \subseteq DOMAIN incidents'
<1> DEFINE i == [started |-> at, resolved |-> Ongoing]
<1>1. incidents \in Seq(Incidents!Incident) /\ log \in [{Shown} -> Seq(Incidents!Incident)]
  BY DEF LogInv, incidents
<1>2. at \in Time /\ at \in Nat /\ now \in Nat /\ Lag \in Nat /\ at >= now - Lag
  <2>1. at \in Nat /\ now \in Nat /\ Lag \in Nat /\ now - at <= Lag
    BY Lengths DEF Recently, Time, HistInv, HistoryTypeOK
  <2> QED  BY <2>1 DEF Recently
<1>3. i \in Incidents!Incident
  BY <1>2 DEF Incidents!Incident, Ongoing, Time
<1>4. log' = [log EXCEPT ![Shown] = Append(incidents, i)]
  BY DEF Incidents!Open, Ongoing, incidents
<1> HIDE DEF i
<1>5. incidents' = Append(incidents, i) /\ log' \in [{Shown} -> Seq(Incidents!Incident)]
  <2>1. log'[Shown] = Append(incidents, i)
    BY <1>1, <1>4
  <2>2. Append(incidents, i) \in Seq(Incidents!Incident)
    BY <1>1, <1>3
  <2>3. log' \in [{Shown} -> Seq(Incidents!Incident)]
    BY <1>1, <1>4, <2>2
  <2> QED  BY <2>1, <2>3 DEF incidents
<1>6. DOMAIN incidents' = DOMAIN incidents \cup {Len(incidents) + 1}
        /\ Len(incidents) + 1 \notin DOMAIN incidents
        /\ \A k \in DOMAIN incidents : incidents'[k] = incidents[k]
        /\ incidents'[Len(incidents) + 1] = i
  <2> HIDE DEF incidents
  <2> DEFINE new == incidents'
  <2>1. new = Append(incidents, i) /\ incidents \in Seq(Incidents!Incident)
    BY <1>1, <1>5
  <2> HIDE DEF new
  <2>2. /\ DOMAIN new = DOMAIN incidents \cup {Len(incidents) + 1}
        /\ Len(incidents) + 1 \notin DOMAIN incidents
        /\ \A k \in DOMAIN incidents : new[k] = incidents[k]
        /\ new[Len(incidents) + 1] = i
    BY <1>3, <2>1
  <2> QED  BY <2>2 DEF new
<1>7. i.started = at /\ i.resolved = Ongoing
  BY DEF i
<1> QED  BY <1>2, <1>5, <1>6, <1>7 DEF LogInv, LogMoves

LEMMA LogResolves ==
  ASSUME HistInv, LogInv, NEW at \in Recently, Incidents!Resolve(Shown, at)
  PROVE  LogInv' /\ LogMoves /\ DOMAIN incidents \subseteq DOMAIN incidents'
<1> DEFINE n == Len(incidents)
           i == [incidents[n] EXCEPT !.resolved = at]
<1>1. incidents \in Seq(Incidents!Incident) /\ log \in [{Shown} -> Seq(Incidents!Incident)]
  BY DEF LogInv, incidents
<1>2. at \in Time /\ at \in Nat /\ now \in Nat /\ Lag \in Nat /\ at >= now - Lag
  <2>1. at \in Nat /\ now \in Nat /\ Lag \in Nat /\ now - at <= Lag
    BY Lengths DEF Recently, Time, HistInv, HistoryTypeOK
  <2> QED  BY <2>1 DEF Recently
<1>3. incidents # <<>> /\ incidents[n].resolved = Ongoing /\ incidents[n].started <= at
  BY DEF Incidents!Resolve, Incidents!IsOpen, Incidents!Last, Incidents!Ongoing, Ongoing, incidents
<1>4. n \in DOMAIN incidents /\ incidents[n] \in Incidents!Incident
  BY <1>1, <1>3
<1>5. /\ i \in Incidents!Incident
      /\ i.started = incidents[n].started /\ i.resolved = at
  <2> HIDE DEF n
  <2> DEFINE old == incidents[n]
  <2>1. old \in [started : 0..MaxTime, resolved : 0..MaxTime \cup {Incidents!Ongoing}]
    BY <1>4 DEF Incidents!Incident
  <2> HIDE DEF old
  <2>2. [old EXCEPT !.resolved = at] \in [started : 0..MaxTime, resolved : 0..MaxTime \cup {Incidents!Ongoing}]
    BY <1>2, <2>1 DEF Time
  <2>3. [old EXCEPT !.resolved = at].started = old.started /\ [old EXCEPT !.resolved = at].resolved = at
    BY <2>1
  <2> QED  BY <2>2, <2>3 DEF Incidents!Incident, old
<1>6. log' = [log EXCEPT ![Shown] = [incidents EXCEPT ![n] = i]]
  <2>1. log' = [log EXCEPT ![Shown][Len(log[Shown])].resolved = at]
    BY DEF Incidents!Resolve
  <2> QED  BY <2>1 DEF incidents
<1> HIDE DEF i, n
<1>7. [incidents EXCEPT ![n] = i] \in Seq(Incidents!Incident)
  BY <1>1, <1>4, <1>5
<1>8. incidents' = [incidents EXCEPT ![n] = i] /\ log' \in [{Shown} -> Seq(Incidents!Incident)]
  BY <1>1, <1>6, <1>7 DEF incidents
<1>9. DOMAIN incidents' = DOMAIN incidents
        /\ incidents'[n] = i
        /\ \A k \in DOMAIN incidents : k # n => incidents'[k] = incidents[k]
  BY <1>4, <1>8
<1>10. LogInv'
  BY <1>3, <1>5, <1>8, <1>9 DEF LogInv
<1>11. LogMoves
  BY <1>2, <1>3, <1>5, <1>9 DEF LogMoves
<1> QED  BY <1>9, <1>10, <1>11

-------------------------------------------------------------------------------
(* The days of a page.                                                     *)

LEMMA PageDaysFact ==
  ASSUME NEW at \in Int
  PROVE  /\ FirstDay(at) \in Int /\ DayOf(at) \in Int /\ WindowDays \in Nat \ {0}
         /\ DayOf(at) \in PageDays(at)
         /\ IsFiniteSet(PageDays(at)) /\ Cardinality(PageDays(at)) = WindowDays
<1>1. WindowDays \in Nat \ {0}
  BY PageAssumption
<1>2. DayOf(at) \in Int
  BY DayFact
<1> DEFINE first == FirstDay(at)
<1>3. first \in Int /\ first <= DayOf(at) /\ DayOf(at) - first + 1 = WindowDays
  BY <1>1, <1>2 DEF FirstDay
<1> HIDE DEF first
<1>4. IsFiniteSet(first..DayOf(at)) /\ Cardinality(first..DayOf(at)) = WindowDays
  BY <1>2, <1>3, IntervalCardinality
<1> QED  BY <1>1, <1>2, <1>3, <1>4 DEF PageDays, first

\* A time is in a day if it is between its borders.
LEMMA DayBorders ==
  ASSUME NEW t \in Int, NEW day \in Int
  PROVE  /\ t >= day * Day <=> DayOf(t) >= day
         /\ day * Day <= t /\ t < (day + 1) * Day <=> DayOf(t) = day
<1>1. /\ Day \in Nat \ {0} /\ DayOf(t) \in Int /\ Day * DayOf(t) \in Int
      /\ Day * DayOf(t) <= t /\ t < Day * DayOf(t) + Day
  BY Lengths, DayFact
<1>2. day * Day = Day * day /\ Day * day \in Int /\ (day + 1) * Day = Day * day + Day
  BY <1>1, SMT
<1>3. ASSUME t >= Day * day  PROVE DayOf(t) >= day
  BY <1>1, <1>3, QuotientAtLeast DEF DayOf
<1>4. ASSUME DayOf(t) >= day  PROVE t >= Day * day
  <2>1. Day * day <= Day * DayOf(t)
    BY <1>1, <1>4, TimesIsMonotone
  <2> QED  BY <1>1, <1>2, <2>1
<1>5. ASSUME Day * day <= t, t < Day * day + Day  PROVE DayOf(t) = day
  BY <1>1, <1>5, QuotientIs DEF DayOf
<1> QED  BY <1>1, <1>2, <1>3, <1>4, <1>5

\* A bar lies in one day, and this day is one of the page.
LEMMA BarInDay ==
  ASSUME NEW at \in Int, NEW w \in BarWindows(at)
  PROVE  /\ w \in Int /\ DayOf(w) \in PageDays(at) /\ DayOf(w) \in Int
         /\ \A t \in Int : w <= t /\ t < w + HalfHour => DayOf(t) = DayOf(w)
<1>1. PICK i \in 0..Bars - 1 : w = floorToHalfHour(at) - HalfHour * i
  BY DEF BarWindows
<1> DEFINE b == floorToHalfHour(at)
<1>2. b \in Int /\ b % 2 = 0 /\ b <= at /\ at < b + 2
  BY HalfHours
<1>3. i \in Int /\ 0 <= i /\ i <= Bars - 1 /\ Bars \in Int
  BY PageAssumption
<1> HIDE DEF b
<1>4. w = b - 2 * i
  BY <1>1 DEF b, HalfHour
<1> DEFINE v == (b \div 2) - i
<1>5. v \in Int /\ w = 2 * v
  BY <1>2, <1>3, <1>4
<1> HIDE DEF v
<1>6. w \in Int /\ w <= at /\ at - 2 * Bars <= w
  BY <1>2, <1>3, <1>4
<1>7. \A t \in Int : w <= t /\ t < w + HalfHour => DayOf(t) = DayOf(w)
  BY <1>5, HalfHourInDay
<1>8. DayOf(w) <= DayOf(at) /\ DayOf(w) \in Int
  BY <1>6, DaysAreOrdered, DayFact
<1>9. DayOf(w) >= FirstDay(at)
  <2> DEFINE n == WindowDays - 1
             q == DayOf(at)
  <2>1. n \in Int /\ FirstDay(at) \in Int /\ FirstDay(at) = q - n /\ q \in Int
    BY PageDaysFact DEF FirstDay
  <2>2. Bars * 2 <= n * Day
    BY PageAssumption DEF HalfHour
  <2>3. Day * q \in Int /\ Day * q <= at /\ Day \in Int
    BY DayFact, Lengths
  <2> HIDE DEF n, q
  <2>4. (q - n) * Day = Day * q - n * Day /\ n * Day \in Int
    BY <2>1, <2>3, SMT
  <2>5. (q - n) * Day <= w
    BY <1>3, <1>6, <2>2, <2>3, <2>4
  <2> QED  BY <1>6, <2>1, <2>5, DayBorders
<1> QED  BY <1>6, <1>7, <1>8, <1>9, PageDaysFact DEF PageDays

\* An incident that ended covers none of the page's days that it did not while it lasted.
LEMMA EndCoversLess ==
  ASSUME NEW at \in Int, NEW i \in Incidents!Incident, NEW j \in Incidents!Incident,
         j.started = i.started, j.resolved = i.resolved \/ i.resolved = Ongoing
  PROVE  IncidentDays(j, at) \cap PageDays(at) \subseteq IncidentDays(i, at)
<1> SUFFICES ASSUME NEW day \in IncidentDays(j, at), day \in PageDays(at)
             PROVE  day \in IncidentDays(i, at)
  OBVIOUS
<1>1. i.started \in Int
  BY DEF Incidents!Incident
<1>2. DayOf(i.started) \in Int /\ DayOf(at) \in Int
  BY <1>1, DayFact
<1>3. CASE j.resolved = i.resolved
  BY <1>3 DEF IncidentDays
<1>4. CASE i.resolved = Ongoing
  <2>1. IncidentDays(i, at) = DayOf(i.started)..DayOf(at)
    BY <1>4 DEF IncidentDays
  <2>2. IncidentDays(j, at) = DayOf(i.started)..DayOf(IF j.resolved = Ongoing THEN at ELSE j.resolved)
    BY DEF IncidentDays
  <2>3. day \in Int /\ DayOf(i.started) <= day
    BY <1>2, <2>2
  <2>4. day <= DayOf(at)
    BY <1>2, PageDaysFact DEF PageDays
  <2> QED  BY <1>2, <2>1, <2>3, <2>4
<1> QED  BY <1>3, <1>4

\* What ended lately reaches up to the last past day.
LEMMA PastDayIsCovered ==
  ASSUME NEW t \in Int, NEW end \in Int, end >= t - Lag, NEW day \in Int, day < DayOf(t)
  PROVE  day <= DayOf(end)
<1>1. Lag \in Nat /\ Day \in Nat /\ Lag <= Day
  BY Lengths, PageAssumption
<1>2. DayOf(t) <= DayOf(end) + 1
  BY <1>1, NextDay
<1> QED  BY <1>2, DayFact

-------------------------------------------------------------------------------
(* The levels of a page's days and their counts (BuildUptimeDays).         *)

LEMMA DayLevelType ==
  ASSUME NEW overlapping, NEW at, NEW day
  PROVE  DayLevel(overlapping, at, day) \in Level
BY DEF DayLevel, Level

\* The numbers of days with and without an outage.
LEMMA OutagesAndOthers ==
  ASSUME NEW at \in Int, NEW level \in [PageDays(at) -> Level]
  PROVE  LET n(some) == Cardinality({day \in PageDays(at) : level[day] \in some})
         IN  /\ n({"outage"}) \in 0..WindowDays /\ n({"elevated"}) \in 0..WindowDays
             /\ n({"operational", "elevated"}) = WindowDays - n({"outage"})
<1> DEFINE U == PageDays(at)
           O == {day \in U : level[day] \in {"outage"}}
           E == {day \in U : level[day] \in {"elevated"}}
           N == {day \in U : level[day] \in {"operational", "elevated"}}
<1>1. IsFiniteSet(U) /\ Cardinality(U) = WindowDays /\ WindowDays \in Nat
  BY PageDaysFact
<1>2. O \in SUBSET U /\ E \in SUBSET U /\ N = U \ O
  BY DEF Level
<1> HIDE DEF U, O, E, N
<1>3. /\ IsFiniteSet(O) /\ Cardinality(O) <= WindowDays
      /\ IsFiniteSet(E) /\ Cardinality(E) <= WindowDays
  BY <1>1, <1>2, FS_Subset
<1>4. Cardinality(O) \in Nat /\ Cardinality(E) \in Nat
  BY <1>3, FS_CardinalityType
<1>5. Cardinality(N) = Cardinality(U) - Cardinality(U \cap O)
  BY <1>1, <1>2, FS_Difference
<1>6. U \cap O = O
  BY <1>2
<1>7. /\ Cardinality(O) \in 0..WindowDays /\ Cardinality(E) \in 0..WindowDays
      /\ Cardinality(N) = WindowDays - Cardinality(O)
  <2>1. Cardinality(N) = WindowDays - Cardinality(O)
    BY <1>1, <1>5, <1>6
  <2> QED  BY <1>1, <1>3, <1>4, <2>1
<1> QED  BY <1>7 DEF U, O, E, N

LEMMA Uptime ==
  ASSUME NEW overlapping, NEW at \in Int, NEW status \in Status
  PROVE  LET built == BuildUptimeDays(overlapping, at, status)
             level(day) == DayLevel(overlapping, at, day)
         IN  /\ DOMAIN built = {"days", "up", "outage", "elevated"}
             /\ built.days \in [PageDays(at) -> Level]
             /\ {built.up, built.outage, built.elevated} \subseteq 0..WindowDays
             /\ built.up <= WindowDays - built.outage
             /\ built.up >= WindowDays - built.outage - built.elevated
             /\ \A day \in PageDays(at) :
                  /\ day # DayOf(at) => built.days[day] = level(day)
                  /\ level(day) = "outage" => built.days[day] = "outage"
                  /\ level(day) # "operational" => built.days[day] # "operational"
<1> DEFINE U == PageDays(at)
           built == BuildUptimeDays(overlapping, at, status)
           before == [day \in U |-> DayLevel(overlapping, at, day)]
           today == DayOf(at)
           last == LastLevel(before[today], status)
           days == [before EXCEPT ![today] = last]
           outages(level) == {day \in U : level[day] \in {"outage"}}
           elevated(level) == {day \in U : level[day] \in {"elevated"}}
           ups == {day \in U : before[day] \in {"operational", "elevated"}}
           lost == UpLost(before[today], status)
<1>1. built = [days |-> days, up |-> Cardinality(ups) - lost,
               outage |-> Cardinality(outages(days)), elevated |-> Cardinality(elevated(days))]
  BY DEF BuildUptimeDays, LastLevel
<1>2. before \in [U -> Level] /\ today \in U /\ IsFiniteSet(U) /\ WindowDays \in Nat
  BY DayLevelType, PageDaysFact
<1>3. \A day \in U : before[day] = DayLevel(overlapping, at, day)
  OBVIOUS
<1> HIDE DEF before, built
<1>4. before[today] \in Level
  BY <1>2
<1>5. /\ last \in Level
      /\ before[today] = "outage" => last = "outage"
      /\ before[today] # "operational" => last # "operational"
  BY <1>4 DEF LastLevel, Level, Status
<1>6. /\ days \in [U -> Level]
      /\ days[today] = last
      /\ \A day \in U : day # today => days[day] = before[day]
  BY <1>2, <1>5
<1>7. /\ Cardinality(outages(before)) \in 0..WindowDays
      /\ Cardinality(ups) = WindowDays - Cardinality(outages(before))
  BY <1>2, OutagesAndOthers
<1>8. Cardinality(outages(days)) \in 0..WindowDays /\ Cardinality(elevated(days)) \in 0..WindowDays
  <2> HIDE DEF days
  <2> QED  BY <1>6, OutagesAndOthers
<1> DEFINE o == Cardinality(outages(before))
           n == Cardinality(outages(days))
           e == Cardinality(elevated(days))
<1>9. \/ lost = 0 /\ n = o
      \/ lost = 1 /\ n = o + 1
      \/ lost = 1 /\ n = o /\ e > 0 /\ o < WindowDays
  <2>1. CASE lost = 0
    <3>1. last = before[today]
      BY <1>4, <2>1 DEF UpLost, LastLevel, Level, Status
    <3>2. days = before
      BY <1>2, <3>1
    <3> QED  BY <2>1, <3>2
  <2>2. CASE before[today] # "outage" /\ status = "Outage"
    <3>1. lost = 1 /\ last = "outage"
      BY <2>2 DEF UpLost, LastLevel
    <3>2. outages(days) = outages(before) \cup {today} /\ today \notin outages(before)
      <4> HIDE DEF days, last, today
      <4> QED  BY <1>2, <1>6, <2>2, <3>1
    <3>3. IsFiniteSet(outages(before))
      BY <1>2, FS_Subset
    <3>4. Cardinality(outages(before) \cup {today}) = Cardinality(outages(before)) + 1
      <4> HIDE DEF outages, today
      <4> QED  BY <3>2, <3>3, FS_AddElement
    <3> QED  BY <3>1, <3>2, <3>4
  <2>3. CASE before[today] = "operational" /\ status = "Degraded"
    <3>1. lost = 1 /\ last = "elevated"
      BY <2>3 DEF UpLost, LastLevel
    <3>2. outages(days) = outages(before) /\ today \in elevated(days) /\ today \in ups
      <4> HIDE DEF days, last, today
      <4> QED  BY <1>2, <1>6, <2>3, <3>1
    <3>3. IsFiniteSet(elevated(days)) /\ IsFiniteSet(ups)
      BY <1>2, FS_Subset
    <3>4. Cardinality(elevated(days)) # 0 /\ Cardinality(ups) # 0
      <4> HIDE DEF days, elevated, ups, today
      <4> QED  BY <3>2, <3>3, FS_EmptySet
    <3> HIDE DEF days, elevated, outages, ups
    <3> QED  BY <1>2, <1>7, <1>8, <3>1, <3>2, <3>4
  <2> QED  BY <2>1, <2>2, <2>3 DEF UpLost
<1> DEFINE u == Cardinality(ups)
<1>10. u = WindowDays - o /\ o \in 0..WindowDays /\ n \in 0..WindowDays /\ e \in 0..WindowDays
  BY <1>7, <1>8
<1> HIDE DEF u, o, n, e, lost
<1>11. u - lost \in 0..WindowDays /\ u - lost <= WindowDays - n /\ u - lost >= WindowDays - n - e
  BY <1>2, <1>9, <1>10
<1>12. built = [days |-> days, up |-> u - lost, outage |-> n, elevated |-> e]
  BY <1>1 DEF u, n, e
<1> HIDE DEF days
<1>13. /\ DOMAIN built = {"days", "up", "outage", "elevated"}
       /\ built.days = days /\ built.up = u - lost /\ built.outage = n /\ built.elevated = e
  BY <1>12
<1>14. \A day \in U :
         /\ day # today => days[day] = before[day]
         /\ before[day] = "outage" => days[day] = "outage"
         /\ before[day] # "operational" => days[day] # "operational"
  BY <1>5, <1>6
<1>15. /\ DOMAIN built = {"days", "up", "outage", "elevated"}
       /\ built.days \in [U -> Level]
       /\ {built.up, built.outage, built.elevated} \subseteq 0..WindowDays
       /\ built.up <= WindowDays - built.outage
       /\ built.up >= WindowDays - built.outage - built.elevated
  BY <1>6, <1>10, <1>11, <1>13
<1>16. \A day \in U :
         /\ day # today => built.days[day] = DayLevel(overlapping, at, day)
         /\ DayLevel(overlapping, at, day) = "outage" => built.days[day] = "outage"
         /\ DayLevel(overlapping, at, day) # "operational" => built.days[day] # "operational"
  BY <1>3, <1>13, <1>14
<1> QED  BY <1>15, <1>16 DEF built

-------------------------------------------------------------------------------
(* The page: steps that read nothing.                                      *)

LEMMA PageInit ==
  ASSUME Init
  PROVE  PageInv
<1>1. LogInv /\ page = NoPage /\ shown = {}
  BY LogInit DEF Init
<1>2. page.phase = "none" /\ DOMAIN page = {"phase"}
  BY <1>1 DEF NoPage
<1>3. AskedInv
  BY <1>1, <1>2 DEF AskedInv, Phases, Fields
<1> QED
  BY <1>1, <1>2, <1>3
  DEF PageInv, BarsInv, BarsRead, CoversInv, StillListed, ShownInv, LevelsInv, DaysRead, TimelineInv

LEMMA PageUntouched ==
  ASSUME PageInv, UNCHANGED <<now, reports, log, page, shown>>
  PROVE  PageInv'
<1>1. LogInv' /\ UNCHANGED incidents
  BY DEF PageInv, LogInv, incidents
<1>2. AskedInv'
  BY DEF PageInv, AskedInv
<1>3. BarsInv'
  BY DEF PageInv, BarsInv, DailyReports, ReportsWithin
<1>4. UNCHANGED Covered
  BY DEF Covered
<1>5. CoversInv' /\ StillListed' /\ ShownInv'
  BY <1>1, <1>4 DEF PageInv, CoversInv, StillListed, ShownInv
<1>6. LevelsInv' /\ TimelineInv'
  BY <1>4 DEF PageInv, LevelsInv, TimelineInv
<1> QED  BY <1>1, <1>2, <1>3, <1>5, <1>6 DEF PageInv

LEMMA AtFacts ==
  ASSUME HistInv, AskedInv, page.phase # "none"
  PROVE  /\ page.at \in Time /\ page.at \in Nat /\ page.at <= now /\ now <= page.at + Lag
         /\ now \in Nat /\ Lag \in Nat
         /\ page.at - Lag \in Int /\ page.at - Lag <= now - Lag /\ now - Lag \in Int
BY Lengths DEF AskedInv, HistInv, HistoryTypeOK, Time

\* A day that has reports keeps them.
LEMMA PageReports ==
  ASSUME HistInv, PageInv, NEW t \in Recently, CreateUserReport(t), UNCHANGED <<log, page, shown>>
  PROVE  PageInv'
<1>1. HistInv' /\ reports \subseteq reports' /\ UNCHANGED now
  BY ReportStep DEF CreateUserReport
<1>2. LogInv' /\ UNCHANGED incidents
  BY DEF PageInv, LogInv, incidents
<1>3. AskedInv'
  BY <1>1 DEF PageInv, AskedInv
<1>4. ASSUME NEW day, DailyReports(day) > 0  PROVE DailyReports(day)' > 0
  <2>1. PICK r \in reports : day * Day <= r[1] /\ r[1] < (day + 1) * Day
    BY <1>4, WithinHasReport DEF DailyReports, HistInv
  <2>2. r \in reports'
    BY <1>1, <2>1
  <2> DEFINE some == {e \in reports' : day * Day <= e[1] /\ e[1] < (day + 1) * Day}
  <2>3. r \in some /\ some \in SUBSET reports'
    BY <2>1, <2>2
  <2>4. IsFiniteSet(reports')
    <3>1. \E e : reports' = reports \cup {e}
      BY DEF CreateUserReport
    <3> QED  BY <3>1, HistoryIsFinite, FS_AddElement DEF HistInv
  <2>5. DailyReports(day)' = Cardinality(some)
    BY DEF DailyReports, ReportsWithin
  <2> HIDE DEF some
  <2>6. IsFiniteSet(some)
    BY <2>3, <2>4, FS_Subset
  <2>7. Cardinality(some) \in Nat /\ Cardinality(some) # 0
    BY <2>3, <2>6, FS_EmptySet, FS_CardinalityType
  <2> QED  BY <2>5, <2>7
<1>5. BarsInv'
  <2> HIDE DEF DailyReports
  <2> QED  BY <1>4 DEF PageInv, BarsInv
<1>6. UNCHANGED Covered
  BY DEF Covered
<1>7. CoversInv' /\ StillListed' /\ ShownInv'
  BY <1>1, <1>2, <1>6 DEF PageInv, CoversInv, StillListed, ShownInv
<1>8. LevelsInv' /\ TimelineInv'
  BY <1>6 DEF PageInv, LevelsInv, TimelineInv
<1> QED  BY <1>2, <1>3, <1>5, <1>7, <1>8 DEF PageInv

\* Days become past ones, and the page is not older than Lag.
LEMMA PageTick ==
  ASSUME HistInv, PageInv, Tick, page # NoPage => now < page.at + Lag, UNCHANGED <<log, page, shown>>
  PROVE  PageInv'
<1>1. now \in Nat /\ now' = now + 1 /\ UNCHANGED reports /\ Lag \in Nat
  BY Lengths DEF Tick, HistInv, HistoryTypeOK, Time
<1>2. LogInv' /\ UNCHANGED incidents
  BY DEF PageInv, LogInv, incidents
<1>3. AskedInv'
  <2>1. ASSUME page.phase # "none"
        PROVE  page.at \in Time /\ page.at <= now + 1 /\ now + 1 <= page.at + Lag
    <3>1. page # NoPage
      BY <2>1 DEF NoPage
    <3> QED  BY <1>1, <2>1, <3>1, AtFacts DEF PageInv
  <2> QED  BY <1>1, <2>1 DEF PageInv, AskedInv
<1>4. BarsInv'
  BY <1>1 DEF PageInv, BarsInv, DailyReports, ReportsWithin
<1>5. UNCHANGED Covered
  BY DEF Covered
<1>6. CoversInv' /\ StillListed'
  BY <1>2, <1>5 DEF PageInv, CoversInv, StillListed
<1>7. ShownInv'
  <2>1. DayOf(now) \in Int /\ DayOf(now + 1) \in Int /\ DayOf(now) <= DayOf(now + 1)
    BY <1>1, DaysAreOrdered, DayFact
  <2>2. \A day \in shown : day < DayOf(now + 1)
    BY <2>1 DEF PageInv, ShownInv
  <2> HIDE DEF DayOf
  <2> QED  BY <1>1, <1>2, <1>5, <2>2 DEF PageInv, ShownInv
<1>8. LevelsInv' /\ TimelineInv'
  BY <1>5 DEF PageInv, LevelsInv, TimelineInv
<1> QED  BY <1>2, <1>3, <1>4, <1>6, <1>7, <1>8 DEF PageInv

-------------------------------------------------------------------------------
(* The page while the tracker opens and resolves incidents.                *)

LEMMA LogStep ==
  ASSUME HistInv, LogInv, TrackIncidents
  PROVE  /\ LogInv' /\ LogMoves /\ DOMAIN incidents \subseteq DOMAIN incidents'
         /\ UNCHANGED <<now, created, reports, rollups, baselines, page, shown>>
<1>1. PICK at \in Recently : Incidents!Open(Shown, at) \/ Incidents!Resolve(Shown, at)
  BY DEF TrackIncidents
<1>2. UNCHANGED <<now, created, reports, rollups, baselines, page, shown>>
  BY DEF TrackIncidents, history
<1> QED  BY <1>1, <1>2, LogOpens, LogResolves

LEMMA PageTracks ==
  ASSUME HistInv, PageInv, TrackIncidents
  PROVE  PageInv'
<1>1. /\ LogInv /\ LogInv' /\ LogMoves /\ DOMAIN incidents \subseteq DOMAIN incidents'
      /\ UNCHANGED <<now, reports, page, shown>>
  BY LogStep DEF PageInv
<1>2. AskedInv'
  BY <1>1 DEF PageInv, AskedInv
<1>3. BarsInv'
  BY <1>1 DEF PageInv, BarsInv, DailyReports, ReportsWithin
<1>4. UNCHANGED Covered
  BY <1>1 DEF Covered
<1> DEFINE new == incidents'
<1>5. \A k \in DOMAIN new : new[k] \in Incidents!Incident /\ new[k].started \in Int /\ new[k].resolved \in Int
  <2>1. log' \in [{Shown} -> Seq(Incidents!Incident)]
    BY <1>1 DEF LogInv
  <2>2. new \in Seq(Incidents!Incident)
    BY <2>1 DEF incidents
  <2> HIDE DEF new
  <2>3. \A k \in DOMAIN new : new[k] \in Incidents!Incident
    BY <2>2
  <2> QED  BY <2>3, Lengths DEF Incidents!Incident, Incidents!Ongoing
<1>6. \A k \in DOMAIN new :
        \/ /\ k \in DOMAIN incidents /\ new[k].started = incidents[k].started
           /\ \/ new[k].resolved = incidents[k].resolved
              \/ incidents[k].resolved = Ongoing /\ new[k].resolved # Ongoing /\ new[k].resolved >= now - Lag
        \/ k \notin DOMAIN incidents /\ new[k].started >= now - Lag
  <2>1. \A t \in Time : t # Ongoing
    BY Lengths DEF Time, Ongoing, Incidents!Ongoing
  <2> QED  BY <1>1, <2>1 DEF LogMoves
<1>7. DOMAIN incidents \subseteq DOMAIN new
  BY <1>1
<1>8. CoversInv'
  <2> SUFFICES ASSUME page.phase \in {"days", "timeline"}, NEW k \in DOMAIN new,
                      new[k].started < page.at - Lag,
                      new[k].resolved = Ongoing \/ DayOf(new[k].resolved) >= FirstDay(page.at)
               PROVE  IncidentDays(new[k], page.at) \cap PageDays(page.at) \subseteq Covered
    BY <1>1, <1>4 DEF CoversInv, Ongoing
  <2> HIDE DEF new
  <2>1. /\ page.at \in Int /\ page.at - Lag \in Int /\ now - Lag \in Int
        /\ page.at - Lag <= now - Lag
    BY AtFacts, Lengths DEF PageInv
  <2>2. /\ k \in DOMAIN incidents /\ new[k].started = incidents[k].started
        /\ new[k].resolved = incidents[k].resolved \/ incidents[k].resolved = Ongoing
    BY <1>5, <1>6, <2>1
  <2>3. incidents[k] \in Incidents!Incident
    BY <1>1, <2>2, LogTypes
  <2>4. IncidentDays(incidents[k], page.at) \cap PageDays(page.at) \subseteq Covered
    BY <2>2 DEF PageInv, CoversInv
  <2>5. IncidentDays(new[k], page.at) \cap PageDays(page.at) \subseteq IncidentDays(incidents[k], page.at)
    BY <1>5, <2>1, <2>2, <2>3, EndCoversLess
  <2> QED  BY <2>4, <2>5
<1>9. StillListed'
  <2> SUFFICES ASSUME page.phase = "days", NEW i \in page.overlapping
               PROVE  \E k \in DOMAIN new :
                        /\ new[k].started = i.started
                        /\ \/ new[k].resolved = i.resolved
                           \/ i.resolved = Ongoing /\ new[k].resolved >= page.at - Lag
    BY <1>1 DEF StillListed, Ongoing
  <2> HIDE DEF new
  <2>1. PICK k \in DOMAIN incidents :
          /\ incidents[k].started = i.started
          /\ \/ incidents[k].resolved = i.resolved
             \/ i.resolved = Ongoing /\ incidents[k].resolved >= page.at - Lag
    BY DEF PageInv, StillListed
  <2>2. /\ page.at - Lag \in Int /\ now - Lag \in Int
        /\ page.at - Lag <= now - Lag
    BY AtFacts DEF PageInv
  <2>3. k \in DOMAIN new /\ new[k].resolved \in Int /\ new[k].started = i.started
    BY <1>5, <1>6, <1>7, <2>1
  <2>4. \/ new[k].resolved = incidents[k].resolved
        \/ incidents[k].resolved = Ongoing /\ new[k].resolved >= now - Lag
    BY <1>6, <2>1, <2>3
  <2>5. ASSUME incidents[k].resolved = Ongoing, i.resolved = Ongoing, new[k].resolved >= now - Lag
        PROVE  new[k].resolved >= page.at - Lag
    BY <2>2, <2>3, <2>5
  <2>6. ASSUME incidents[k].resolved = Ongoing, new[k].resolved >= now - Lag
        PROVE  i.resolved = Ongoing
    BY <2>1, <2>6
  <2> QED  BY <2>1, <2>3, <2>4, <2>5, <2>6
<1>10. ShownInv'
  <2>1. ASSUME NEW day \in shown
        PROVE  \E k \in DOMAIN new :
                 /\ DayOf(new[k].started) <= day
                 /\ new[k].resolved = Ongoing \/ day <= DayOf(new[k].resolved)
    <3> HIDE DEF new
    <3>1. PICK k \in DOMAIN incidents :
            /\ DayOf(incidents[k].started) <= day
            /\ incidents[k].resolved = Ongoing \/ day <= DayOf(incidents[k].resolved)
      BY <2>1 DEF PageInv, ShownInv
    <3>2. day \in Int /\ day < DayOf(now) /\ now \in Int
      BY <2>1, Lengths DEF PageInv, ShownInv, HistInv, HistoryTypeOK, Time
    <3>3. k \in DOMAIN new /\ new[k].resolved \in Int /\ new[k].started = incidents[k].started
      BY <1>5, <1>6, <1>7, <3>1
    <3>4. ASSUME new[k].resolved >= now - Lag  PROVE day <= DayOf(new[k].resolved)
      BY <3>2, <3>3, <3>4, PastDayIsCovered
    <3> QED  BY <1>6, <3>1, <3>3, <3>4
  <2>2. \A day \in shown :
          /\ day \in Nat /\ day < DayOf(now)
          /\ page.phase # "none" => day < DayOf(page.at)
    BY DEF PageInv, ShownInv
  <2>3. page.phase \in {"days", "timeline", "done"} => shown \cap PageDays(page.at) \subseteq Covered
    BY DEF PageInv, ShownInv
  <2> QED  BY <1>1, <1>4, <2>1, <2>2, <2>3 DEF ShownInv, Ongoing
<1>11. LevelsInv' /\ TimelineInv'
  BY <1>1, <1>4 DEF PageInv, LevelsInv, TimelineInv
<1> QED  BY <1>1, <1>2, <1>3, <1>8, <1>9, <1>10, <1>11 DEF PageInv

-------------------------------------------------------------------------------
(* The page, read by read.                                                 *)

\* A read adds its fields to the page.
LEMMA ReadsAdds ==
  ASSUME NEW phase, NEW fields, NEW next, Reads(phase, fields, next),
         "phase" \in DOMAIN page, "phase" \notin DOMAIN fields
  PROVE  /\ page.phase = phase /\ page'.phase = next
         /\ DOMAIN page' = DOMAIN fields \cup DOMAIN page
         /\ \A f \in DOMAIN fields : page'[f] = fields[f]
         /\ \A f \in DOMAIN page : f # "phase" /\ f \notin DOMAIN fields => page'[f] = page[f]
         /\ UNCHANGED <<now, created, reports, rollups, baselines, log, incidents>>
<1>1. page' = [f \in DOMAIN page \cup DOMAIN fields |->
                 IF f = "phase" THEN next
                 ELSE IF f \in DOMAIN fields THEN fields[f] ELSE page[f]]
  BY DEF Reads
<1>2. /\ DOMAIN page' = DOMAIN fields \cup DOMAIN page
      /\ \A f \in DOMAIN fields : page'[f] = fields[f]
      /\ \A f \in DOMAIN page : f # "phase" /\ f \notin DOMAIN fields => page'[f] = page[f]
      /\ page'["phase"] = next
  BY <1>1
<1>3. page.phase = phase /\ UNCHANGED <<now, created, reports, rollups, baselines, log, incidents>>
  BY DEF Reads, history, incidents
<1> QED  BY <1>2, <1>3

LEMMA PageOpens ==
  ASSUME HistInv, PageInv, OpenPage
  PROVE  PageInv'
<1>1. /\ page' = [phase |-> "bars", at |-> now] /\ page.phase = "none"
      /\ UNCHANGED <<now, reports, log, shown, incidents>>
  BY DEF OpenPage, NoPage, history, incidents
<1>2. page'.phase = "bars" /\ page'.at = now /\ DOMAIN page' = {"phase", "at"}
  BY <1>1
<1>3. LogInv'
  BY <1>1 DEF PageInv, LogInv
<1>4. AskedInv'
  BY <1>1, <1>2, Lengths DEF AskedInv, Phases, Fields, HistInv, HistoryTypeOK, Time
<1>5. ShownInv'
  BY <1>1, <1>2 DEF PageInv, ShownInv
<1> QED
  BY <1>2, <1>3, <1>4, <1>5
  DEF PageInv, BarsInv, BarsRead, CoversInv, StillListed, LevelsInv, DaysRead, TimelineInv

LEMMA PageResponds ==
  ASSUME HistInv, PageInv, Respond
  PROVE  PageInv'
<1>1. page' = [phase |-> "none"] /\ UNCHANGED <<now, reports, log, shown, incidents>>
  BY DEF Respond, NoPage, history, incidents
<1>2. page'.phase = "none" /\ DOMAIN page' = {"phase"}
  BY <1>1
<1>3. LogInv'
  BY <1>1 DEF PageInv, LogInv
<1>4. AskedInv'
  BY <1>1, <1>2 DEF AskedInv, Phases, Fields, NoPage
<1>5. ShownInv'
  BY <1>1, <1>2 DEF PageInv, ShownInv
<1> QED
  BY <1>2, <1>3, <1>4, <1>5
  DEF PageInv, BarsInv, BarsRead, CoversInv, StillListed, LevelsInv, DaysRead, TimelineInv

\* A report that a bar counts is one of the bar's day.
LEMMA BarHasDay ==
  ASSUME HistInv, NEW at \in Int, NEW w \in BarWindows(at), ReportsWithin(w, w + HalfHour) > 0
  PROVE  DailyReports(DayOf(w)) > 0
<1>1. HistoryTypeOK
  BY DEF HistInv
<1>2. PICK r \in reports : w <= r[1] /\ r[1] < w + HalfHour
  BY <1>1, WithinHasReport
<1>3. r[1] \in Int /\ w \in Int /\ DayOf(w) \in Int
  BY <1>1, <1>2, Lengths, BarInDay DEF HistoryTypeOK, Time
<1>4. DayOf(r[1]) = DayOf(w)
  BY <1>2, <1>3, BarInDay
<1>5. DayOf(w) * Day <= r[1] /\ r[1] < (DayOf(w) + 1) * Day
  BY <1>3, <1>4, DayBorders
<1> QED  BY <1>1, <1>2, <1>5, WithinIsPositive DEF DailyReports

LEMMA PageReadsBars ==
  ASSUME HistInv, PageInv, ReadBars
  PROVE  PageInv'
<1> DEFINE bars == [w \in BarWindows(page.at) |-> ReportsWithin(w, w + HalfHour)]
           fields == [bars |-> bars]
<1>1. Reads("bars", fields, "incidents") /\ UNCHANGED shown
  BY DEF ReadBars
<1>2. DOMAIN fields = {"bars"} /\ fields["bars"] = bars
  OBVIOUS
<1>3. page.phase = "bars"
  BY <1>1 DEF Reads
<1>4. DOMAIN page = {"phase", "at"} /\ page.at \in Int
  BY <1>3, AtFacts DEF PageInv, AskedInv, Fields
<1> HIDE DEF fields, bars
<1>5. /\ page'.phase = "incidents" /\ DOMAIN page' = {"phase", "at", "bars"}
      /\ page'.at = page.at /\ page'.bars = bars
      /\ UNCHANGED <<now, reports, log, incidents>>
  BY <1>1, <1>2, <1>4, ReadsAdds
<1>6. LogInv'
  BY <1>5 DEF PageInv, LogInv
<1>7. AskedInv'
  BY <1>3, <1>5 DEF PageInv, AskedInv, Phases, Fields
<1>8. BarsInv'
  <2>1. DOMAIN bars = BarWindows(page.at)
          /\ \A w \in BarWindows(page.at) : bars[w] = ReportsWithin(w, w + HalfHour)
    BY DEF bars
  <2>2. \A w \in BarWindows(page.at) : bars[w] > 0 => DailyReports(DayOf(w)) > 0
    BY <1>4, <2>1, BarHasDay
  <2>3. \A day : DailyReports(day)' = DailyReports(day)
    BY <1>5 DEF DailyReports, ReportsWithin
  <2> QED  BY <1>5, <2>1, <2>2, <2>3 DEF BarsInv, DaysRead
<1>9. ShownInv'
  BY <1>1, <1>3, <1>5 DEF PageInv, ShownInv
<1> QED
  BY <1>5, <1>6, <1>7, <1>8, <1>9 DEF PageInv, CoversInv, StillListed, LevelsInv, DaysRead, TimelineInv

LEMMA PageReadsIncidents ==
  ASSUME HistInv, PageInv, ReadIncidents
  PROVE  PageInv'
<1> DEFINE overlapping == {i \in Listed : Overlapping(i, FirstDay(page.at) * Day, page.at)}
           fields == [overlapping |-> overlapping]
<1>1. Reads("incidents", fields, "days") /\ UNCHANGED shown
  BY DEF ReadIncidents
<1>2. DOMAIN fields = {"overlapping"} /\ fields["overlapping"] = overlapping
  OBVIOUS
<1>3. page.phase = "incidents"
  BY <1>1 DEF Reads
<1>4. /\ DOMAIN page = {"phase", "at", "bars"} /\ page.at \in Int /\ Lag \in Nat
      /\ FirstDay(page.at) \in Int
  BY <1>3, AtFacts, PageDaysFact DEF PageInv, AskedInv, Fields
<1> HIDE DEF fields, overlapping
<1>5. /\ page'.phase = "days" /\ DOMAIN page' = {"phase", "at", "bars", "overlapping"}
      /\ page'.at = page.at /\ page'.bars = page.bars /\ page'.overlapping = overlapping
      /\ UNCHANGED <<now, reports, log, incidents>>
  BY <1>1, <1>2, <1>4, ReadsAdds
<1>6. LogInv'
  BY <1>5 DEF PageInv, LogInv
<1>7. AskedInv'
  BY <1>3, <1>5 DEF PageInv, AskedInv, Phases, Fields
<1>8. BarsInv'
  <2>1. \A day : DailyReports(day)' = DailyReports(day)
    BY <1>5 DEF DailyReports, ReportsWithin
  <2>2. /\ DOMAIN page.bars = BarWindows(page.at)
        /\ \A w \in BarWindows(page.at) : page.bars[w] > 0 => DailyReports(DayOf(w)) > 0
    BY <1>3 DEF PageInv, BarsInv, BarsRead, DaysRead
  <2> QED  BY <1>5, <2>1, <2>2 DEF BarsInv, DaysRead
<1>9. Covered' = {day \in PageDays(page.at) : \E i \in overlapping : day \in IncidentDays(i, page.at)}
  BY <1>5 DEF Covered
<1>10. ASSUME NEW k \in DOMAIN incidents, incidents[k].started <= page.at,
              incidents[k].resolved = Ongoing \/ DayOf(incidents[k].resolved) >= FirstDay(page.at)
       PROVE  incidents[k] \in overlapping
  <2>1. incidents[k].resolved \in Int
    BY LogTypes DEF PageInv
  <2>2. incidents[k].resolved = Ongoing \/ incidents[k].resolved >= FirstDay(page.at) * Day
    BY <1>4, <1>10, <2>1, DayBorders
  <2> QED  BY <1>10, <2>2 DEF overlapping, Overlapping, Listed
<1>11. CoversInv'
  <2> SUFFICES ASSUME NEW k \in DOMAIN incidents, incidents[k].started < page.at - Lag,
                      incidents[k].resolved = Ongoing \/ DayOf(incidents[k].resolved) >= FirstDay(page.at)
               PROVE  IncidentDays(incidents[k], page.at) \cap PageDays(page.at) \subseteq Covered'
    BY <1>5 DEF CoversInv
  <2>1. incidents[k].started <= page.at
    BY <1>4, LogTypes DEF PageInv
  <2>2. incidents[k] \in overlapping
    BY <1>10, <2>1
  <2> QED  BY <1>9, <2>2
<1>12. StillListed'
  BY <1>5 DEF StillListed, overlapping, Listed
<1>13. ShownInv'
  <2>1. ASSUME NEW day \in shown, day \in PageDays(page.at)
        PROVE  day \in Covered'
    <3>1. PICK k \in DOMAIN incidents :
            /\ DayOf(incidents[k].started) <= day
            /\ incidents[k].resolved = Ongoing \/ day <= DayOf(incidents[k].resolved)
      BY <2>1 DEF PageInv, ShownInv
    <3>2. day \in Int /\ day < DayOf(page.at) /\ FirstDay(page.at) <= day
      BY <1>3, <1>4, <2>1, DayFact DEF PageInv, ShownInv, PageDays
    <3>3. /\ incidents[k].started \in Int /\ incidents[k].resolved \in Int
          /\ DayOf(incidents[k].started) \in Int /\ DayOf(incidents[k].resolved) \in Int
          /\ DayOf(page.at) \in Int
      BY <1>4, LogTypes, DayFact DEF PageInv
    <3>4. incidents[k].started <= page.at
      <4>1. SUFFICES ASSUME page.at <= incidents[k].started  PROVE FALSE
        BY <1>4, <3>3
      <4>2. DayOf(page.at) <= DayOf(incidents[k].started)
        BY <1>4, <3>3, <4>1, DaysAreOrdered
      <4> QED  BY <3>1, <3>2, <3>3, <4>2
    <3>5. incidents[k] \in overlapping
      BY <1>4, <1>10, <3>1, <3>2, <3>3, <3>4
    <3>6. day \in IncidentDays(incidents[k], page.at)
      BY <3>1, <3>2, <3>3 DEF IncidentDays
    <3> QED  BY <1>9, <2>1, <3>5, <3>6
  <2>2. \A day \in shown :
          /\ day \in Nat /\ day < DayOf(now) /\ day < DayOf(page.at)
          /\ \E k \in DOMAIN incidents :
               /\ DayOf(incidents[k].started) <= day
               /\ incidents[k].resolved = Ongoing \/ day <= DayOf(incidents[k].resolved)
    BY <1>3 DEF PageInv, ShownInv
  <2> QED  BY <1>1, <1>5, <2>1, <2>2 DEF ShownInv
<1> QED
  BY <1>5, <1>6, <1>7, <1>8, <1>11, <1>12, <1>13 DEF PageInv, LevelsInv, DaysRead, TimelineInv

LEMMA PageReadsDays ==
  ASSUME HistInv, PageInv, ReadDays
  PROVE  PageInv'
<1> DEFINE level(day) == DayLevel(page.overlapping, page.at, day)
<1>1. PICK status \in Status : Reads("days", BuildUptimeDays(page.overlapping, page.at, status), "timeline")
  BY DEF ReadDays
<1> DEFINE fields == BuildUptimeDays(page.overlapping, page.at, status)
<1>2. page.phase = "days"
  BY <1>1 DEF Reads
<1>3. /\ DOMAIN page = {"phase", "at", "bars", "overlapping"}
      /\ page.at \in Int /\ page.at \in Nat /\ page.at <= now /\ now \in Int
      /\ FirstDay(page.at) \in Int /\ DayOf(page.at) \in Int
  BY <1>2, AtFacts, PageDaysFact DEF PageInv, AskedInv, Fields
<1>4. /\ DOMAIN fields = {"days", "up", "outage", "elevated"}
      /\ fields.days \in [PageDays(page.at) -> Level]
      /\ {fields.up, fields.outage, fields.elevated} \subseteq 0..WindowDays
      /\ fields.up <= WindowDays - fields.outage
      /\ fields.up >= WindowDays - fields.outage - fields.elevated
      /\ \A day \in PageDays(page.at) :
           /\ day # DayOf(page.at) => fields.days[day] = level(day)
           /\ level(day) = "outage" => fields.days[day] = "outage"
           /\ level(day) # "operational" => fields.days[day] # "operational"
  BY <1>3, Uptime
<1> HIDE DEF fields
<1>5. Reads("days", fields, "timeline")
  BY <1>1 DEF fields
<1>6. /\ page'.phase = "timeline"
      /\ DOMAIN page' = {"phase", "at", "bars", "overlapping", "days", "up", "outage", "elevated"}
      /\ page'.at = page.at /\ page'.bars = page.bars /\ page'.overlapping = page.overlapping
      /\ page'.days = fields.days /\ page'.up = fields.up
      /\ page'.outage = fields.outage /\ page'.elevated = fields.elevated
      /\ UNCHANGED <<now, reports, log, incidents>>
  <2>1. /\ page'.phase = "timeline" /\ DOMAIN page' = DOMAIN fields \cup DOMAIN page
        /\ \A f \in DOMAIN fields : page'[f] = fields[f]
        /\ \A f \in DOMAIN page : f # "phase" /\ f \notin DOMAIN fields => page'[f] = page[f]
        /\ UNCHANGED <<now, created, reports, rollups, baselines, log, incidents>>
    BY <1>3, <1>4, <1>5, ReadsAdds
  <2> QED  BY <1>3, <1>4, <2>1
<1>7. shown' = shown \cup {day \in 0..DayOf(page.at) - 1 \cap PageDays(page.at) : fields.days[day] = "outage"}
  BY <1>6 DEF ReadDays
<1>8. \A day \in PageDays(page.at) :
        /\ level(day) = "outage" <=> day \in Covered
        /\ DailyReports(day) > 0 => level(day) # "operational"
  BY <1>2 DEF DayLevel, Covered
<1>9. Covered' = {day \in PageDays(page.at) : fields.days[day] = "outage"}
  BY <1>6 DEF Covered
<1>10. Covered \subseteq PageDays(page.at) /\ Covered \subseteq Covered'
  <2>1. Covered \subseteq PageDays(page.at)
    BY DEF Covered
  <2> QED  BY <1>4, <1>8, <1>9, <2>1
<1> HIDE DEF level
<1>11. LogInv'
  BY <1>6 DEF PageInv, LogInv
<1>12. AskedInv'
  BY <1>2, <1>6 DEF PageInv, AskedInv, Phases, Fields
<1>13. BarsInv'
  <2>1. /\ DOMAIN page.bars = BarWindows(page.at)
        /\ \A w \in BarWindows(page.at) : page.bars[w] > 0 => DailyReports(DayOf(w)) > 0
    BY <1>2 DEF PageInv, BarsInv, BarsRead, DaysRead
  <2>2. \A w \in BarWindows(page.at) : page.bars[w] > 0 => fields.days[DayOf(w)] # "operational"
    BY <1>3, <1>4, <1>8, <2>1, BarInDay
  <2> QED  BY <1>6, <2>1, <2>2 DEF BarsInv, DaysRead
<1>14. CoversInv'
  BY <1>2, <1>6, <1>10 DEF PageInv, CoversInv
<1>15. LevelsInv'
  BY <1>4, <1>6 DEF LevelsInv
<1>16. ShownInv'
  <2>1. ASSUME NEW day \in PageDays(page.at), day \in 0..DayOf(page.at) - 1, fields.days[day] = "outage"
        PROVE  /\ day \in Nat /\ day < DayOf(now) /\ day < DayOf(page.at)
               /\ \E k \in DOMAIN incidents :
                    /\ DayOf(incidents[k].started) <= day
                    /\ incidents[k].resolved = Ongoing \/ day <= DayOf(incidents[k].resolved)
    <3>1. day \in Nat /\ day < DayOf(page.at) /\ day < DayOf(now)
      BY <1>3, <2>1, DaysAreOrdered, DayFact
    <3>2. day \in Covered
      <4>1. day # DayOf(page.at)
        BY <1>3, <3>1
      <4> QED  BY <1>4, <1>8, <2>1, <4>1
    <3>3. PICK i \in page.overlapping : day \in IncidentDays(i, page.at)
      BY <1>2, <3>2 DEF Covered
    <3>4. PICK k \in DOMAIN incidents :
            /\ incidents[k].started = i.started
            /\ \/ incidents[k].resolved = i.resolved
               \/ i.resolved = Ongoing /\ incidents[k].resolved >= page.at - Lag
      BY <1>2 DEF PageInv, StillListed
    <3>5. /\ incidents[k].started \in Int /\ incidents[k].resolved \in Int
          /\ DayOf(incidents[k].started) \in Int
      BY LogTypes, DayFact DEF PageInv
    <3>6. day \in DayOf(i.started)..DayOf(IF i.resolved = Ongoing THEN page.at ELSE i.resolved)
      BY <3>3 DEF IncidentDays
    <3>7. DayOf(incidents[k].started) <= day
      BY <3>1, <3>4, <3>5, <3>6
    <3>8. CASE incidents[k].resolved = i.resolved
      <4>1. ASSUME i.resolved # Ongoing  PROVE day <= DayOf(incidents[k].resolved)
        <5>1. DayOf(i.resolved) \in Int /\ day \in DayOf(i.started)..DayOf(i.resolved)
          BY <3>5, <3>6, <3>8, <4>1, DayFact
        <5> QED  BY <3>1, <3>4, <3>5, <3>8, <5>1
      <4> QED  BY <3>1, <3>7, <3>8, <4>1
    <3>9. CASE incidents[k].resolved >= page.at - Lag
      <4>1. day <= DayOf(incidents[k].resolved)
        BY <1>3, <3>1, <3>5, <3>9, PastDayIsCovered
      <4> QED  BY <3>1, <3>7, <4>1
    <3> QED  BY <3>4, <3>8, <3>9
  <2>2. \A day \in shown :
          /\ day \in Nat /\ day < DayOf(now) /\ day < DayOf(page.at)
          /\ \E k \in DOMAIN incidents :
               /\ DayOf(incidents[k].started) <= day
               /\ incidents[k].resolved = Ongoing \/ day <= DayOf(incidents[k].resolved)
    BY <1>2 DEF PageInv, ShownInv
  <2>3. \A day \in shown' :
          /\ day \in Nat /\ day < DayOf(now) /\ day < DayOf(page.at)
          /\ \E k \in DOMAIN incidents :
               /\ DayOf(incidents[k].started) <= day
               /\ incidents[k].resolved = Ongoing \/ day <= DayOf(incidents[k].resolved)
    BY <1>7, <2>1, <2>2
  <2>4. shown \cap PageDays(page.at) \subseteq Covered
    BY <1>2 DEF PageInv, ShownInv
  <2>5. shown' \cap PageDays(page.at) \subseteq Covered'
    BY <1>7, <1>9, <1>10, <2>4
  <2> QED  BY <1>6, <2>3, <2>5 DEF ShownInv
<1> QED
  BY <1>6, <1>11, <1>12, <1>13, <1>14, <1>15, <1>16 DEF PageInv, StillListed, TimelineInv

LEMMA PageReadsTimeline ==
  ASSUME HistInv, PageInv, ReadTimeline
  PROVE  PageInv'
<1> DEFINE since == FirstDay(page.at) * Day
           recent == {k \in DOMAIN incidents :
                        \/ incidents[k].started >= since
                        \/ incidents[k].resolved # Ongoing /\ incidents[k].resolved >= since}
           newest == {k \in recent : Cardinality({j \in recent : j > k}) < TimelineLimit}
           timeline == {incidents[k] : k \in newest}
<1>1. /\ Reads("timeline", [timeline |-> timeline], "done")
      /\ \A i \in timeline : \E k \in DOMAIN incidents :
           /\ i = incidents[k]
           /\ \/ i.started >= FirstDay(page.at) * Day
              \/ i.resolved # Ongoing /\ i.resolved >= FirstDay(page.at) * Day
  BY DEF ReadTimeline
<1> HIDE DEF timeline, newest, recent, since
<1> DEFINE fields == [timeline |-> timeline]
<1>2. DOMAIN fields = {"timeline"} /\ fields["timeline"] = timeline
  OBVIOUS
<1>3. page.phase = "timeline" /\ UNCHANGED shown
  BY DEF ReadTimeline, Reads
<1>4. /\ DOMAIN page = {"phase", "at", "bars", "overlapping", "days", "up", "outage", "elevated"}
      /\ page.at \in Int /\ FirstDay(page.at) \in Int
  BY <1>3, AtFacts, PageDaysFact DEF PageInv, AskedInv, Fields
<1> HIDE DEF fields
<1>5. Reads("timeline", fields, "done")
  BY <1>1 DEF fields
<1>6. /\ page'.phase = "done"
      /\ DOMAIN page' = {"phase", "at", "bars", "overlapping", "days", "up", "outage", "elevated", "timeline"}
      /\ page'.at = page.at /\ page'.bars = page.bars /\ page'.days = page.days
      /\ page'.up = page.up /\ page'.outage = page.outage /\ page'.elevated = page.elevated
      /\ page'.timeline = timeline
      /\ UNCHANGED <<now, reports, log, incidents>>
  BY <1>2, <1>4, <1>5, ReadsAdds
<1>7. Covered' = Covered
  BY <1>3, <1>6 DEF Covered
<1>8. LogInv'
  BY <1>6 DEF PageInv, LogInv
<1>9. AskedInv'
  BY <1>3, <1>6 DEF PageInv, AskedInv, Phases, Fields
<1>10. BarsInv'
  BY <1>3, <1>6 DEF PageInv, BarsInv, BarsRead, DaysRead
<1>11. ShownInv'
  BY <1>3, <1>6, <1>7 DEF PageInv, ShownInv
<1>12. LevelsInv'
  BY <1>3, <1>6 DEF PageInv, LevelsInv, DaysRead
<1>13. TimelineInv'
  <2> SUFFICES ASSUME NEW i \in timeline, i.started < page.at - Lag
               PROVE  IncidentDays(i, page.at) \cap PageDays(page.at) \subseteq Covered
    BY <1>6, <1>7 DEF TimelineInv
  <2>1. PICK k \in DOMAIN incidents :
          /\ i = incidents[k]
          /\ \/ i.started >= FirstDay(page.at) * Day
             \/ i.resolved # Ongoing /\ i.resolved >= FirstDay(page.at) * Day
    BY <1>1
  <2>2. i.started \in Int /\ i.resolved \in Int /\ FirstDay(page.at) * Day \in Int
    <3>1. i.started \in Int /\ i.resolved \in Int
      BY <2>1, LogTypes DEF PageInv
    <3> QED  BY <1>4, <3>1, Lengths, SMT
  <2>3. i.resolved = Ongoing \/ DayOf(i.resolved) >= FirstDay(page.at)
    <3>1. SUFFICES ASSUME i.resolved # Ongoing  PROVE i.resolved >= FirstDay(page.at) * Day
      BY <1>4, <2>2, DayBorders
    <3>2. i.started <= i.resolved
      BY <2>1, <3>1 DEF PageInv, LogInv
    <3>3. i.started >= since \/ i.resolved >= since
      BY <2>1 DEF since
    <3>4. since \in Int
      BY <2>2 DEF since
    <3>5. i.resolved >= since
      BY <2>2, <3>2, <3>3, <3>4
    <3> QED  BY <3>5 DEF since
  <2> QED  BY <1>3, <2>1, <2>3 DEF PageInv, CoversInv
<1> QED
  BY <1>6, <1>8, <1>9, <1>10, <1>11, <1>12, <1>13 DEF PageInv, CoversInv, StillListed

-------------------------------------------------------------------------------
(* The theorems.                                                           *)

IInv ==
  /\ AgeInv
  /\ PageInv
  /\ reader \in {"refresher", "page"}

LEMMA InitIInv == Init => IInv
BY AgeInit, PageInit DEF IInv, Init

LEMMA HistoryKept ==
  ASSUME IInv, HistoryStep, UNCHANGED <<log, page, shown>>
  PROVE  PageInv'
<1>1. ASSUME NEW t \in Recently, CreateUserReport(t)  PROVE PageInv'
  BY <1>1, PageReports DEF IInv, AgeInv
<1>2. ASSUME page # NoPage => now < page.at + Lag, Tick  PROVE PageInv'
  BY <1>2, PageTick DEF IInv, AgeInv
<1> QED  BY <1>1, <1>2 DEF HistoryStep

LEMMA RefresherKept ==
  ASSUME IInv, RefresherStep, UNCHANGED <<log, page, shown>>
  PROVE  PageInv'
<1>1. UNCHANGED <<now, reports>>
  BY DEF RefresherStep, upsertProbeHourlyRollup, RefreshAllBaselines, UpdateService
<1> QED  BY <1>1, PageUntouched DEF IInv

LEMMA PageKept ==
  ASSUME IInv, PageStep
  PROVE  PageInv'
BY PageOpens, PageReadsBars, PageReadsIncidents, PageReadsDays, PageReadsTimeline, PageResponds, PageTracks
DEF IInv, AgeInv, PageStep

LEMMA NextIInv == IInv /\ [Next]_vars => IInv'
<1> SUFFICES ASSUME IInv, [Next]_vars  PROVE IInv'
  OBVIOUS
<1>1. AgeInv'
  BY AgeStep DEF IInv
<1>2. reader' = reader
  BY DEF Next, PageStep, OpenPage, ReadBars, ReadIncidents, ReadDays, ReadTimeline, Respond,
         TrackIncidents, Reads, vars
<1>3. PageInv'
  <2>1. CASE HistoryStep /\ UNCHANGED <<reader, log, page, shown>>
    BY <2>1, HistoryKept
  <2>2. CASE RefresherStep /\ UNCHANGED <<reader, log, page, shown>>
    BY <2>2, RefresherKept
  <2>3. CASE PageStep
    BY <2>3, PageKept
  <2>4. CASE UNCHANGED vars
    BY <2>4, PageUntouched DEF IInv, vars, history
  <2> QED  BY <2>1, <2>2, <2>3, <2>4 DEF Next
<1> QED  BY <1>1, <1>2, <1>3 DEF IInv

LEMMA IInvImplies == IInv => TypeOK /\ PastOutagesStay /\ PageAgrees
<1> SUFFICES ASSUME IInv  PROVE TypeOK /\ PastOutagesStay /\ PageAgrees
  OBVIOUS
<1>1. /\ HistInv /\ HistoryTypeOK /\ LogInv /\ AskedInv /\ BarsInv /\ ShownInv
      /\ LevelsInv /\ TimelineInv /\ reader \in {"refresher", "page"}
  BY DEF IInv, AgeInv, HistInv, PageInv
<1>2. incidents \in Seq(Incidents!Incident)
  BY <1>1 DEF LogInv, incidents
<1>3. shown \subseteq 0..DayOf(MaxTime)
  <2>1. now \in Int /\ MaxTime \in Int /\ now <= MaxTime
    BY <1>1, Lengths DEF HistoryTypeOK, Time
  <2>2. DayOf(now) \in Int /\ DayOf(MaxTime) \in Int /\ DayOf(now) <= DayOf(MaxTime)
    BY <2>1, DaysAreOrdered, DayFact
  <2> QED  BY <1>1, <2>2 DEF ShownInv
<1>4. page # NoPage => page.phase # "none"
  BY <1>1 DEF AskedInv
<1>5. TypeOK
  BY <1>1, <1>2, <1>3, <1>4 DEF TypeOK, AskedInv, Phases, LevelsInv, DaysRead
<1>6. ASSUME page.phase \in {"timeline", "done"}
      PROVE  Covered = {day \in PageDays(page.at) : page.days[day] = "outage"}
  BY <1>6 DEF Covered
<1>7. PastOutagesStay
  BY <1>1, <1>6 DEF PastOutagesStay, ShownInv
<1>8. PageAgrees
  <2> SUFFICES ASSUME page.phase = "done"  PROVE PageAgrees
    BY DEF PageAgrees
  <2>1. \A w \in DOMAIN page.bars : page.bars[w] > 0 => page.days[DayOf(w)] # "operational"
    BY <1>1 DEF BarsInv, BarsRead, DaysRead
  <2>2. \A i \in page.timeline :
          i.started < page.at - Lag =>
            \A day \in IncidentDays(i, page.at) \cap PageDays(page.at) : page.days[day] = "outage"
    BY <1>1, <1>6 DEF TimelineInv
  <2>3. page.up <= WindowDays - page.outage /\ page.up >= WindowDays - page.outage - page.elevated
    BY <1>1 DEF LevelsInv, DaysRead
  <2> QED  BY <2>1, <2>2, <2>3 DEF PageAgrees
<1> QED  BY <1>5, <1>7, <1>8

\* The types of the history and of a page that is being built.
THEOREM PageTypes == Spec => []TypeOK
BY InitIInv, NextIInv, IInvImplies, PTL DEF Spec

\* A past day that some page showed as an outage is one on every later page that has
\* it, whatever was opened and resolved in between (GetIncidentsOverlappingWindow).
THEOREM PastOutagesRemain == Spec => []PastOutagesStay
BY InitIInv, NextIInv, IInvImplies, PTL DEF Spec

\* The bars, the bar of days, the timeline and the counts of a page agree, although
\* reports and incidents change between their reads (buildNeutralServiceDetailResponse).
THEOREM PagesAgree == Spec => []PageAgrees
BY InitIInv, NextIInv, IInvImplies, PTL DEF Spec
===============================================================================
