------------------------------ MODULE DetailPage ------------------------------
(***************************************************************************)
(* The detail response of a service (buildNeutralServiceDetailResponse):   *)
(* bars of reports per half hour, a bar of days, and a timeline of         *)
(* incidents, each from a read of its own while reports are written and    *)
(* incidents open and end.  What the incidents table does is taken from    *)
(* its abstract specification, IncidentLog.                                *)
(*                                                                         *)
(* The refresher of the baselines and the page read the same history and   *)
(* meet nowhere here (the thresholds that colour the bars are left out),   *)
(* so a behaviour follows one of the two.  One page is put together at a   *)
(* time; a cached one is shown as it was built.                            *)
(***************************************************************************)
EXTENDS Baselines

CONSTANTS
  Shown,          \* the service
  Bars,           \* 48 half hours
  WindowDays,     \* 90 days
  TimelineLimit,  \* 20 incidents
  MaxIncidents    \* bound: incidents

ASSUME PageAssumption ==
  /\ {Bars, WindowDays, TimelineLimit} \subseteq Nat \ {0}
  /\ Bars * HalfHour <= (WindowDays - 1) * Day /\ Lag <= Day
  /\ MaxIncidents \in Nat

VARIABLES
  reader,   \* what this behaviour follows: "refresher" or "page"
  log,      \* incidents, see IncidentLog
  page,     \* the response that is being built
  shown     \* history variable: the past days that some page has shown as an outage

Incidents == INSTANCE IncidentLog WITH Service <- {Shown}

vars == <<history, reader, log, page, shown>>

Ongoing == Incidents!Ongoing
incidents == log[Shown]
Listed == {incidents[k] : k \in DOMAIN incidents}

Status == {"Operational", "Degraded", "Outage"}
Level == {"operational", "elevated", "outage"}
NoPage == [phase |-> "none"]

DayOf(t) == t \div Day
\* The days of a page that was asked for at this time.
FirstDay(at) == DayOf(at) - (WindowDays - 1)
PageDays(at) == FirstDay(at)..DayOf(at)

TypeOK ==
  /\ HistoryTypeOK
  /\ reader \in {"refresher", "page"}
  /\ incidents \in Seq(Incidents!Incident)
  /\ shown \subseteq 0..DayOf(MaxTime)
  /\ page.phase \in {"none", "bars", "incidents", "days", "timeline", "done"}
  /\ page # NoPage => page.at \in Time
  /\ page.phase \in {"timeline", "done"} =>
       /\ page.days \in [PageDays(page.at) -> Level]
       /\ {page.up, page.outage, page.elevated} \subseteq 0..WindowDays

Init ==
  /\ HistoryInit
  /\ reader \in {"refresher", "page"}
  /\ reader = "page" => now = 0   \* a page does not look at created_at
  /\ Incidents!Init
  /\ page = NoPage
  /\ shown = {}

-------------------------------------------------------------------------------
(* The page, read by read. *)

\* GetServiceStatus: the snapshot has any status, and is first looked at by ReadDays.
OpenPage ==
  /\ page = NoPage
  /\ page' = [phase |-> "bars", at |-> now]
  /\ UNCHANGED <<history, reader, log, shown>>

Reads(phase, fields, next) ==
  /\ page.phase = phase
  /\ page' = [f \in DOMAIN page \cup DOMAIN fields |->
                IF f = "phase" THEN next
                ELSE IF f \in DOMAIN fields THEN fields[f] ELSE page[f]]
  /\ UNCHANGED <<history, reader, log>>

\* The half hours that have a bar.
BarWindows(at) == {floorToHalfHour(at) - HalfHour * i : i \in 0..Bars - 1}

\* GetReportBucketsForService and BuildReportHistogram
ReadBars ==
  /\ Reads("bars", [bars |-> [w \in BarWindows(page.at) |-> ReportsWithin(w, w + HalfHour)]], "incidents")
  /\ UNCHANGED shown

\* Mutant of Overlapping: as the timeline selects them.
OverlappingStarted(i, from, to) ==
  i.started <= to /\ (i.started >= from \/ (i.resolved # Ongoing /\ i.resolved >= from))

Overlapping(i, from, to) ==
  i.started <= to /\ (i.resolved = Ongoing \/ i.resolved >= from)

\* GetIncidentsOverlappingWindow
ReadIncidents ==
  /\ Reads("incidents",
           [overlapping |-> {i \in Listed : Overlapping(i, FirstDay(page.at) * Day, page.at)}],
           "days")
  /\ UNCHANGED shown

\* The days of an incident, as far as the page goes; the window's start cuts it off.
IncidentDays(i, at) ==
  DayOf(i.started)..DayOf(IF i.resolved = Ongoing THEN at ELSE i.resolved)

\* GetDailyReportCountsForService, by day.
DailyReports(day) == ReportsWithin(day * Day, (day + 1) * Day)

\* The level of a day before the current status is looked at.
DayLevel(overlapping, at, day) ==
  IF \E i \in overlapping : day \in IncidentDays(i, at) THEN "outage"
  ELSE IF DailyReports(day) > 0 THEN "elevated" ELSE "operational"

\* The level of the last day with the current status.
LastLevel(level, status) ==
  CASE status = "Outage" -> "outage"
    [] status = "Degraded" /\ level = "operational" -> "elevated"
    [] OTHER -> level

\* Mutant of UpLost: an elevated day that becomes an outage still counts as up.
UpLostIfQuiet(level, status) ==
  IF level = "operational" /\ status \in {"Outage", "Degraded"} THEN 1 ELSE 0

\* Whether the current status takes the last day out of those that count as up: an
\* outage does, and so does a degraded status that finds it operational.
UpLost(level, status) ==
  IF \/ level # "outage" /\ status = "Outage"
     \/ level = "operational" /\ status = "Degraded"
  THEN 1 ELSE 0

\* BuildUptimeDays
BuildUptimeDays(overlapping, at, status) ==
  LET before == [day \in PageDays(at) |-> DayLevel(overlapping, at, day)]
      today == DayOf(at)
      days == [before EXCEPT ![today] = LastLevel(@, status)]
      DaysAt(levels, some) == Cardinality({day \in PageDays(at) : levels[day] \in some})
  IN  [days |-> days,
       up |-> DaysAt(before, {"operational", "elevated"}) - UpLost(before[today], status),
       outage |-> DaysAt(days, {"outage"}),
       elevated |-> DaysAt(days, {"elevated"})]

ReadDays ==
  /\ \E status \in Status :
       Reads("days", BuildUptimeDays(page.overlapping, page.at, status), "timeline")
  /\ shown' = shown \cup {day \in 0..DayOf(page.at) - 1 \cap PageDays(page.at) :
                            page'.days[day] = "outage"}

\* GetRecentIncidentsForService and BuildIncidentTimeline: the newest of those that
\* started or ended in the window.
ReadTimeline ==
  LET since == FirstDay(page.at) * Day
      recent == {k \in DOMAIN incidents :
                   \/ incidents[k].started >= since
                   \/ incidents[k].resolved # Ongoing /\ incidents[k].resolved >= since}
      newest == {k \in recent : Cardinality({j \in recent : j > k}) < TimelineLimit}
  IN  /\ Reads("timeline", [timeline |-> {incidents[k] : k \in newest}], "done")
      /\ UNCHANGED shown

\* The response is sent, or a read failed and it is an error.
Respond ==
  /\ page # NoPage
  /\ page' = NoPage
  /\ UNCHANGED <<history, reader, log, shown>>

-------------------------------------------------------------------------------
\* The tracker opens or resolves an incident, with the time its cycle took.
TrackIncidents ==
  /\ \E at \in Recently :
       \/ Len(incidents) < MaxIncidents /\ at >= created /\ Incidents!Open(Shown, at)
       \/ Incidents!Resolve(Shown, at)
  /\ UNCHANGED <<history, reader, page, shown>>

HistoryStep ==
  \/ \E t \in Recently : CreateUserReport(t)
  \/ (page # NoPage => now < page.at + Lag) /\ Tick   \* a response takes no longer than Lag

RefresherStep ==
  \/ \E at \in Recently, success \in BOOLEAN : upsertProbeHourlyRollup(at, success)
  \/ \E at \in Recently : RefreshAllBaselines(at)
  \/ UpdateService

PageStep ==
  \/ OpenPage
  \/ ReadBars
  \/ ReadIncidents
  \/ ReadDays
  \/ ReadTimeline
  \/ Respond
  \/ TrackIncidents

Next ==
  \/ HistoryStep /\ UNCHANGED <<reader, log, page, shown>>
  \/ reader = "refresher" /\ RefresherStep /\ UNCHANGED <<reader, log, page, shown>>
  \/ reader = "page" /\ PageStep

Spec == Init /\ [][Next]_vars

-------------------------------------------------------------------------------
\* A past day that was once shown as an outage is shown as one for as long as it is on
\* the page, however long ago its incident began, and whenever it ended.
PastOutagesStay ==
  page.phase \in {"timeline", "done"} =>
    \A day \in shown \cap PageDays(page.at) : page.days[day] = "outage"

\* The parts of a page are read one after another and still do not contradict: a day
\* with reports in the bars is not operational, an incident of the timeline is on the
\* bar of days (if it was there when these were read: it is so after Lag), and the
\* counts are those of the days.
PageAgrees ==
  page.phase = "done" =>
    /\ \A w \in DOMAIN page.bars :
         page.bars[w] > 0 => page.days[DayOf(w)] # "operational"
    /\ \A i \in page.timeline :
         i.started < page.at - Lag =>
           \A day \in IncidentDays(i, page.at) \cap PageDays(page.at) :
             page.days[day] = "outage"
    /\ page.up <= WindowDays - page.outage
    /\ page.up >= WindowDays - page.outage - page.elevated
===============================================================================
