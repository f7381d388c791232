---------------------------- MODULE StatusPipeline ----------------------------
(***************************************************************************)
(* From signals to incidents.  User reports and probe counters are read    *)
(* into a snapshot row per service (storage/statuses.go), by the API       *)
(* process that has just stored a report and by the worker's refresher,    *)
(* each at its own pace; the incident tracker (workers/incidents.go over   *)
(* storage/incidents.go) turns the rows into incidents.                    *)
(*                                                                         *)
(* Every statement is a step of its own.  Two readings of the clock never  *)
(* give the same instant, so a reading moves the clock on; instants that   *)
(* nobody reads are not represented.                                       *)
(***************************************************************************)
EXTENDS Integers, FiniteSets, Sequences, SequencesExt

CONSTANTS
  Service,      \* the services
  Request,      \* API requests under way at a time
  Refresher,    \* the status refreshers of the workers
  Tracker,      \* the incident trackers of the workers
  ReportWindow, \* algorithm.ReportWindow
  BaselineOf,   \* service -> what service_baselines says for this hour
  MaxTime,      \* bound: the clock stops here
  MaxReports,   \* bound: reports
  MaxEdits,     \* bound: changes of a service's probe counters or active flag
  MaxFaults,    \* bound: errors and crashes
  ClockStops    \* whether, at MaxTime, the clock stands still (for liveness) or
                \* what would read it waits for ever (for safety)

Snapshotter == Request \cup Refresher

None == [at |-> -1]
Ongoing == -1

ASSUME PipelineAssumption ==
  /\ ReportWindow \in Nat \ {0}
  /\ {MaxTime, MaxReports, MaxEdits, MaxFaults} \subseteq Nat
  /\ ClockStops \in BOOLEAN
  /\ Request \cap Refresher = {}
  /\ IsFiniteSet(Service)

\* The thresholds of the algorithm, on this instance's baselines.
Algorithm == INSTANCE StatusAlgorithm WITH
  MaxReports <- MaxReports, Means <- Nat, StdDevs <- Nat, Weeks <- Nat, Rates <- 0..60,
  Samples <- Nat, signals <- None

VARIABLES
  now,         \* time.Now().UTC()
  active,      \* services.active
  reports,     \* user_reports: set of [id, service, at]
  probes,      \* service_probe_states: [total, failures] of the recent window
  snapshots,   \* service_statuses: a row, or None
  refresh,     \* each snapshotter
  acked,       \* history: reports whose request has refreshed the snapshot
  incidents,   \* the incidents table: service -> sequence in order of insertion
  track,       \* each incident tracker
  edits, faults   \* bound counters

vars == <<now, active, reports, probes, snapshots, refresh, acked, incidents, track,
          edits, faults>>

\* recent_reports is the number of reports counted; the model keeps which.
Snapshot == [at : 0..MaxTime, counted : SUBSET reports, status : Algorithm!Status]

IdleRefresh == [phase |-> "idle", at |-> 0, services |-> {}, own |-> {},
                counted |-> {}, counters |-> <<>>]
IdleTrack == [phase |-> "idle", at |-> 0, statuses |-> <<>>, todo |-> <<>>, open |-> {}]

TypeOK ==
  /\ now \in 0..MaxTime
  /\ active \in [Service -> BOOLEAN]
  /\ reports \subseteq [id : 1..MaxReports, service : Service, at : 0..MaxTime]
  /\ \A s \in Service : probes[s].failures <= probes[s].total
  /\ \A s \in Service : snapshots[s] = None \/ snapshots[s] \in Snapshot
  /\ \A p \in Snapshotter :
       /\ refresh[p].phase \in {"idle", "insert", "clock", "look", "services", "count",
                               "probes", "upsert"}
       /\ refresh[p].services \subseteq Service
       /\ refresh[p].counted \subseteq reports
       /\ refresh[p].phase # "insert" => refresh[p].own \subseteq reports
  /\ acked \subseteq reports
  /\ \A s \in Service : \A i \in DOMAIN incidents[s] :
       incidents[s][i] \in [started : 0..MaxTime, resolved : 0..MaxTime \cup {Ongoing}]
  /\ \A t \in Tracker :
       /\ track[t].phase \in {"idle", "statuses", "incidents", "next", "insert"}
       /\ track[t].open \subseteq Service

Init ==
  /\ now = 0
  /\ active = [s \in Service |-> TRUE]
  /\ reports = {}
  /\ probes = [s \in Service |-> [total |-> 3, failures |-> 0]]
  /\ snapshots = [s \in Service |-> None]
  /\ refresh = [p \in Snapshotter |-> IdleRefresh]
  /\ acked = {}
  /\ incidents = [s \in Service |-> <<>>]
  /\ track = [t \in Tracker |-> IdleTrack]
  /\ edits = 0
  /\ faults = 0

data == <<active, reports, probes, edits>>

\* A process reads the clock.
ReadClock ==
  \/ now < MaxTime /\ now' = now + 1
  \/ ClockStops /\ now = MaxTime /\ now' = now

-------------------------------------------------------------------------------
(* What changes under the pipeline. *)

\* A completed probe leaves new counters: all three good, or all three failed.
ProbeStateChanges(s) ==
  /\ edits < MaxEdits
  /\ probes' = [probes EXCEPT ![s].failures = 3 - @]
  /\ edits' = edits + 1
  /\ UNCHANGED <<now, active, reports, snapshots, refresh, acked, incidents, track, faults>>

\* UpdateService: an operator takes a service off the site, or back on.
UpdateService(s) ==
  /\ edits < MaxEdits
  /\ active' = [active EXCEPT ![s] = ~@]
  /\ edits' = edits + 1
  /\ UNCHANGED <<now, reports, probes, snapshots, refresh, acked, incidents, track, faults>>

-------------------------------------------------------------------------------
(* Snapshots: RefreshServiceStatus and RefreshAllServiceStatuses. *)

\* createServiceReport, the service found active: created_at is read, and then the
\* report is stored.
CreateUserReport(p, s) ==
  LET report == [id |-> Cardinality(reports) + 1, service |-> s, at |-> now] IN
  /\ refresh[p].phase = "idle"
  /\ active[s]
  /\ Cardinality(reports) < MaxReports
  /\ ReadClock
  /\ refresh' = [refresh EXCEPT ![p] = [IdleRefresh EXCEPT !.phase = "insert",
                   !.services = {s}, !.own = {report}]]
  /\ UNCHANGED <<data, snapshots, acked, incidents, track, faults>>

InsertUserReport(p) ==
  /\ refresh[p].phase = "insert"
  /\ reports' = reports \cup refresh[p].own
  /\ refresh' = [refresh EXCEPT ![p].phase = "clock"]
  /\ UNCHANGED <<now, active, probes, edits, snapshots, acked, incidents, track, faults>>

\* getService on an active service, with no cached response.  A request that will
\* find a snapshot row changes nothing here and is left out.
GetService(p, s) ==
  /\ refresh[p].phase = "idle"
  /\ active[s]
  /\ snapshots[s] = None
  /\ ReadClock
  /\ refresh' = [refresh EXCEPT ![p] = [IdleRefresh EXCEPT !.phase = "look", !.at = now,
                                                         !.services = {s}]]
  /\ UNCHANGED <<data, snapshots, acked, incidents, track, faults>>

\* buildNeutralServiceDetailResponse refreshes a snapshot that is not there.
GetServiceStatus(p) ==
  /\ refresh[p].phase = "look"
  /\ refresh' = [refresh EXCEPT ![p] = IF \E s \in @.services : snapshots[s] = None
                                       THEN [@ EXCEPT !.phase = "count"] ELSE IdleRefresh]
  /\ UNCHANGED <<now, data, snapshots, acked, incidents, track, faults>>

\* The request reads the clock, after its report was stored.
ReadRequestClock(p) ==
  /\ refresh[p].phase = "clock"
  /\ ReadClock
  /\ refresh' = [refresh EXCEPT ![p].phase = "count", ![p].at = now]
  /\ UNCHANGED <<data, snapshots, acked, incidents, track, faults>>

\* The worker's ticker fires, or the worker starts.
StartRefresh(p) ==
  /\ refresh[p].phase = "idle"
  /\ ReadClock
  /\ refresh' = [refresh EXCEPT ![p] = [IdleRefresh EXCEPT !.phase = "services", !.at = now]]
  /\ UNCHANGED <<data, snapshots, acked, incidents, track, faults>>

\* GetActiveServiceIDs: with none, the refresh is done.
ReadActiveServices(p) ==
  LET ids == {s \in Service : active[s]} IN
  /\ refresh[p].phase = "services"
  /\ refresh' = [refresh EXCEPT ![p] = IF ids = {} THEN IdleRefresh
                                       ELSE [@ EXCEPT !.phase = "count", !.services = ids]]
  /\ UNCHANGED <<now, data, snapshots, acked, incidents, track, faults>>

\* created_at > now - ReportWindow.
InWindow(r, at) == r.at > at - ReportWindow

\* GetRecentReportCountsForServices and CountRecentReports.
CountReports(p) ==
  /\ refresh[p].phase = "count"
  /\ refresh' = [refresh EXCEPT ![p].phase = "probes", ![p].counted =
       {r \in reports : r.service \in refresh[p].services /\ InWindow(r, refresh[p].at)}]
  /\ UNCHANGED <<now, data, snapshots, acked, incidents, track, faults>>

\* GetRecentProbeStats.
ReadProbeStats(p) ==
  /\ refresh[p].phase = "probes"
  /\ refresh' = [refresh EXCEPT ![p].phase = "upsert", ![p].counters = probes]
  /\ UNCHANGED <<now, data, snapshots, acked, incidents, track, faults>>

StatusOf(s, counted, counters) ==
  LET own == {r \in counted : r.service = s}
  IN  Algorithm!DetermineStatus(
        [reports |-> Cardinality(own), mean |-> BaselineOf[s].mean,
         stdDev |-> BaselineOf[s].stdDev, weeks |-> BaselineOf[s].weeks,
         total |-> counters[s].total, failures |-> counters[s].failures,
         rate |-> BaselineOf[s].rate, samples |-> BaselineOf[s].samples])

\* Mutant of buildServiceStatusSnapshot: the decision is never stored.
buildSnapshotWithoutStatus(p, s) ==
  [at |-> refresh[p].at, counted |-> {r \in refresh[p].counted : r.service = s},
   status |-> "Unknown"]

buildServiceStatusSnapshot(p, s) ==
  [at |-> refresh[p].at, counted |-> {r \in refresh[p].counted : r.service = s},
   status |-> StatusOf(s, refresh[p].counted, refresh[p].counters)]

\* Mutant of Upserts: a conflicting row is always replaced.
UpsertsAlways(p, s) == s \in refresh[p].services

\* Mutant of Upserts: ON CONFLICT DO NOTHING.
UpsertsOnlyNew(p, s) == s \in refresh[p].services /\ snapshots[s] = None

\* ON CONFLICT ... WHERE service_statuses.computed_at <= EXCLUDED.computed_at
Upserts(p, s) ==
  /\ s \in refresh[p].services
  /\ snapshots[s] # None => snapshots[s].at <= refresh[p].at

\* The statement that writes the rows, and the end of the refresh.
UpsertSnapshots(p) ==
  /\ refresh[p].phase = "upsert"
  /\ snapshots' = [s \in Service |-> IF Upserts(p, s) THEN buildServiceStatusSnapshot(p, s)
                                     ELSE snapshots[s]]
  /\ acked' = acked \cup refresh[p].own
  /\ refresh' = [refresh EXCEPT ![p] = IdleRefresh]
  /\ UNCHANGED <<now, data, incidents, track, faults>>

\* An error, a timeout, or the death of the process: nothing is written.
RefreshFails(p) ==
  /\ refresh[p].phase # "idle"
  /\ faults < MaxFaults
  /\ faults' = faults + 1
  /\ refresh' = [refresh EXCEPT ![p] = IdleRefresh]
  /\ UNCHANGED <<now, data, snapshots, acked, incidents, track>>

RefreshStep(p) ==
  \/ p \in Refresher /\ (StartRefresh(p) \/ ReadActiveServices(p))
  \/ InsertUserReport(p)
  \/ ReadRequestClock(p)
  \/ GetServiceStatus(p)
  \/ CountReports(p)
  \/ ReadProbeStats(p)
  \/ UpsertSnapshots(p)

-------------------------------------------------------------------------------
(* Incidents: reconcileIncidents. *)

\* Mutant of HasActive: IS NOT NULL for IS NULL.
HasResolved(s) == \E i \in DOMAIN incidents[s] : incidents[s][i].resolved # Ongoing

HasActive(s) == \E i \in DOMAIN incidents[s] : incidents[s][i].resolved = Ongoing

\* The ticker fires, or the worker starts.
StartReconcile(t) ==
  /\ track[t].phase = "idle"
  /\ ReadClock
  /\ track' = [track EXCEPT ![t] = [IdleTrack EXCEPT !.phase = "statuses", !.at = now]]
  /\ UNCHANGED <<data, snapshots, refresh, acked, incidents, faults>>

Scanned == {s \in Service : active[s] /\ snapshots[s] # None}

\* GetActiveServiceStatuses: with no rows the reconciliation is done.
ReadStatuses(t) ==
  /\ track[t].phase = "statuses"
  /\ track' = [track EXCEPT ![t] =
       IF Scanned = {} THEN IdleTrack
       ELSE [@ EXCEPT !.phase = "incidents", !.todo = SetToSeq(Scanned),
                      !.statuses = [s \in Scanned |-> snapshots[s].status]]]
  /\ UNCHANGED <<now, data, snapshots, refresh, acked, incidents, faults>>

\* GetActiveIncidentsByServiceIDs.
ReadIncidents(t) ==
  /\ track[t].phase = "incidents"
  /\ track' = [track EXCEPT ![t].phase = "next",
                            ![t].open = {s \in DOMAIN track[t].statuses : HasActive(s)}]
  /\ UNCHANGED <<now, data, snapshots, refresh, acked, incidents, faults>>

\* The service at the head of the loop, and the two results of incidentTransition.
Scan(t) == Head(track[t].todo)
ShouldOpen(t) == track[t].statuses[Scan(t)] = "Outage" /\ Scan(t) \notin track[t].open

\* Mutant of ShouldResolve: Degraded keeps the incident open.
ShouldResolveDegradedOpen(t) ==
  track[t].statuses[Scan(t)] = "Operational" /\ Scan(t) \in track[t].open

ShouldResolve(t) == track[t].statuses[Scan(t)] # "Outage" /\ Scan(t) \in track[t].open

\* The tracker once it is through with the service at the head.
Through(t) == IF Len(track[t].todo) = 1 THEN IdleTrack
              ELSE [track[t] EXCEPT !.phase = "next", !.todo = Tail(@)]

\* Nothing to do for this service; or OpenIncidentIfNoneActive counts an active one.
SkipService(t) ==
  /\ track[t].phase = "next"
  /\ IF ShouldOpen(t) THEN HasActive(Scan(t)) ELSE ~ShouldResolve(t)
  /\ track' = [track EXCEPT ![t] = Through(t)]
  /\ UNCHANGED <<now, data, snapshots, refresh, acked, incidents, faults>>

\* OpenIncidentIfNoneActive counts no active incident.
CountActive(t) ==
  /\ track[t].phase = "next"
  /\ ShouldOpen(t)
  /\ ~HasActive(Scan(t))
  /\ track' = [track EXCEPT ![t].phase = "insert"]
  /\ UNCHANGED <<now, data, snapshots, refresh, acked, incidents, faults>>

\* It inserts one and commits.
InsertIncident(t) ==
  /\ track[t].phase = "insert"
  /\ incidents' = [incidents EXCEPT ![Scan(t)] =
                     Append(@, [started |-> track[t].at, resolved |-> Ongoing])]
  /\ track' = [track EXCEPT ![t] = Through(t)]
  /\ UNCHANGED <<now, data, snapshots, refresh, acked, faults>>

\* ResolveActiveIncident: every active row of the service.
ResolveActiveIncident(t) ==
  /\ track[t].phase = "next"
  /\ ShouldResolve(t)
  /\ incidents' = [incidents EXCEPT ![Scan(t)] =
       [i \in DOMAIN @ |-> IF @[i].resolved = Ongoing
                           THEN [@[i] EXCEPT !.resolved = track[t].at] ELSE @[i]]]
  /\ track' = [track EXCEPT ![t] = Through(t)]
  /\ UNCHANGED <<now, data, snapshots, refresh, acked, faults>>

\* The first error ends the whole reconciliation; so does the worker's death.
ReconcileFails(t) ==
  /\ track[t].phase # "idle"
  /\ faults < MaxFaults
  /\ faults' = faults + 1
  /\ track' = [track EXCEPT ![t] = IdleTrack]
  /\ UNCHANGED <<now, data, snapshots, refresh, acked, incidents>>

TrackStep(t) ==
  \/ StartReconcile(t)
  \/ ReadStatuses(t)
  \/ ReadIncidents(t)
  \/ SkipService(t)
  \/ CountActive(t)
  \/ InsertIncident(t)
  \/ ResolveActiveIncident(t)

Next ==
  \/ \E s \in Service : ProbeStateChanges(s) \/ UpdateService(s)
  \/ \E p \in Request, s \in Service : CreateUserReport(p, s) \/ GetService(p, s)
  \/ \E p \in Snapshotter : RefreshStep(p) \/ RefreshFails(p)
  \/ \E t \in Tracker : TrackStep(t) \/ ReconcileFails(t)

Spec == Init /\ [][Next]_vars

\* The loops of the worker never stop, and a statement that was sent ends.
Fairness ==
  /\ \A p \in Snapshotter : WF_vars(RefreshStep(p))
  /\ \A t \in Tracker : WF_vars(TrackStep(t))

FairSpec == Spec /\ Fairness

-------------------------------------------------------------------------------
\* Once the request that stored a report has refreshed the snapshot, no slower
\* refresh takes the report out of it again while it is in the window.
AckedReportIsCounted ==
  \A r \in acked :
    LET snapshot == snapshots[r.service]
    IN  InWindow(r, snapshot.at) => r \in snapshot.counted

\* With one worker, the incidents table keeps what IncidentLog promises, although
\* the tracker acts on statuses and incidents that it read earlier.
Log == INSTANCE IncidentLog WITH log <- incidents
IncidentLogKept == Log!Spec

\* A settled status reaches the incidents: what the signals say for good of an
\* active service, its incident says in the end and from then on.
CurrentStatus(s) ==
  StatusOf(s, {r \in reports : InWindow(r, now)}, probes)

OutageHasIncident ==
  \A s \in Service :
    <>[](active[s] /\ CurrentStatus(s) = "Outage") => <>[]HasActive(s)

RecoveryEndsIncident ==
  \A s \in Service :
    <>[](active[s] /\ CurrentStatus(s) # "Outage") => <>[]~HasActive(s)
===============================================================================
