-------------------------- MODULE StatusPipelineProofs --------------------------
(***************************************************************************)
(* What the pipeline from signals to incidents guarantees for any number   *)
(* of services, requests, refreshers, reports and faults.                  *)
(***************************************************************************)
EXTENDS StatusPipeline, FiniteSetTheorems, TLAPS

-------------------------------------------------------------------------------
(* Types. *)

Report == [id : 1..MaxReports, service : Service, at : 0..MaxTime]
Counter == [total : {3}, failures : {0, 3}]
Row == [at : 0..MaxTime, counted : SUBSET Report, status : Algorithm!Status]
Refreshing ==
  [phase : {"idle", "insert", "clock", "look", "services", "count", "probes", "upsert"},
   at : 0..MaxTime, services : SUBSET Service, own : SUBSET Report,
   counted : SUBSET Report, counters : {<<>>} \cup [Service -> Counter]]
Tracking ==
  [phase : {"idle", "statuses", "incidents", "next", "insert"}, at : 0..MaxTime,
   statuses : {<<>>} \cup UNION {[S -> Algorithm!Status] : S \in SUBSET Service},
   todo : Seq(Service), open : SUBSET Service]

SignalTypes ==
  /\ now \in 0..MaxTime
  /\ active \in [Service -> BOOLEAN]
  /\ reports \subseteq Report
  /\ IsFiniteSet(reports)
  /\ probes \in [Service -> Counter]
  /\ acked \subseteq reports

RefreshTypes ==
  /\ snapshots \in [Service -> {None} \cup Row]
  /\ \A s \in Service : snapshots[s] # None => snapshots[s].counted \subseteq reports
  /\ refresh \in [Snapshotter -> Refreshing]
  /\ \A p \in Snapshotter :
       /\ IsFiniteSet(refresh[p].own)
       /\ refresh[p].counted \subseteq reports
       /\ refresh[p].phase # "insert" => refresh[p].own \subseteq reports
       /\ refresh[p].phase = "upsert" => refresh[p].counters \in [Service -> Counter]

TrackTypes ==
  /\ incidents \in [Service -> Seq(Log!Incident)]
  /\ track \in [Tracker -> Tracking]
  /\ \A t \in Tracker :
       /\ track[t].phase = "incidents" => DOMAIN track[t].statuses \subseteq Service
       /\ track[t].phase \in {"incidents", "next", "insert"} => track[t].todo # <<>>

TypeInv == SignalTypes /\ RefreshTypes /\ TrackTypes

LEMMA TypesImplyTypeOK ==
  ASSUME TypeInv
  PROVE  TypeOK
<1>1. \A s \in Service : probes[s].failures <= probes[s].total
  BY DEF TypeInv, SignalTypes, Counter
<1>2. \A s \in Service : snapshots[s] = None \/ snapshots[s] \in Snapshot
  <2>1. SUFFICES ASSUME NEW s \in Service, snapshots[s] # None
                 PROVE  snapshots[s] \in Snapshot
    OBVIOUS
  <2>2. snapshots[s] \in Row /\ snapshots[s].counted \subseteq reports
    BY <2>1 DEF TypeInv, RefreshTypes
  <2>3. QED
    BY <2>2 DEF Row, Snapshot
<1>3. \A s \in Service : \A i \in DOMAIN incidents[s] :
        incidents[s][i] \in [started : 0..MaxTime, resolved : 0..MaxTime \cup {Ongoing}]
  <2>1. Log!Incident = [started : 0..MaxTime, resolved : 0..MaxTime \cup {Ongoing}]
    BY DEF Log!Incident, Log!Ongoing, Ongoing
  <2>2. \A s \in Service : incidents[s] \in Seq(Log!Incident)
    BY DEF TypeInv, TrackTypes
  <2>3. \A s \in Service : \A i \in DOMAIN incidents[s] : incidents[s][i] \in Log!Incident
    BY <2>2
  <2>4. QED
    BY <2>1, <2>3
<1>4. \A p \in Snapshotter : refresh[p] \in Refreshing
  BY DEF TypeInv, RefreshTypes
<1>5. \A t \in Tracker : track[t] \in Tracking
  BY DEF TypeInv, TrackTypes
<1>6. QED
  BY <1>1, <1>2, <1>3, <1>4, <1>5
     DEF TypeInv, SignalTypes, RefreshTypes, TypeOK, Report, Refreshing, Tracking

LEMMA InitTypes ==
  ASSUME Init
  PROVE  TypeInv
<1>1. SignalTypes
  BY PipelineAssumption, FS_EmptySet DEF Init, SignalTypes, Counter
<1>2. IdleRefresh \in Refreshing /\ IdleTrack \in Tracking
  BY PipelineAssumption DEF IdleRefresh, Refreshing, IdleTrack, Tracking
<1>3. RefreshTypes
  BY <1>2, FS_EmptySet DEF Init, RefreshTypes, IdleRefresh
<1>4. TrackTypes
  BY <1>2 DEF Init, TrackTypes, IdleTrack
<1>5. QED
  BY <1>1, <1>3, <1>4 DEF TypeInv

\* Each of the statuses is one.
LEMMA StatusOfType ==
  ASSUME NEW s, NEW counted, NEW counters
  PROVE  StatusOf(s, counted, counters) \in Algorithm!Status
BY DEF StatusOf, Algorithm!DetermineStatus, Algorithm!Status

\* What reading the clock gives.
LEMMA ClockTypes ==
  ASSUME now \in 0..MaxTime, ReadClock
  PROVE  now' \in 0..MaxTime /\ now <= now'
BY PipelineAssumption DEF ReadClock

\* A snapshotter whose new state fits leaves the types of the snapshots as they are.
LEMMA RefreshTypesKept ==
  ASSUME TypeInv, NEW p \in Snapshotter, NEW r \in Refreshing,
         refresh' = [refresh EXCEPT ![p] = r], UNCHANGED snapshots,
         reports \subseteq reports',
         IsFiniteSet(r.own), r.counted \subseteq reports',
         r.phase # "insert" => r.own \subseteq reports',
         r.phase = "upsert" => r.counters \in [Service -> Counter]
  PROVE  RefreshTypes'
<1>1. refresh' \in [Snapshotter -> Refreshing]
  BY DEF TypeInv, RefreshTypes
<1>2. ASSUME NEW q \in Snapshotter
      PROVE  /\ IsFiniteSet(refresh'[q].own)
             /\ refresh'[q].counted \subseteq reports'
             /\ refresh'[q].phase # "insert" => refresh'[q].own \subseteq reports'
             /\ refresh'[q].phase = "upsert" => refresh'[q].counters \in [Service -> Counter]
  <2>1. CASE q = p
    BY <2>1 DEF TypeInv, RefreshTypes
  <2>2. CASE q # p
    BY <2>2 DEF TypeInv, RefreshTypes
  <2>3. QED
    BY <2>1, <2>2
<1>3. \A s \in Service : snapshots'[s] # None => snapshots'[s].counted \subseteq reports'
  BY DEF TypeInv, RefreshTypes
<1>4. snapshots' \in [Service -> {None} \cup Row]
  BY DEF TypeInv, RefreshTypes
<1>5. QED
  BY <1>1, <1>2, <1>3, <1>4 DEF RefreshTypes

LEMMA IdleTypes ==
  /\ IdleRefresh \in Refreshing /\ IsFiniteSet(IdleRefresh.own)
  /\ IdleRefresh.own = {} /\ IdleRefresh.counted = {} /\ IdleRefresh.phase = "idle"
  /\ IdleTrack \in Tracking /\ IdleTrack.phase = "idle"
BY PipelineAssumption, FS_EmptySet DEF IdleRefresh, Refreshing, IdleTrack, Tracking

LEMMA RefreshStepTypes ==
  ASSUME TypeInv, NEW p \in Snapshotter, RefreshStep(p) \/ RefreshFails(p)
  PROVE  TypeInv'
<1> USE DEF TypeInv, SignalTypes
<1> DEFINE old == refresh[p]
<1>0. /\ old \in Refreshing /\ IsFiniteSet(old.own) /\ old.counted \subseteq reports
      /\ old.phase # "insert" => old.own \subseteq reports
  BY DEF RefreshTypes
<1>a. UNCHANGED <<incidents, track>> => TrackTypes'
  BY DEF TrackTypes
<1>1. CASE StartRefresh(p)
  <2>1. [IdleRefresh EXCEPT !.phase = "services", !.at = now] \in Refreshing
    BY DEF IdleRefresh, Refreshing
  <2>2. RefreshTypes'
    BY <1>1, <2>1, IdleTypes, RefreshTypesKept DEF StartRefresh, data, IdleRefresh
  <2>3. QED
    BY <1>1, <1>a, <2>2, ClockTypes DEF StartRefresh, data
<1>2. CASE ReadActiveServices(p)
  <2> DEFINE ids == {s \in Service : active[s]}
             new == IF ids = {} THEN IdleRefresh
                    ELSE [old EXCEPT !.phase = "count", !.services = ids]
  <2>1. new \in Refreshing /\ new.own \in {{}, old.own} /\ new.counted \in {{}, old.counted}
          /\ new.phase \in {"idle", "count"}
    BY <1>0, IdleTypes DEF Refreshing
  <2>2. RefreshTypes'
    BY <1>0, <1>2, <2>1, FS_EmptySet, RefreshTypesKept DEF ReadActiveServices, data
  <2>3. QED
    BY <1>2, <1>a, <2>2 DEF ReadActiveServices, data
<1>3. CASE InsertUserReport(p)
  <2> DEFINE new == [old EXCEPT !.phase = "clock"]
  <2>1. new \in Refreshing /\ new.own = old.own /\ new.counted = old.counted
          /\ new.phase = "clock"
    BY <1>0 DEF Refreshing
  <2>2. reports' = reports \cup old.own /\ old.own \subseteq Report /\ IsFiniteSet(reports')
    BY <1>0, <1>3, FS_Union DEF InsertUserReport, Refreshing
  <2>3. RefreshTypes'
    BY <1>0, <1>3, <2>1, <2>2, RefreshTypesKept DEF InsertUserReport
  <2>4. QED
    BY <1>3, <1>a, <2>2, <2>3 DEF InsertUserReport
<1>4. CASE ReadRequestClock(p)
  <2> DEFINE new == [old EXCEPT !.phase = "count", !.at = now]
  <2>1. new \in Refreshing /\ new.own = old.own /\ new.counted = old.counted
          /\ new.phase = "count"
    BY <1>0 DEF Refreshing
  <2>2. refresh' = [refresh EXCEPT ![p] = new]
    BY <1>4 DEF ReadRequestClock, RefreshTypes
  <2>3. RefreshTypes'
    BY <1>0, <1>4, <2>1, <2>2, RefreshTypesKept DEF ReadRequestClock, data
  <2>4. QED
    BY <1>4, <1>a, <2>3, ClockTypes DEF ReadRequestClock, data
<1>5. CASE GetServiceStatus(p)
  <2> DEFINE new == IF \E s \in old.services : snapshots[s] = None
                    THEN [old EXCEPT !.phase = "count"] ELSE IdleRefresh
  <2>1. new \in Refreshing /\ new.own \in {{}, old.own} /\ new.counted \in {{}, old.counted}
          /\ new.phase \in {"idle", "count"}
    BY <1>0, IdleTypes DEF Refreshing
  <2>2. RefreshTypes'
    BY <1>0, <1>5, <2>1, FS_EmptySet, RefreshTypesKept DEF GetServiceStatus, data
  <2>3. QED
    BY <1>5, <1>a, <2>2 DEF GetServiceStatus, data
<1>6. CASE CountReports(p)
  <2> DEFINE found == {r \in reports : r.service \in old.services /\ InWindow(r, old.at)}
             new == [old EXCEPT !.phase = "probes", !.counted = found]
  <2>1. new \in Refreshing /\ new.own = old.own /\ new.counted = found
          /\ new.phase = "probes"
    BY <1>0 DEF Refreshing
  <2>2. refresh' = [refresh EXCEPT ![p] = new]
    BY <1>6 DEF CountReports, RefreshTypes
  <2>3. RefreshTypes'
    BY <1>0, <1>6, <2>1, <2>2, RefreshTypesKept DEF CountReports, data
  <2>4. QED
    BY <1>6, <1>a, <2>3 DEF CountReports, data
<1>7. CASE ReadProbeStats(p)
  <2> DEFINE new == [old EXCEPT !.phase = "upsert", !.counters = probes]
  <2>1. new \in Refreshing /\ new.own = old.own /\ new.counted = old.counted
          /\ new.phase = "upsert" /\ new.counters = probes
    BY <1>0 DEF Refreshing
  <2>2. refresh' = [refresh EXCEPT ![p] = new]
    BY <1>7 DEF ReadProbeStats, RefreshTypes
  <2>3. RefreshTypes'
    BY <1>0, <1>7, <2>1, <2>2, RefreshTypesKept DEF ReadProbeStats, data
  <2>4. QED
    BY <1>7, <1>a, <2>3 DEF ReadProbeStats, data
<1>8. CASE UpsertSnapshots(p)
  <2>1. ASSUME NEW s \in Service
        PROVE  /\ buildServiceStatusSnapshot(p, s) \in Row
               /\ buildServiceStatusSnapshot(p, s).counted \subseteq reports
    BY <1>0, StatusOfType DEF buildServiceStatusSnapshot, Row, Refreshing
  <2>2. snapshots' \in [Service -> {None} \cup Row]
    BY <1>8, <2>1 DEF UpsertSnapshots, RefreshTypes
  <2>3. \A s \in Service : snapshots'[s] # None => snapshots'[s].counted \subseteq reports'
    BY <1>8, <2>1 DEF UpsertSnapshots, RefreshTypes, data
  <2>4. refresh' = [refresh EXCEPT ![p] = IdleRefresh]
    BY <1>8 DEF UpsertSnapshots
  <2>5. RefreshTypes'
    BY <1>8, <2>2, <2>3, <2>4, IdleTypes DEF UpsertSnapshots, RefreshTypes, data
  <2>6. acked' \subseteq reports
    BY <1>0, <1>8 DEF UpsertSnapshots
  <2>7. QED
    BY <1>8, <1>a, <2>5, <2>6 DEF UpsertSnapshots, data
<1>9. CASE RefreshFails(p)
  <2>1. RefreshTypes'
    BY <1>9, IdleTypes, RefreshTypesKept DEF RefreshFails, data
  <2>2. QED
    BY <1>9, <1>a, <2>1 DEF RefreshFails, data
<1>10. QED
  BY <1>1, <1>2, <1>3, <1>4, <1>5, <1>6, <1>7, <1>8, <1>9 DEF RefreshStep

LEMMA SignalStepTypes ==
  ASSUME TypeInv, NEW s \in Service, ProbeStateChanges(s) \/ UpdateService(s)
  PROVE  TypeInv'
<1>1. RefreshTypes' /\ TrackTypes'
  BY DEF TypeInv, RefreshTypes, TrackTypes, ProbeStateChanges, UpdateService
<1>2. SignalTypes'
  <2>1. CASE ProbeStateChanges(s)
    <3>1. probes[s] \in Counter
      BY DEF TypeInv, SignalTypes
    <3>2. [probes[s] EXCEPT !.failures = 3 - @] \in Counter
      BY <3>1 DEF Counter
    <3>3. probes' = [probes EXCEPT ![s] = [probes[s] EXCEPT !.failures = 3 - @]]
      BY <2>1 DEF ProbeStateChanges
    <3>4. probes' \in [Service -> Counter]
      BY <3>2, <3>3 DEF TypeInv, SignalTypes
    <3>5. QED
      BY <2>1, <3>4 DEF TypeInv, SignalTypes, ProbeStateChanges
  <2>2. CASE UpdateService(s)
    BY <2>2 DEF TypeInv, SignalTypes, UpdateService
  <2>3. QED
    BY <2>1, <2>2
<1>3. QED
  BY <1>1, <1>2 DEF TypeInv

LEMMA RequestStepTypes ==
  ASSUME TypeInv, NEW p \in Request, NEW s \in Service,
         CreateUserReport(p, s) \/ GetService(p, s)
  PROVE  TypeInv'
<1> USE DEF TypeInv, SignalTypes
<1>a. p \in Snapshotter
  BY DEF Snapshotter
<1>b. UNCHANGED <<incidents, track>> => TrackTypes'
  BY DEF TrackTypes
<1>1. CASE CreateUserReport(p, s)
  <2> DEFINE report == [id |-> Cardinality(reports) + 1, service |-> s, at |-> now]
             new == [IdleRefresh EXCEPT !.phase = "insert", !.services = {s}, !.own = {report}]
  <2>1. Cardinality(reports) \in Nat
    BY FS_CardinalityType
  <2>2. report \in Report
    BY <1>1, <2>1, PipelineAssumption DEF CreateUserReport, Report
  <2>3. new \in Refreshing /\ IsFiniteSet(new.own) /\ new.counted = {} /\ new.phase = "insert"
    <3>1. {report} \in SUBSET Report /\ IsFiniteSet({report})
      BY <2>2, FS_Singleton
    <3>2. QED
      BY <3>1, IdleTypes DEF Refreshing
  <2>4. refresh' = [refresh EXCEPT ![p] = new]
    BY <1>1 DEF CreateUserReport
  <2>5. RefreshTypes'
    BY <1>1, <1>a, <2>3, <2>4, RefreshTypesKept DEF CreateUserReport, data
  <2>6. QED
    BY <1>1, <1>b, <2>5, ClockTypes DEF CreateUserReport, data
<1>2. CASE GetService(p, s)
  <2> DEFINE new == [IdleRefresh EXCEPT !.phase = "look", !.at = now, !.services = {s}]
  <2>1. new \in Refreshing /\ new.own = {} /\ new.counted = {} /\ new.phase = "look"
    BY IdleTypes DEF Refreshing
  <2>2. refresh' = [refresh EXCEPT ![p] = new]
    BY <1>2 DEF GetService
  <2> HIDE DEF new
  <2>3. RefreshTypes'
    <3>1. IsFiniteSet(new.own) /\ new.own \subseteq reports' /\ new.counted \subseteq reports'
            /\ new.phase # "upsert" /\ UNCHANGED <<reports, snapshots>>
      BY <1>2, <2>1, FS_EmptySet DEF GetService, data
    <3>2. QED
      BY <1>a, <2>1, <2>2, <3>1, RefreshTypesKept
  <2>4. QED
    BY <1>2, <1>b, <2>3, ClockTypes DEF GetService, data
<1>3. QED
  BY <1>1, <1>2

-------------------------------------------------------------------------------
(* The tracker's types. *)

\* A set of services is put in order as a sequence of them.
LEMMA SetToSeqType ==
  ASSUME NEW S, IsFiniteSet(S)
  PROVE  SetToSeq(S) \in Seq(S) /\ (S # {} => SetToSeq(S) # <<>>)
<1> DEFINE n == Cardinality(S)
<1>1. n \in Nat /\ ExistsBijection(1..n, S) /\ (S # {} => n # 0)
  BY FS_CardinalityType, FS_EmptySet
<1>2. \E f \in [1..n -> S] : IsInjective(f)
  BY <1>1 DEF ExistsBijection, Bijection, Injection, IsInjective
<1>3. SetToSeq(S) \in [1..n -> S]
  BY <1>2 DEF SetToSeq
<1>4. QED
  BY <1>1, <1>3

\* A tracker whose new state fits leaves the types of the incidents as they are.
LEMMA TrackTypesKept ==
  ASSUME TypeInv, NEW t \in Tracker, NEW r \in Tracking,
         track' = [track EXCEPT ![t] = r], UNCHANGED incidents,
         r.phase = "incidents" => DOMAIN r.statuses \subseteq Service,
         r.phase \in {"incidents", "next", "insert"} => r.todo # <<>>
  PROVE  TrackTypes'
BY DEF TypeInv, TrackTypes

\* What is left to do after a service is again a state of the tracker.
LEMMA ThroughType ==
  ASSUME TypeInv, NEW t \in Tracker, track[t].phase \in {"next", "insert"}
  PROVE  /\ Through(t) \in Tracking
         /\ Through(t).phase # "incidents"
         /\ Through(t).phase \in {"incidents", "next", "insert"} => Through(t).todo # <<>>
<1>1. track[t] \in Tracking /\ track[t].todo \in Seq(Service) /\ track[t].todo # <<>>
  BY DEF TypeInv, TrackTypes, Tracking
<1>2. CASE Len(track[t].todo) = 1
  BY <1>2, IdleTypes DEF Through
<1>3. CASE Len(track[t].todo) # 1
  <2> DEFINE todo == track[t].todo
  <2>1. todo \in Seq(Service) /\ Len(todo) \in Nat /\ Len(todo) # 0 /\ Len(todo) # 1
    BY <1>1, <1>3
  <2> HIDE DEF todo
  <2>2. Tail(todo) \in Seq(Service) /\ Len(Tail(todo)) = Len(todo) - 1
    BY <2>1
  <2>3. Tail(todo) \in Seq(Service) /\ Tail(todo) # <<>>
    BY <2>1, <2>2
  <2> USE DEF todo
  <2>4. QED
    BY <1>1, <1>3, <2>3 DEF Through, Tracking
<1>4. QED
  BY <1>2, <1>3

\* The service at the head of the list is a service.
LEMMA ScanType ==
  ASSUME TypeInv, NEW t \in Tracker, track[t].phase \in {"next", "insert"}
  PROVE  Scan(t) \in Service
BY DEF TypeInv, TrackTypes, Tracking, Scan

LEMMA TrackStepTypes ==
  ASSUME TypeInv, NEW t \in Tracker, TrackStep(t) \/ ReconcileFails(t)
  PROVE  TypeInv'
<1> USE DEF TypeInv, SignalTypes
<1> DEFINE old == track[t]
<1>0. /\ old \in Tracking
      /\ old.phase = "incidents" => DOMAIN old.statuses \subseteq Service
      /\ old.phase \in {"incidents", "next", "insert"} => old.todo # <<>>
  BY DEF TrackTypes
<1>a. UNCHANGED <<reports, snapshots, refresh>> => RefreshTypes'
  BY DEF RefreshTypes
<1>1. CASE StartReconcile(t)
  <2> DEFINE new == [IdleTrack EXCEPT !.phase = "statuses", !.at = now]
  <2>1. new \in Tracking /\ new.phase = "statuses"
    BY IdleTypes DEF Tracking
  <2>2. TrackTypes'
    BY <1>1, <2>1, TrackTypesKept DEF StartReconcile
  <2>3. QED
    BY <1>1, <1>a, <2>2, ClockTypes DEF StartReconcile, data
<1>2. CASE ReadStatuses(t)
  <2> DEFINE map == [s \in Scanned |-> snapshots[s].status]
             new == [old EXCEPT !.phase = "incidents", !.todo = SetToSeq(Scanned),
                                !.statuses = map]
  <2>1. CASE Scanned = {}
    BY <1>2, <1>a, <2>1, IdleTypes, TrackTypesKept DEF ReadStatuses, data
  <2>2. CASE Scanned # {}
    <3>1. Scanned \subseteq Service /\ IsFiniteSet(Scanned)
      BY PipelineAssumption, FS_Subset DEF Scanned
    <3>2. SetToSeq(Scanned) \in Seq(Service) /\ SetToSeq(Scanned) # <<>>
      BY <2>2, <3>1, SetToSeqType
    <3>3. map \in [Scanned -> Algorithm!Status]
      BY DEF Scanned, RefreshTypes, Row
    <3>4. map \in UNION {[S -> Algorithm!Status] : S \in SUBSET Service}
      BY <3>1, <3>3
    <3>5. /\ new \in Tracking /\ new.phase = "incidents" /\ new.todo # <<>>
          /\ DOMAIN new.statuses \subseteq Service
      BY <1>0, <3>1, <3>2, <3>4 DEF Tracking
    <3>6. track' = [track EXCEPT ![t] = new]
      BY <1>2, <2>2 DEF ReadStatuses, TrackTypes
    <3>7. TrackTypes'
      BY <1>2, <3>5, <3>6, TrackTypesKept DEF ReadStatuses
    <3>8. QED
      BY <1>2, <1>a, <3>7 DEF ReadStatuses, data
  <2>3. QED
    BY <2>1, <2>2
<1>3. CASE ReadIncidents(t)
  <2> DEFINE found == {s \in DOMAIN old.statuses : HasActive(s)}
             new == [old EXCEPT !.phase = "next", !.open = found]
  <2>1. new \in Tracking /\ new.phase = "next" /\ new.todo # <<>>
    BY <1>0, <1>3 DEF ReadIncidents, Tracking
  <2>2. track' = [track EXCEPT ![t] = new]
    BY <1>3 DEF ReadIncidents, TrackTypes
  <2>3. TrackTypes'
    BY <1>3, <2>1, <2>2, TrackTypesKept DEF ReadIncidents
  <2>4. QED
    BY <1>3, <1>a, <2>3 DEF ReadIncidents, data
<1>4. CASE SkipService(t)
  <2>1. TrackTypes'
    BY <1>4, ThroughType, TrackTypesKept DEF SkipService
  <2>2. QED
    BY <1>4, <1>a, <2>1 DEF SkipService, data
<1>5. CASE CountActive(t)
  <2> DEFINE new == [old EXCEPT !.phase = "insert"]
  <2>1. new \in Tracking /\ new.phase = "insert" /\ new.todo # <<>>
    BY <1>0, <1>5 DEF CountActive, Tracking
  <2>2. TrackTypes'
    BY <1>5, <2>1, TrackTypesKept DEF CountActive
  <2>3. QED
    BY <1>5, <1>a, <2>2 DEF CountActive, data
<1>6. CASE InsertIncident(t) \/ ResolveActiveIncident(t)
  <2>1. old.at \in 0..MaxTime /\ Scan(t) \in Service
    BY <1>0, <1>6, ScanType DEF InsertIncident, ResolveActiveIncident, Tracking
  <2>2. track' \in [Tracker -> Tracking] /\ track' = [track EXCEPT ![t] = Through(t)]
    BY <1>6, ThroughType DEF InsertIncident, ResolveActiveIncident, TrackTypes
  <2>3. ASSUME NEW s \in Service
        PROVE  incidents'[s] \in Seq(Log!Incident)
    <3>1. incidents[s] \in Seq(Log!Incident)
      BY DEF TrackTypes
    <3>2. CASE s # Scan(t)
      BY <1>6, <2>1, <3>1, <3>2 DEF InsertIncident, ResolveActiveIncident, TrackTypes
    <3>3. CASE s = Scan(t) /\ InsertIncident(t)
      <4>1. [started |-> old.at, resolved |-> Ongoing] \in Log!Incident
        BY <2>1 DEF Log!Incident, Log!Ongoing, Ongoing
      <4>2. incidents'[s] = Append(incidents[s], [started |-> old.at, resolved |-> Ongoing])
        BY <3>3, <2>1 DEF InsertIncident, TrackTypes
      <4>3. QED
        BY <3>1, <4>1, <4>2
    <3>4. CASE s = Scan(t) /\ ResolveActiveIncident(t)
      <4>1. ASSUME NEW i \in DOMAIN incidents[s]
            PROVE  [incidents[s][i] EXCEPT !.resolved = old.at] \in Log!Incident
        <5>1. incidents[s][i] \in Log!Incident
          BY <3>1
        <5>2. QED
          BY <2>1, <5>1 DEF Log!Incident
      <4>2. incidents'[s] = [i \in DOMAIN incidents[s] |->
                               IF incidents[s][i].resolved = Ongoing
                               THEN [incidents[s][i] EXCEPT !.resolved = old.at]
                               ELSE incidents[s][i]]
        BY <3>4, <2>1 DEF ResolveActiveIncident, TrackTypes
      <4>3. DOMAIN incidents[s] = 1..Len(incidents[s]) /\ Len(incidents[s]) \in Nat
        BY <3>1
      <4>4. incidents'[s] \in [1..Len(incidents[s]) -> Log!Incident]
        BY <3>1, <4>1, <4>2, <4>3
      <4>5. QED
        BY <4>3, <4>4
    <3>5. QED
      BY <1>6, <3>2, <3>3, <3>4
  <2>4. incidents' \in [Service -> Seq(Log!Incident)]
    <3>1. incidents' = [s \in Service |-> incidents'[s]]
      BY <1>6 DEF InsertIncident, ResolveActiveIncident, TrackTypes
    <3>2. QED
      BY <2>3, <3>1
  <2>5. ASSUME NEW u \in Tracker
        PROVE  /\ track'[u].phase = "incidents" => DOMAIN track'[u].statuses \subseteq Service
               /\ track'[u].phase \in {"incidents", "next", "insert"} => track'[u].todo # <<>>
    <3>1. CASE u = t
      BY <1>6, <2>2, <3>1, ThroughType DEF InsertIncident, ResolveActiveIncident, TrackTypes
    <3>2. CASE u # t
      BY <2>2, <3>2 DEF TrackTypes
    <3>3. QED
      BY <3>1, <3>2
  <2>6. TrackTypes'
    BY <2>2, <2>4, <2>5 DEF TrackTypes
  <2>7. QED
    BY <1>6, <1>a, <2>6 DEF InsertIncident, ResolveActiveIncident, data
<1>7. CASE ReconcileFails(t)
  <2>1. TrackTypes'
    BY <1>7, IdleTypes, TrackTypesKept DEF ReconcileFails
  <2>2. QED
    BY <1>7, <1>a, <2>1 DEF ReconcileFails, data
<1>8. QED
  BY <1>1, <1>2, <1>3, <1>4, <1>5, <1>6, <1>7 DEF TrackStep

LEMMA StepTypes ==
  ASSUME TypeInv, [Next]_vars
  PROVE  TypeInv'
<1>1. CASE Next
  BY <1>1, SignalStepTypes, RequestStepTypes, RefreshStepTypes, TrackStepTypes DEF Next
<1>2. CASE UNCHANGED vars
  BY <1>2 DEF vars, TypeInv, SignalTypes, RefreshTypes, TrackTypes
<1>3. QED
  BY <1>1, <1>2

LEMMA TypesHold == Spec => []TypeInv
<1>1. Init => TypeInv
  BY InitTypes
<1>2. TypeInv /\ [Next]_vars => TypeInv'
  BY StepTypes
<1>3. QED
  BY <1>1, <1>2, PTL DEF Spec

\* The rows, and what every process holds of what it read, are of the kinds that the
\* tables and the Go types allow; what was counted was there to be counted.
THEOREM PipelineTypes == Spec => []TypeOK
<1>1. TypeInv => TypeOK
  BY TypesImplyTypeOK
<1>2. QED
  BY <1>1, TypesHold, PTL

-------------------------------------------------------------------------------
(* Refreshes of one service. *)

HasClock(p) == refresh[p].phase \in {"look", "services", "count", "probes", "upsert"}
HasCounted(p) == refresh[p].phase \in {"probes", "upsert"}

\* A count at the reading `at` of the clock has r, unless r is too old for it.
Has(counted, at, r) == InWindow(r, at) => r \in counted

\* No count that was made at the reading `at` of the clock, or at a later one, lacks r.
KnownFrom(r, at) ==
  /\ \A q \in Snapshotter :
       HasCounted(q) /\ r.service \in refresh[q].services /\ refresh[q].at >= at
       => Has(refresh[q].counted, refresh[q].at, r)
  /\ snapshots[r.service].at >= at
     => Has(snapshots[r.service].counted, snapshots[r.service].at, r)

\* Readings of the clock are behind it.
ClockInv ==
  /\ \A p \in Snapshotter : HasClock(p) => refresh[p].at < now
  /\ \A s \in Service : snapshots[s].at < now

\* A request refreshes the service whose report it stored.
OwnInv ==
  \A p \in Snapshotter :
    /\ refresh[p].phase \in {"look", "services"} => refresh[p].own = {}
    /\ \A r \in refresh[p].own : r.service \in refresh[p].services

\* A request read the clock when its report was stored: later readings find it.
CountInv ==
  \A p \in Snapshotter : refresh[p].phase \in {"count", "probes", "upsert"} =>
    \A r \in refresh[p].own : KnownFrom(r, refresh[p].at)

\* The row is at least as late as the refresh that acknowledged the report.
AckInv ==
  \A r \in acked : /\ snapshots[r.service] # None
                   /\ KnownFrom(r, snapshots[r.service].at)

OrderInv == TypeInv /\ ClockInv /\ OwnInv /\ CountInv /\ AckInv

\* What the types say of one snapshotter and of one service.
LEMMA TypeFacts ==
  ASSUME TypeInv
  PROVE  /\ now \in Int
         /\ \A p \in Snapshotter : /\ refresh[p] \in Refreshing /\ refresh[p].at \in Nat
                                   /\ refresh[p].own \subseteq Report
         /\ \A s \in Service : snapshots[s].at \in Int /\ (snapshots[s] # None => snapshots[s].at >= 0)
         /\ reports \subseteq Report /\ acked \subseteq Report
         /\ refresh = [p \in Snapshotter |-> refresh[p]]
         /\ \A r \in Report : r.service \in Service
<1>1. \A p \in Snapshotter : refresh[p] \in Refreshing
  BY DEF TypeInv, RefreshTypes
<1>2. \A p \in Snapshotter : refresh[p].at \in Nat /\ refresh[p].own \subseteq Report
  BY <1>1 DEF Refreshing
<1>3. \A s \in Service : snapshots[s].at \in Int /\ (snapshots[s] # None => snapshots[s].at >= 0)
  BY DEF TypeInv, RefreshTypes, Row, None
<1>4. QED
  BY <1>1, <1>2, <1>3 DEF TypeInv, RefreshTypes, SignalTypes, Report

LEMMA KnownFromLater ==
  ASSUME TypeInv, NEW r \in Report, NEW a \in Int, NEW b \in Int, a <= b, KnownFrom(r, a)
  PROVE  KnownFrom(r, b)
BY TypeFacts DEF KnownFrom

\* A snapshotter that has not counted adds nothing that could lack a report.
LEMMA KnownFromKept ==
  ASSUME TypeInv, NEW r \in Report, NEW a \in Int, KnownFrom(r, a),
         NEW p \in Snapshotter, NEW new \in Refreshing,
         refresh' = [refresh EXCEPT ![p] = new], UNCHANGED snapshots,
         \/ new.phase \notin {"probes", "upsert"}
         \/ HasCounted(p) /\ new.at = refresh[p].at /\ new.counted = refresh[p].counted
                          /\ new.services = refresh[p].services
         \/ r.service \in new.services => Has(new.counted, new.at, r)
  PROVE  KnownFrom(r, a)'
BY TypeFacts DEF KnownFrom, HasCounted, Has

\* An upsert replaces a row by none that was computed at an earlier reading.
LEMMA UpsertMoves ==
  ASSUME TypeInv, NEW p \in Snapshotter, UpsertSnapshots(p), NEW s \in Service
  PROVE  \/ snapshots'[s] = snapshots[s] /\ (s \in refresh[p].services => snapshots[s] # None
                                              /\ snapshots[s].at > refresh[p].at)
         \/ /\ s \in refresh[p].services
            /\ snapshots'[s] = buildServiceStatusSnapshot(p, s)
            /\ snapshots[s].at <= refresh[p].at
BY TypeFacts DEF UpsertSnapshots, Upserts, None

LEMMA KnownFromUpsert ==
  ASSUME TypeInv, NEW r \in Report, NEW a \in Int, KnownFrom(r, a),
         NEW p \in Snapshotter, UpsertSnapshots(p), refresh[p].phase = "upsert"
  PROVE  KnownFrom(r, a)'
<1> DEFINE s == r.service
<1>0. s \in Service /\ IdleRefresh.phase = "idle"
  BY TypeFacts, IdleTypes
<1>1. refresh' = [refresh EXCEPT ![p] = IdleRefresh]
  BY DEF UpsertSnapshots
<1>2. \A q \in Snapshotter : HasCounted(q)' => q # p /\ refresh'[q] = refresh[q] /\ HasCounted(q)
  BY <1>0, <1>1, TypeFacts DEF HasCounted
<1>3. snapshots'[s].at >= a => Has(snapshots'[s].counted, snapshots'[s].at, r)
  <2>1. CASE snapshots'[s] = snapshots[s]
    BY <2>1 DEF KnownFrom
  <2>2. CASE s \in refresh[p].services /\ snapshots'[s] = buildServiceStatusSnapshot(p, s)
    BY <2>2 DEF KnownFrom, HasCounted, Has, buildServiceStatusSnapshot
  <2>3. QED
    BY <1>0, <2>1, <2>2, UpsertMoves
<1>4. QED
  BY <1>2, <1>3 DEF KnownFrom

\* What a step of a snapshotter that writes no rows has to show.
LEMMA RefreshOrder ==
  ASSUME OrderInv, NEW p \in Snapshotter, NEW new \in Refreshing,
         refresh' = [refresh EXCEPT ![p] = new], UNCHANGED <<snapshots, acked>>,
         now' \in Int, now <= now',
         new.phase \in {"look", "services", "count", "probes", "upsert"} => new.at < now',
         new.phase \in {"look", "services"} => new.own = {},
         \A r \in new.own : r.service \in new.services,
         new.phase \in {"count", "probes", "upsert"} =>
           \A r \in new.own : KnownFrom(r, new.at)',
         \/ new.phase \notin {"probes", "upsert"}
         \/ HasCounted(p) /\ new.at = refresh[p].at /\ new.counted = refresh[p].counted
                          /\ new.services = refresh[p].services
         \/ \A r \in reports : r.service \in new.services => Has(new.counted, new.at, r)
  PROVE  ClockInv' /\ OwnInv' /\ CountInv' /\ AckInv'
<1> USE DEF OrderInv
<1>1. /\ \A q \in Snapshotter : q # p => refresh'[q] = refresh[q]
      /\ refresh'[p] = new
  BY TypeFacts
<1>2. ASSUME NEW r \in reports, NEW a \in Int, KnownFrom(r, a)
      PROVE  KnownFrom(r, a)'
  BY <1>2, TypeFacts, KnownFromKept
<1>3. ClockInv'
  BY <1>1, TypeFacts DEF ClockInv, HasClock
<1>4. OwnInv'
  BY <1>1 DEF OwnInv
<1>5. CountInv'
  <2>1. SUFFICES ASSUME NEW q \in Snapshotter, q # p,
                        refresh[q].phase \in {"count", "probes", "upsert"},
                        NEW r \in refresh[q].own
                 PROVE  KnownFrom(r, refresh[q].at)'
    BY <1>1 DEF CountInv
  <2>2. r \in reports
    BY <2>1 DEF TypeInv, RefreshTypes
  <2>3. KnownFrom(r, refresh[q].at) /\ refresh[q].at \in Int
    BY <2>1, TypeFacts DEF CountInv
  <2>4. QED
    BY <1>1, <1>2, <2>1, <2>2, <2>3
<1>6. AckInv'
  <2>1. SUFFICES ASSUME NEW r \in acked
                 PROVE  /\ snapshots[r.service] # None
                        /\ KnownFrom(r, snapshots[r.service].at)'
    BY DEF AckInv
  <2>2. r \in reports /\ r.service \in Service
    BY TypeFacts DEF TypeInv, SignalTypes
  <2>3. QED
    BY <1>2, <2>1, <2>2, TypeFacts DEF AckInv
<1>7. QED
  BY <1>3, <1>4, <1>5, <1>6

\* Steps that touch neither snapshotters nor rows.
LEMMA ElsewhereOrder ==
  ASSUME OrderInv, UNCHANGED <<snapshots, refresh, acked>>, now' \in Int, now <= now'
  PROVE  ClockInv' /\ OwnInv' /\ CountInv' /\ AckInv'
<1>1. \A r, a : KnownFrom(r, a)' <=> KnownFrom(r, a)
  BY DEF KnownFrom, HasCounted
<1>2. CountInv' /\ AckInv'
  BY <1>1 DEF OrderInv, CountInv, AckInv
<1>3. ClockInv' /\ OwnInv'
  BY TypeFacts DEF OrderInv, ClockInv, HasClock, OwnInv
<1>4. QED
  BY <1>2, <1>3

LEMMA RequestStepOrder ==
  ASSUME OrderInv, ~ClockStops, NEW p \in Request, NEW s \in Service,
         CreateUserReport(p, s) \/ GetService(p, s)
  PROVE  ClockInv' /\ OwnInv' /\ CountInv' /\ AckInv'
<1>a. p \in Snapshotter
  BY DEF Snapshotter
<1>b. ReadClock => now' \in Int /\ now < now' /\ now <= now'
  BY TypeFacts DEF OrderInv, ReadClock
<1>c. TypeInv'
  BY RequestStepTypes DEF OrderInv
<1>1. CASE CreateUserReport(p, s)
  <2> DEFINE report == [id |-> Cardinality(reports) + 1, service |-> s, at |-> now]
             new == [IdleRefresh EXCEPT !.phase = "insert", !.services = {s}, !.own = {report}]
  <2>1. /\ new.phase = "insert" /\ new.own = {report} /\ new.services = {s}
        /\ report.service = s
    BY DEF IdleRefresh
  <2>2. refresh' = [refresh EXCEPT ![p] = new]
    BY <1>1 DEF CreateUserReport
  <2>3. new \in Refreshing
    BY <1>a, <1>c, <2>2, TypeFacts DEF OrderInv, TypeInv, RefreshTypes
  <2> HIDE DEF new
  <2>4. QED
    BY <1>1, <1>a, <1>b, <2>1, <2>2, <2>3, RefreshOrder DEF CreateUserReport
<1>2. CASE GetService(p, s)
  <2> DEFINE new == [IdleRefresh EXCEPT !.phase = "look", !.at = now, !.services = {s}]
  <2>1. new.phase = "look" /\ new.own = {} /\ new.at = now
    BY DEF IdleRefresh
  <2>2. refresh' = [refresh EXCEPT ![p] = new]
    BY <1>2 DEF GetService
  <2>3. new \in Refreshing
    BY <1>a, <1>c, <2>2, TypeFacts DEF OrderInv, TypeInv, RefreshTypes
  <2> HIDE DEF new
  <2>4. QED
    BY <1>2, <1>a, <1>b, <2>1, <2>2, <2>3, RefreshOrder DEF GetService
<1>3. QED
  BY <1>1, <1>2

LEMMA RefreshStepOrder ==
  ASSUME OrderInv, ~ClockStops, NEW p \in Snapshotter, RefreshStep(p) \/ RefreshFails(p)
  PROVE  ClockInv' /\ OwnInv' /\ CountInv' /\ AckInv'
<1> DEFINE old == refresh[p]
<1>a. ReadClock => now' \in Int /\ now < now' /\ now <= now'
  BY TypeFacts DEF OrderInv, ReadClock
<1>b. TypeInv' /\ now' \in Int
  BY RefreshStepTypes DEF OrderInv, TypeInv, SignalTypes
<1>c. /\ old \in Refreshing /\ old.at \in Nat
      /\ old.phase \in {"look", "services"} => old.own = {}
      /\ \A r \in old.own : r.service \in old.services
      /\ HasClock(p) => old.at < now
      /\ old.phase \in {"count", "probes", "upsert"} => \A r \in old.own : KnownFrom(r, old.at)
  BY TypeFacts DEF OrderInv, OwnInv, ClockInv, CountInv
<1>e. IdleRefresh \in Refreshing /\ IdleRefresh.phase = "idle" /\ IdleRefresh.own = {}
  BY IdleTypes
<1>f. now' = now => now <= now'
  BY TypeFacts DEF OrderInv
<1>1. CASE StartRefresh(p)
  <2>1. PICK new \in Refreshing : /\ refresh' = [refresh EXCEPT ![p] = new]
                                  /\ new.phase = "services" /\ new.own = {} /\ new.at = now
    <3> DEFINE x == [IdleRefresh EXCEPT !.phase = "services", !.at = now]
    <3>1. x \in Refreshing /\ x.phase = "services" /\ x.own = {} /\ x.at = now
      BY <1>e DEF OrderInv, TypeInv, SignalTypes, Refreshing
    <3>2. QED
      BY <1>1, <3>1 DEF StartRefresh
  <2>2. QED
    BY <1>1, <1>a, <2>1, RefreshOrder DEF StartRefresh
<1>2. CASE InsertUserReport(p)
  <2>1. PICK new \in Refreshing : /\ refresh' = [refresh EXCEPT ![p] = new]
                                  /\ new.phase = "clock" /\ new.own = old.own
                                  /\ new.services = old.services
    <3> DEFINE x == [old EXCEPT !.phase = "clock"]
    <3>1. x \in Refreshing /\ x.phase = "clock" /\ x.own = old.own /\ x.services = old.services
      BY <1>c DEF Refreshing
    <3>2. refresh' = [refresh EXCEPT ![p] = x]
      BY <1>2, TypeFacts DEF OrderInv, InsertUserReport
    <3>3. QED
      BY <3>1, <3>2
  <2>2. QED
    BY <1>2, <1>b, <1>c, <1>f, <2>1, RefreshOrder DEF InsertUserReport
\* What others counted, they counted at earlier readings.
<1>3. CASE ReadRequestClock(p)
  <2>1. PICK n \in Int : n = now
    BY TypeFacts DEF OrderInv
  <2>2. PICK new \in Refreshing : /\ refresh' = [refresh EXCEPT ![p] = new]
                                  /\ new.phase = "count" /\ new.own = old.own
                                  /\ new.services = old.services /\ new.at = n
    <3> DEFINE x == [old EXCEPT !.phase = "count", !.at = now]
    <3>1. x \in Refreshing /\ x.phase = "count" /\ x.own = old.own
            /\ x.services = old.services /\ x.at = now
      BY <1>c DEF OrderInv, TypeInv, SignalTypes, Refreshing
    <3>2. refresh' = [refresh EXCEPT ![p] = x]
      BY <1>3, TypeFacts DEF OrderInv, ReadRequestClock
    <3>3. QED
      BY <2>1, <3>1, <3>2
  <2>3. ASSUME NEW r \in new.own
        PROVE  KnownFrom(r, new.at)'
    <3>1. r.service \in Service
      BY <2>2, TypeFacts DEF OrderInv, Refreshing
    <3>2. ~(snapshots'[r.service].at >= n)
      BY <1>3, <2>1, <3>1, TypeFacts DEF OrderInv, ClockInv, ReadRequestClock
    <3>3. \A q \in Snapshotter : HasCounted(q)' => ~(refresh'[q].at >= n)
      BY <1>3, <2>1, <2>2, TypeFacts DEF OrderInv, ClockInv, HasCounted, HasClock
    <3>4. QED
      BY <2>2, <3>2, <3>3 DEF KnownFrom
  <2>4. now < now' /\ now' \in Int /\ now <= now' /\ new.at < now'
    BY <1>3, <1>a, <2>1, <2>2 DEF ReadRequestClock
  <2>5. QED
    BY <1>3, <1>c, <2>2, <2>3, <2>4, RefreshOrder DEF ReadRequestClock
\* Neither refreshes for the list nor those for a missing row have a report of their own.
<1>4. CASE ReadActiveServices(p) \/ GetServiceStatus(p)
  <2>1. PICK new \in Refreshing : /\ refresh' = [refresh EXCEPT ![p] = new]
                                  /\ new.phase \in {"idle", "count"} /\ new.own = {}
                                  /\ new.phase = "count" => new.at = old.at
    <3>1. CASE refresh' = [refresh EXCEPT ![p] = IdleRefresh]
      BY <1>e, <3>1
    <3>2. CASE ~(refresh' = [refresh EXCEPT ![p] = IdleRefresh]) /\ ReadActiveServices(p)
      <4> DEFINE ids == {s \in Service : active[s]}
                 x == [old EXCEPT !.phase = "count", !.services = ids]
      <4>1. x \in Refreshing /\ x.phase = "count" /\ x.own = {} /\ x.at = old.at
        BY <1>c, <3>2 DEF ReadActiveServices, Refreshing
      <4>2. refresh' = [refresh EXCEPT ![p] = x]
        BY <3>2 DEF ReadActiveServices
      <4>3. QED
        BY <4>1, <4>2
    <3>3. CASE ~(refresh' = [refresh EXCEPT ![p] = IdleRefresh]) /\ GetServiceStatus(p)
      <4> DEFINE x == [old EXCEPT !.phase = "count"]
      <4>1. x \in Refreshing /\ x.phase = "count" /\ x.own = {} /\ x.at = old.at
        BY <1>c, <3>3 DEF GetServiceStatus, Refreshing
      <4>2. refresh' = [refresh EXCEPT ![p] = x]
        BY <3>3 DEF GetServiceStatus
      <4>3. QED
        BY <4>1, <4>2
    <3>4. QED
      BY <1>4, <3>1, <3>2, <3>3
  <2>2. old.at < now /\ now' = now
    BY <1>4, <1>c DEF ReadActiveServices, GetServiceStatus, HasClock
  <2>3. QED
    BY <1>4, <1>b, <1>f, <2>1, <2>2, RefreshOrder DEF ReadActiveServices, GetServiceStatus, data
\* A count takes in all there is.
<1>5. CASE CountReports(p)
  <2> DEFINE found == {r \in reports : r.service \in old.services /\ InWindow(r, old.at)}
             x == [old EXCEPT !.phase = "probes", !.counted = found]
  <2>1. PICK new \in Refreshing : /\ refresh' = [refresh EXCEPT ![p] = new]
                                  /\ new.phase = "probes" /\ new.own = old.own
                                  /\ new.services = old.services /\ new.at = old.at
                                  /\ new.counted = found
    <3>1. found \subseteq Report
      BY TypeFacts DEF OrderInv
    <3>2. x \in Refreshing /\ x.phase = "probes" /\ x.own = old.own
            /\ x.services = old.services /\ x.at = old.at /\ x.counted = found
      BY <1>c, <3>1 DEF Refreshing
    <3>3. refresh' = [refresh EXCEPT ![p] = x]
      BY <1>5, TypeFacts DEF OrderInv, CountReports
    <3>4. QED
      BY <3>2, <3>3
  <2>2. \A r \in reports : r.service \in new.services => Has(new.counted, new.at, r)
    BY <2>1 DEF Has
  <2>3. \A r \in new.own : KnownFrom(r, new.at)'
    <3>1. \A r \in new.own : KnownFrom(r, new.at) /\ r \in Report /\ r \in reports
      BY <1>5, <1>c, <2>1, TypeFacts DEF CountReports, OrderInv, TypeInv, RefreshTypes
    <3>2. new.at \in Int
      BY <1>c, <2>1
    <3>3. QED
      BY <1>5, <2>1, <2>2, <3>1, <3>2, KnownFromKept DEF CountReports, OrderInv
  <2>4. old.at < now /\ now' = now
    BY <1>5, <1>c DEF CountReports, HasClock
  <2>5. QED
    BY <1>5, <1>b, <1>c, <1>f, <2>1, <2>2, <2>3, <2>4, RefreshOrder DEF CountReports, data
<1>6. CASE ReadProbeStats(p)
  <2> DEFINE x == [old EXCEPT !.phase = "upsert", !.counters = probes]
  <2>1. PICK new \in Refreshing : /\ refresh' = [refresh EXCEPT ![p] = new]
                                  /\ new.phase = "upsert" /\ new.own = old.own
                                  /\ new.services = old.services /\ new.at = old.at
                                  /\ new.counted = old.counted
    <3>1. x \in Refreshing /\ x.phase = "upsert" /\ x.own = old.own
            /\ x.services = old.services /\ x.at = old.at /\ x.counted = old.counted
      BY <1>c DEF Refreshing, OrderInv, TypeInv, SignalTypes
    <3>2. refresh' = [refresh EXCEPT ![p] = x]
      BY <1>6, TypeFacts DEF OrderInv, ReadProbeStats
    <3>3. QED
      BY <3>1, <3>2
  <2>2. HasCounted(p) /\ HasClock(p) /\ old.phase = "probes"
    BY <1>6 DEF ReadProbeStats, HasCounted, HasClock
  <2>3. \A r \in new.own : KnownFrom(r, new.at)'
    <3>1. \A r \in new.own : KnownFrom(r, new.at) /\ r \in Report
      BY <1>c, <2>1, <2>2, TypeFacts DEF OrderInv
    <3>2. new.at \in Int
      BY <1>c, <2>1
    <3>3. QED
      BY <1>6, <2>1, <2>2, <3>1, <3>2, KnownFromKept DEF ReadProbeStats, OrderInv
  <2>4. QED
    BY <1>6, <1>b, <1>c, <1>f, <2>1, <2>2, <2>3, RefreshOrder DEF ReadProbeStats, data
<1>7. CASE RefreshFails(p)
  BY <1>7, <1>b, <1>e, <1>f, RefreshOrder DEF RefreshFails, data
<1>8. CASE UpsertSnapshots(p)
  <2>0. /\ refresh' = [refresh EXCEPT ![p] = IdleRefresh] /\ now' = now
        /\ acked' = acked \cup old.own /\ old.phase = "upsert" /\ HasClock(p)
    BY <1>8 DEF UpsertSnapshots, HasClock
  <2>1. /\ refresh'[p] = IdleRefresh
        /\ \A q \in Snapshotter : q # p => refresh'[q] = refresh[q]
    BY <2>0, TypeFacts DEF OrderInv
  <2>2. \A s \in Service : buildServiceStatusSnapshot(p, s).at = old.at
    BY DEF buildServiceStatusSnapshot
  <2>3. ClockInv'
    <3>1. \A s \in Service : snapshots'[s].at < now'
      BY <1>8, <1>c, <2>0, <2>2, UpsertMoves DEF OrderInv, ClockInv
    <3>2. QED
      BY <1>e, <2>0, <2>1, <3>1 DEF OrderInv, ClockInv, HasClock
  <2>4. OwnInv'
    BY <1>e, <2>1 DEF OrderInv, OwnInv
  <2>5. ASSUME NEW r \in Report, NEW a \in Int, KnownFrom(r, a)
        PROVE  KnownFrom(r, a)'
    BY <1>8, <2>0, <2>5, KnownFromUpsert DEF OrderInv
  <2>6. CountInv'
    <3>1. SUFFICES ASSUME NEW q \in Snapshotter, q # p,
                          refresh[q].phase \in {"count", "probes", "upsert"},
                          NEW r \in refresh[q].own
                   PROVE  KnownFrom(r, refresh[q].at)'
      BY <1>e, <2>1 DEF CountInv
    <3>2. PICK a \in Int : a = refresh[q].at
      BY TypeFacts DEF OrderInv
    <3>3. r \in Report /\ KnownFrom(r, a) /\ refresh'[q].at = a
      BY <2>1, <3>1, <3>2, TypeFacts DEF OrderInv, CountInv
    <3>4. KnownFrom(r, a)'
      BY <2>5, <3>3
    <3>5. QED
      BY <3>3, <3>4 DEF KnownFrom
  <2>7. AckInv'
    <3>1. SUFFICES ASSUME NEW r \in acked'
                   PROVE  /\ snapshots'[r.service] # None
                          /\ KnownFrom(r, snapshots[r.service].at)'
      BY DEF AckInv
    <3>2. r \in Report /\ r.service \in Service
      BY <1>c, <2>0, TypeFacts DEF OrderInv, Refreshing
    <3>3. /\ snapshots'[r.service] # None /\ snapshots'[r.service].at \in Int
          /\ \E a \in Int : a <= snapshots'[r.service].at /\ KnownFrom(r, a)
      <4>1. CASE r \in acked
        <5>1. snapshots[r.service] # None /\ KnownFrom(r, snapshots[r.service].at)
          BY <4>1 DEF OrderInv, AckInv
        <5>2. snapshots'[r.service] # None /\ snapshots'[r.service].at \in Int
                /\ snapshots[r.service].at <= snapshots'[r.service].at
          BY <1>8, <1>c, <2>2, <3>2, <5>1, UpsertMoves, TypeFacts DEF OrderInv, None
        <5>3. QED
          BY <3>2, <5>1, <5>2, TypeFacts DEF OrderInv
      <4>2. CASE r \in old.own
        <5>1. KnownFrom(r, old.at) /\ r.service \in old.services
          BY <1>c, <2>0, <4>2
        <5>2. snapshots'[r.service] # None /\ snapshots'[r.service].at \in Int
                /\ old.at <= snapshots'[r.service].at
          BY <1>8, <1>c, <2>2, <3>2, <5>1, UpsertMoves, TypeFacts DEF OrderInv, None
        <5>3. QED
          BY <1>c, <5>1, <5>2
      <4>3. QED
        BY <2>0, <4>1, <4>2
    <3>4. PICK b \in Int : b = snapshots'[r.service].at
      BY <3>3
    <3>5. KnownFrom(r, b)
      BY <3>2, <3>3, <3>4, KnownFromLater DEF OrderInv
    <3>6. KnownFrom(r, b)'
      BY <2>5, <3>2, <3>5
    <3>7. QED
      BY <3>3, <3>4, <3>6 DEF KnownFrom
  <2>8. QED
    BY <2>3, <2>4, <2>6, <2>7
<1>9. QED
  BY <1>1, <1>2, <1>3, <1>4, <1>5, <1>6, <1>7, <1>8 DEF RefreshStep

LEMMA OrderStep ==
  ASSUME OrderInv, ~ClockStops, [Next]_vars
  PROVE  OrderInv'
<1>0. TypeInv' /\ now' \in Int
  BY StepTypes DEF OrderInv, TypeInv, SignalTypes
<1>a. now \in Int /\ (ReadClock => now <= now')
  BY TypeFacts DEF OrderInv, ReadClock
<1>1. CASE \E s \in Service : ProbeStateChanges(s) \/ UpdateService(s)
  BY <1>0, <1>1, <1>a, ElsewhereOrder DEF OrderInv, ProbeStateChanges, UpdateService
<1>2. CASE \E p \in Request, s \in Service : CreateUserReport(p, s) \/ GetService(p, s)
  BY <1>0, <1>2, RequestStepOrder DEF OrderInv
<1>3. CASE \E p \in Snapshotter : RefreshStep(p) \/ RefreshFails(p)
  BY <1>0, <1>3, RefreshStepOrder DEF OrderInv
<1>4. CASE \E t \in Tracker : TrackStep(t) \/ ReconcileFails(t)
  <2>1. UNCHANGED <<snapshots, refresh, acked>> /\ now <= now'
    BY <1>4, <1>a DEF TrackStep, ReconcileFails, StartReconcile, ReadStatuses, ReadIncidents,
                      SkipService, CountActive, InsertIncident, ResolveActiveIncident
  <2>2. QED
    BY <1>0, <2>1, ElsewhereOrder DEF OrderInv
<1>5. CASE UNCHANGED vars
  BY <1>0, <1>5, <1>a, ElsewhereOrder DEF OrderInv, vars
<1>6. QED
  BY <1>1, <1>2, <1>3, <1>4, <1>5 DEF Next

\* However many requests and workers refresh at their own pace, and whatever fails: once
\* the request that stored a report has refreshed the snapshot, no slower refresh takes
\* the report out of it while it is in the window (storage/statuses.go:132).  This
\* needs that no two readings of the clock give the same instant.
THEOREM AckedReportsStay ==
  ASSUME ~ClockStops
  PROVE  Spec => []AckedReportIsCounted
<1>1. Init => OrderInv
  <2>1. ASSUME Init
        PROVE  ClockInv /\ OwnInv /\ CountInv /\ AckInv
    BY <2>1, IdleTypes
       DEF Init, ClockInv, OwnInv, CountInv, AckInv, HasClock, None
  <2>2. QED
    BY <2>1, InitTypes DEF OrderInv
<1>2. OrderInv /\ [Next]_vars => OrderInv'
  BY OrderStep
<1>3. OrderInv => AckedReportIsCounted
  <2>1. SUFFICES ASSUME OrderInv, NEW r \in acked
                 PROVE  InWindow(r, snapshots[r.service].at) => r \in snapshots[r.service].counted
    BY DEF AckedReportIsCounted
  <2>2. snapshots[r.service].at \in Int
    BY <2>1, TypeFacts DEF OrderInv
  <2>3. KnownFrom(r, snapshots[r.service].at)
    BY <2>1 DEF OrderInv, AckInv
  <2>4. QED
    BY <2>2, <2>3 DEF KnownFrom, Has
<1>4. QED
  BY <1>1, <1>2, <1>3, PTL DEF Spec

-------------------------------------------------------------------------------
(* The incidents of one tracker. *)

OneTracker == \A t, u \in Tracker : t = u

\* What an incident's ends are at most.
Before(incident, at) == incident.started <= at /\ incident.resolved <= at

\* Only the last incident of a service is open, and the tracker under way read the
\* clock after all that is written; what it counted is still so when it inserts.
LogInv ==
  /\ \A s \in Service : \A i \in DOMAIN incidents[s] :
       /\ Before(incidents[s][i], now)
       /\ incidents[s][i].resolved = Ongoing => i = Len(incidents[s])
       /\ \A t \in Tracker : track[t].phase # "idle" => Before(incidents[s][i], track[t].at)
  /\ \A t \in Tracker :
       /\ track[t].phase # "idle" => track[t].at <= now
       /\ track[t].phase = "insert" => ~HasActive(Scan(t))

LEMMA TrackFacts ==
  ASSUME TypeInv
  PROVE  /\ now \in Int
         /\ \A t \in Tracker : track[t] \in Tracking /\ track[t].at \in 0..MaxTime
                                                     /\ track[t].at \in Int
         /\ \A s \in Service : incidents[s] \in Seq(Log!Incident)
         /\ \A s \in Service : \A i \in DOMAIN incidents[s] :
              /\ incidents[s][i] \in Log!Incident
              /\ incidents[s][i].started \in Nat /\ incidents[s][i].resolved \in Int
              /\ incidents[s][i].resolved # Ongoing => incidents[s][i].resolved \in Nat
<1>1. now \in Int
  BY DEF TypeInv, SignalTypes
<1>2. \A t \in Tracker : track[t] \in Tracking
  BY DEF TypeInv, TrackTypes
<1>3. \A t \in Tracker : track[t].at \in 0..MaxTime /\ track[t].at \in Int
  BY <1>2 DEF Tracking
<1>4. \A s \in Service : incidents[s] \in Seq(Log!Incident)
  BY DEF TypeInv, TrackTypes
<1>5. \A s \in Service : \A i \in DOMAIN incidents[s] : incidents[s][i] \in Log!Incident
  BY <1>4
<1>6. \A x \in Log!Incident : /\ x.started \in Nat /\ x.resolved \in Int
                              /\ x.resolved # Ongoing => x.resolved \in Nat
  BY DEF Log!Incident, Log!Ongoing, Ongoing
<1>7. QED
  BY <1>1, <1>2, <1>3, <1>4, <1>5, <1>6

\* Steps that touch neither the tracker nor the incidents.
LEMMA ElsewhereLog ==
  ASSUME TypeInv, LogInv, UNCHANGED <<incidents, track>>, now' \in Int, now <= now'
  PROVE  LogInv'
<1>1. \A t \in Tracker : Scan(t)' = Scan(t)
  BY DEF Scan
<1>2. \A s : HasActive(s)' <=> HasActive(s)
  BY DEF HasActive
<1>3. QED
  BY <1>1, <1>2, TrackFacts DEF LogInv, Before

\* Steps of the one tracker that write no incident.
LEMMA TrackerLog ==
  ASSUME TypeInv, LogInv, OneTracker, NEW t \in Tracker, NEW new \in Tracking,
         track' = [track EXCEPT ![t] = new], UNCHANGED incidents, now' \in Int, now <= now',
         new.phase # "idle" => \/ new.at = now
                               \/ track[t].phase # "idle" /\ new.at = track[t].at,
         new.phase = "insert" => ~HasActive(Head(new.todo))
  PROVE  LogInv'
<1>1. track'[t] = new /\ \A u \in Tracker : u = t
  BY DEF TypeInv, TrackTypes, OneTracker
<1>2. new.phase = "insert" => ~HasActive(Scan(t))'
  BY <1>1 DEF Scan, HasActive
<1>3. new.at \in Int
  BY DEF Tracking
<1>4. ASSUME NEW s \in Service, NEW i \in DOMAIN incidents[s]
      PROVE  /\ Before(incidents[s][i], now)'
             /\ incidents[s][i].resolved = Ongoing => i = Len(incidents[s])
             /\ new.phase # "idle" => Before(incidents[s][i], new.at)
  BY <1>3, TrackFacts DEF LogInv, Before
<1>5. new.phase # "idle" => new.at <= now'
  BY <1>3, TrackFacts DEF LogInv
<1>6. QED
  BY <1>1, <1>2, <1>4, <1>5 DEF LogInv, Before

\* The tracker is through with a service: idle, or at the next one with the same clock.
LEMMA ThroughFacts ==
  ASSUME TypeInv, NEW t \in Tracker, track[t].phase \in {"next", "insert"}
  PROVE  /\ Through(t).phase \in {"idle", "next"}
         /\ Through(t).phase = "next" => Through(t).at = track[t].at
BY TrackFacts DEF Through, IdleTrack, Tracking

\* An inserted incident follows one that is resolved.
LEMMA InsertIsOpen ==
  ASSUME TypeInv, LogInv, OneTracker, NEW t \in Tracker, InsertIncident(t)
  PROVE  LogInv' /\ Log!Open(Scan(t), track[t].at)
<1> DEFINE s == Scan(t)
           at == track[t].at
           new == [started |-> at, resolved |-> Ongoing]
<1>1. track[t].phase = "insert" /\ s \in Service /\ at \in Nat /\ at <= now /\ ~HasActive(s)
  BY ScanType, TrackFacts DEF InsertIncident, LogInv
<1>2. incidents' = [incidents EXCEPT ![s] = Append(@, new)] /\ now' = now
  BY DEF InsertIncident
<1>3. /\ incidents'[s] = Append(incidents[s], new)
      /\ \A u \in Service : u # s => incidents'[u] = incidents[u]
  BY <1>1, <1>2 DEF TypeInv, TrackTypes
<1>4. incidents[s] \in Seq(Log!Incident) /\ Len(incidents[s]) \in Nat
        /\ DOMAIN incidents[s] = 1..Len(incidents[s])
  BY <1>1, TrackFacts
<1>5. Log!Open(s, at)
  <2>1. ASSUME incidents[s] # <<>>
        PROVE  incidents[s][Len(incidents[s])].resolved \in 0..at
    <3>1. Len(incidents[s]) \in DOMAIN incidents[s]
      BY <1>4, <2>1
    <3>2. incidents[s][Len(incidents[s])].resolved # Ongoing
      BY <1>1, <3>1 DEF HasActive
    <3>3. incidents[s][Len(incidents[s])].resolved \in Nat
      BY <1>1, <3>1, <3>2, TrackFacts
    <3>4. incidents[s][Len(incidents[s])].resolved <= at
      BY <1>1, <3>1 DEF LogInv, Before
    <3>5. QED
      BY <1>1, <3>3, <3>4
  <2>2. QED
    BY <1>2, <2>1 DEF Log!Open, Log!Last, Last, Log!Ongoing, Ongoing
<1>6. track' = [track EXCEPT ![t] = Through(t)] /\ track'[t] = Through(t)
        /\ \A u \in Tracker : u = t
  BY DEF InsertIncident, OneTracker, TypeInv, TrackTypes
<1>7. ASSUME NEW u \in Service, NEW i \in DOMAIN incidents'[u]
      PROVE  /\ Before(incidents'[u][i], now) /\ Before(incidents'[u][i], at)
             /\ incidents'[u][i].resolved = Ongoing => i = Len(incidents'[u])
  <2>1. CASE u # s \/ i \in DOMAIN incidents[s]
    BY <1>1, <1>3, <1>4, <2>1 DEF LogInv, HasActive
  <2>2. CASE u = s /\ i \notin DOMAIN incidents[s]
    <3>1. i = Len(incidents[s]) + 1 /\ incidents'[s][i] = new /\ Len(incidents'[s]) = i
      BY <1>3, <1>4, <2>2
    <3>2. QED
      BY <1>1, <2>2, <3>1, TrackFacts DEF Before, Ongoing
  <2>3. QED
    BY <2>1, <2>2
<1>8. LogInv'
  BY <1>1, <1>2, <1>6, <1>7, ThroughFacts DEF LogInv
<1>9. QED
  BY <1>5, <1>8

\* A resolution changes the last incident if that is open, and nothing if none is.
LEMMA ResolveIsResolve ==
  ASSUME TypeInv, LogInv, OneTracker, NEW t \in Tracker, ResolveActiveIncident(t)
  PROVE  LogInv' /\ (Log!Resolve(Scan(t), track[t].at) \/ UNCHANGED incidents)
<1> DEFINE s == Scan(t)
           at == track[t].at
           n == Len(incidents[s])
           Resolved(x) == [x EXCEPT !.resolved = at]
<1>1. track[t].phase = "next" /\ s \in Service /\ at \in Nat /\ at <= now
  BY ScanType, TrackFacts DEF ResolveActiveIncident, LogInv
<1>2. incidents' = [incidents EXCEPT ![s] =
                      [i \in DOMAIN @ |-> IF @[i].resolved = Ongoing THEN Resolved(@[i]) ELSE @[i]]]
        /\ now' = now
  BY DEF ResolveActiveIncident
<1>3. /\ incidents'[s] = [i \in DOMAIN incidents[s] |->
                            IF incidents[s][i].resolved = Ongoing THEN Resolved(incidents[s][i])
                            ELSE incidents[s][i]]
      /\ \A u \in Service : u # s => incidents'[u] = incidents[u]
  BY <1>1, <1>2 DEF TypeInv, TrackTypes
<1>4. incidents[s] \in Seq(Log!Incident) /\ n \in Nat /\ DOMAIN incidents[s] = 1..n
  BY <1>1, TrackFacts
<1>5. \A u \in Service : Len(incidents'[u]) = Len(incidents[u])
                           /\ DOMAIN incidents'[u] = DOMAIN incidents[u]
  <2>1. incidents'[s] \in Seq(Log!Incident)
    BY <1>1, TrackStepTypes DEF TypeInv, TrackTypes, TrackStep
  <2>2. DOMAIN incidents'[s] = 1..Len(incidents'[s]) /\ Len(incidents'[s]) \in Nat
    BY <2>1
  <2>3. DOMAIN incidents'[s] = 1..n
    BY <1>3, <1>4
  <2>4. Len(incidents'[s]) = n
    BY <1>4, <2>2, <2>3
  <2>5. QED
    BY <1>3, <1>4, <2>3, <2>4
<1>6. \A i \in DOMAIN incidents[s] : incidents[s][i].resolved = Ongoing => i = n
  BY <1>1 DEF LogInv
<1>7. ASSUME NEW i \in DOMAIN incidents[s]
      PROVE  Resolved(incidents[s][i]).started = incidents[s][i].started
               /\ Resolved(incidents[s][i]).resolved = at
  BY <1>1, TrackFacts DEF Log!Incident
<1>8. ASSUME HasActive(s)
      PROVE  Log!Resolve(s, at)
  <2>1. n \in DOMAIN incidents[s] /\ incidents[s][n].resolved = Ongoing
    BY <1>6, <1>8 DEF HasActive
  <2>2. incidents[s] # <<>>
    BY <1>4, <2>1
  <2>3. incidents[s][n].started <= at
    BY <1>1, <2>1 DEF LogInv, Before
  <2>4. incidents'[s] = [incidents[s] EXCEPT ![n] = Resolved(incidents[s][n])]
    BY <1>3, <1>4, <1>6, <2>1
  <2>5. incidents' = [incidents EXCEPT ![s][n].resolved = at]
    BY <1>2, <1>3, <2>4
  <2>6. Log!Resolve(s, at)
    BY <2>1, <2>2, <2>3, <2>5 DEF Log!Resolve, Log!IsOpen, Log!Last, Log!Ongoing, Ongoing
  <2>7. QED
    BY <2>6
<1>9. ASSUME ~HasActive(s)
      PROVE  UNCHANGED incidents
  <2>1. incidents'[s] = incidents[s]
    BY <1>3, <1>4, <1>9 DEF HasActive
  <2>2. UNCHANGED incidents
    BY <1>1, <1>2, <2>1 DEF TypeInv, TrackTypes
  <2>3. QED
    BY <2>2
<1>10. ASSUME NEW u \in Service, NEW i \in DOMAIN incidents'[u]
       PROVE  /\ Before(incidents'[u][i], now) /\ Before(incidents'[u][i], at)
              /\ incidents'[u][i].resolved = Ongoing => i = Len(incidents'[u])
  <2>1. i \in DOMAIN incidents[u] /\ Len(incidents'[u]) = Len(incidents[u])
    BY <1>5
  <2>2. Before(incidents[u][i], now) /\ Before(incidents[u][i], at)
          /\ (incidents[u][i].resolved = Ongoing => i = Len(incidents[u]))
    BY <1>1, <2>1 DEF LogInv
  <2>3. CASE incidents'[u][i] = incidents[u][i]
    BY <2>1, <2>2, <2>3
  <2>4. CASE u = s /\ incidents'[u][i] = Resolved(incidents[s][i])
    BY <1>1, <1>7, <2>1, <2>2, <2>4, TrackFacts DEF Before, Ongoing
  <2>5. QED
    BY <1>3, <2>1, <2>3, <2>4
<1>11. track' = [track EXCEPT ![t] = Through(t)] /\ track'[t] = Through(t)
         /\ \A u \in Tracker : u = t
  BY DEF ResolveActiveIncident, OneTracker, TypeInv, TrackTypes
<1>12. LogInv'
  BY <1>1, <1>2, <1>11, <1>10, ThroughFacts DEF LogInv
<1>13. QED
  BY <1>8, <1>9, <1>12

LEMMA LogStep ==
  ASSUME TypeInv, LogInv, OneTracker, [Next]_vars
  PROVE  LogInv' /\ [Log!Next]_incidents
<1>0. now' \in Int /\ now \in Int
  BY StepTypes DEF TypeInv, SignalTypes
<1>a. ReadClock => now <= now'
  BY <1>0 DEF ReadClock
<1>b. UNCHANGED now => now <= now'
  BY <1>0
<1>1. CASE UNCHANGED <<incidents, track>> /\ (ReadClock \/ UNCHANGED now)
  BY <1>0, <1>1, <1>a, <1>b, ElsewhereLog
<1>2. ASSUME NEW t \in Tracker, TrackStep(t) \/ ReconcileFails(t)
      PROVE  LogInv' /\ [Log!Next]_incidents
  <2>0. /\ track[t] \in Tracking /\ IdleTrack \in Tracking /\ IdleTrack.phase = "idle"
        /\ track'[t] \in Tracking
        /\ track[t].phase \in {"next", "insert"} => Through(t) \in Tracking
    BY <1>2, TrackStepTypes, TrackFacts, IdleTypes, ThroughType DEF TypeInv, TrackTypes
  <2>1. CASE InsertIncident(t)
    BY <2>1, ScanType, InsertIsOpen, TrackFacts DEF InsertIncident, Log!Next
  <2>2. CASE ResolveActiveIncident(t)
    BY <2>2, ScanType, ResolveIsResolve, TrackFacts DEF ResolveActiveIncident, Log!Next
  <2>3. CASE ~InsertIncident(t) /\ ~ResolveActiveIncident(t)
    <3>1. UNCHANGED incidents /\ now <= now'
      BY <1>2, <1>a, <1>b, <2>3 DEF TrackStep, ReconcileFails, StartReconcile, ReadStatuses,
                                    ReadIncidents, SkipService, CountActive
    <3>2. PICK new \in Tracking :
            /\ track' = [track EXCEPT ![t] = new]
            /\ new.phase # "idle" => \/ new.at = now
                                     \/ track[t].phase # "idle" /\ new.at = track[t].at
            /\ new.phase = "insert" => ~HasActive(Head(new.todo))
      <4> DEFINE new == track'[t]
      <4>1. track' = [track EXCEPT ![t] = new]
        BY <1>2, <2>3 DEF TypeInv, TrackTypes, TrackStep, ReconcileFails, StartReconcile,
                          ReadStatuses, ReadIncidents, SkipService, CountActive
      <4>2. CASE StartReconcile(t)
        BY <2>0, <4>1, <4>2 DEF TypeInv, TrackTypes, StartReconcile, IdleTrack
      <4>3. CASE ReadStatuses(t) \/ ReadIncidents(t) \/ ReconcileFails(t)
        <5>1. CASE track' = [track EXCEPT ![t] = IdleTrack]
          BY <2>0, <4>1, <5>1 DEF TypeInv, TrackTypes
        <5>2. CASE ReadStatuses(t) /\ Scanned # {}
          <6> DEFINE todo == SetToSeq(Scanned)
                     map == [s \in Scanned |-> snapshots[s].status]
                     x == [track[t] EXCEPT !.phase = "incidents", !.todo = todo,
                                           !.statuses = map]
          <6>1. new = x /\ track[t].phase = "statuses"
            BY <5>2 DEF ReadStatuses, TypeInv, TrackTypes
          <6> HIDE DEF todo, map
          <6>2. x.phase = "incidents" /\ x.at = track[t].at
            BY <2>0 DEF Tracking
          <6>3. QED
            BY <2>0, <4>1, <6>1, <6>2
        <5>3. CASE ReadIncidents(t)
          <6> DEFINE open == {s \in DOMAIN track[t].statuses : HasActive(s)}
                     x == [track[t] EXCEPT !.phase = "next", !.open = open]
          <6>1. new = x /\ track[t].phase = "incidents"
            BY <5>3 DEF ReadIncidents, TypeInv, TrackTypes
          <6> HIDE DEF open
          <6>2. x.phase = "next" /\ x.at = track[t].at
            BY <2>0 DEF Tracking
          <6>3. QED
            BY <2>0, <4>1, <6>1, <6>2
        <5>4. QED
          BY <4>3, <5>1, <5>2, <5>3 DEF ReadStatuses, ReconcileFails
      <4>4. CASE SkipService(t)
        BY <2>0, <4>1, <4>4, ThroughFacts DEF TypeInv, TrackTypes, SkipService
      <4>5. CASE CountActive(t)
        BY <2>0, <4>1, <4>5 DEF TypeInv, TrackTypes, Tracking, CountActive, Scan
      <4>6. QED
        BY <1>2, <2>3, <4>2, <4>3, <4>4, <4>5 DEF TrackStep
    <3>3. QED
      BY <1>0, <3>1, <3>2, TrackerLog
  <2>4. QED
    BY <2>1, <2>2, <2>3
<1>3. CASE \E s \in Service : ProbeStateChanges(s) \/ UpdateService(s)
  BY <1>1, <1>3 DEF ProbeStateChanges, UpdateService
<1>4. CASE \E p \in Request, s \in Service : CreateUserReport(p, s) \/ GetService(p, s)
  BY <1>1, <1>4 DEF CreateUserReport, GetService
<1>5. CASE \E p \in Snapshotter : RefreshStep(p) \/ RefreshFails(p)
  BY <1>1, <1>5
     DEF RefreshStep, RefreshFails, StartRefresh, ReadActiveServices, InsertUserReport,
         ReadRequestClock, GetServiceStatus, CountReports, ReadProbeStats, UpsertSnapshots
<1>6. CASE UNCHANGED vars
  BY <1>1, <1>6 DEF vars
<1>7. QED
  BY <1>2, <1>3, <1>4, <1>5, <1>6 DEF Next

\* With one worker the tracker's incidents are a log as IncidentLog promises it to the
\* readers of the table, whatever else goes on and whenever the tracker dies: each is
\* resolved before the next one starts, and none ends before it began
\* (workers/incidents.go:72, storage/incidents.go:81).
THEOREM IncidentsAreALog ==
  ASSUME OneTracker
  PROVE  Spec => IncidentLogKept
<1>1. Init => LogInv /\ Log!Init
  BY DEF Init, LogInv, Log!Init, IdleTrack
<1>2. TypeInv /\ LogInv /\ [Next]_vars => LogInv' /\ [Log!Next]_incidents
  BY LogStep
<1>3. Spec => []TypeInv
  BY TypesHold
<1>4. QED
  BY <1>1, <1>2, <1>3, PTL DEF Spec, IncidentLogKept, Log!Spec
===============================================================================
