----------------------------- MODULE ServiceCache -----------------------------
(***************************************************************************)
(* The Redis cache of the first list page and of the detail responses      *)
(* (storage/cache.go), read and filled by API requests and cleared by      *)
(* whoever changes what the responses show: reports, operators, the        *)
(* submission form, probe completions, incidents, status refreshes.        *)
(* Database and cache have no transaction in common: every statement and   *)
(* every Redis command is a step of its own.                               *)
(*                                                                         *)
(* What a response shows of a service is represented by the numbers of the *)
(* commits that last changed it: its row in services (info), its reports,  *)
(* results, configuration and incidents (data), its snapshot (snap).       *)
(***************************************************************************)
EXTENDS Integers, FiniteSets

CONSTANTS
  Service,    \* primary keys
  Slug,       \* slugs
  Published,  \* the services there are at first: their slugs
  Request,    \* API requests under way at a time
  Job,        \* probe workers, the tracker, the refresher
  Operator,   \* commands of the management interface under way, each a goroutine of its own
  MaxWrites,  \* bound: commits
  MaxFaults   \* bound: statements or commands that fail, processes that die

Process == Request \cup Job \cup Operator

NoSnapshot == -1
NoRow == [slug |-> "", active |-> FALSE, info |-> 0, data |-> 0, snap |-> NoSnapshot]
NoEntry == [stored |-> -1]
NoSlug == ""

ASSUME CacheAssumption ==
  /\ MaxWrites \in Nat /\ MaxFaults \in Nat
  /\ NoSlug \notin Slug
  /\ Published \in [DOMAIN Published -> Slug] /\ DOMAIN Published \subseteq Service
  /\ \A s, t \in DOMAIN Published : Published[s] = Published[t] => s = t
  /\ Request \cap (Job \cup Operator) = {} /\ Job \cap Operator = {}

VARIABLES
  rows,     \* services and what hangs on them, by primary key; NoRow when there is none
  list,     \* the entry of the first list page, or NoEntry
  detail,   \* slug -> entry of its detail response, or NoEntry
  task,     \* each process
  overtaken,  \* history: slugs that a save took from its service without having read them,
              \* and whose entries were not removed since
  writes, faults   \* bound counters

vars == <<rows, list, detail, task, overtaken, writes, faults>>

Idle == [phase |-> "idle", id |-> 0, slug |-> NoSlug, drop |-> {}, seen |-> <<>>, then |-> "idle"]

Shown(s) == [info |-> rows[s].info, data |-> rows[s].data, snap |-> rows[s].snap]
Active == {s \in Service : rows[s].active}
HasSlug(k) == {s \in Service : rows[s].slug = k}

TypeOK ==
  /\ \A s \in Service : rows[s] = NoRow \/ rows[s] \in
       [slug : Slug, active : BOOLEAN, info : 0..writes, data : 0..writes, snap : -1..writes]
  /\ \A k \in Slug : Cardinality(HasSlug(k)) <= 1
  /\ list = NoEntry \/ (DOMAIN list.seen \subseteq Service /\ list.stored \in 0..writes)
  /\ \A k \in Slug : detail[k] = NoEntry \/ detail[k].id \in Service
  /\ \A p \in Process :
       /\ task[p].phase \in {"idle", "list", "storeList", "lookup", "insert", "slug", "drop",
                             "refresh", "build", "store", "save", "dropList"}
       /\ task[p].drop \subseteq Slug
  /\ overtaken \subseteq Slug

Init ==
  /\ rows = [s \in Service |-> IF s \in DOMAIN Published
                               THEN [NoRow EXCEPT !.slug = Published[s], !.active = TRUE, !.snap = 0]
                               ELSE NoRow]
  /\ list = NoEntry
  /\ detail = [k \in Slug |-> NoEntry]
  /\ task = [p \in Process |-> Idle]
  /\ overtaken = {}
  /\ writes = 0
  /\ faults = 0

Goes(p, changed) == task' = [task EXCEPT ![p] = changed]
Commit == writes < MaxWrites /\ writes' = writes + 1
cache == <<list, detail, overtaken>>

-------------------------------------------------------------------------------
(* Readers. *)

\* getServices, first page: a hit is answered as it is and changes nothing.
GetServices(p) ==
  /\ task[p].phase = "idle"
  /\ list = NoEntry
  /\ Goes(p, [Idle EXCEPT !.phase = "list"])
  /\ UNCHANGED <<rows, cache, writes, faults>>

ListServices(p) ==
  /\ task[p].phase = "list"
  /\ Goes(p, [Idle EXCEPT !.phase = "storeList", !.seen = [s \in Active |-> Shown(s)]])
  /\ UNCHANGED <<rows, cache, writes, faults>>

SetCachedServiceList(p) ==
  /\ task[p].phase = "storeList"
  /\ list' = [seen |-> task[p].seen, stored |-> writes]
  /\ Goes(p, Idle)
  /\ UNCHANGED <<rows, detail, overtaken, writes, faults>>

\* getService, on a miss.
GetService(p, k) ==
  /\ task[p].phase = "idle"
  /\ detail[k] = NoEntry
  /\ Goes(p, [Idle EXCEPT !.phase = "lookup", !.slug = k, !.then = "build"])
  /\ UNCHANGED <<rows, cache, writes, faults>>

\* GetServiceBySlug: not found unless active.
GetServiceBySlug(p) ==
  /\ task[p].phase = "lookup"
  /\ LET found == HasSlug(task[p].slug) \cap Active
     IN  Goes(p, IF found = {} THEN Idle
                 ELSE LET s == CHOOSE t \in found : TRUE
                      IN  [task[p] EXCEPT !.phase = task[p].then, !.id = s, !.seen = [info |-> rows[s].info]])
  /\ UNCHANGED <<rows, cache, writes, faults>>

\* buildNeutralServiceDetailResponse, on the service row that was loaded before.
BuildDetail(p) ==
  LET s == task[p].id IN
  /\ task[p].phase = "build"
  /\ rows[s].snap # NoSnapshot
  /\ Goes(p, [task[p] EXCEPT !.phase = "store",
                             !.seen = [Shown(s) EXCEPT !.info = task[p].seen.info]])
  /\ UNCHANGED <<rows, cache, writes, faults>>

SetCachedServiceDetail(p) ==
  LET t == task[p] IN
  /\ t.phase = "store"
  /\ detail' = [detail EXCEPT ![t.slug] = [id |-> t.id, seen |-> t.seen, stored |-> writes,
                                           owned |-> t.slug = rows[t.id].slug]]
  /\ Goes(p, Idle)
  /\ UNCHANGED <<rows, list, overtaken, writes, faults>>

\* serviceCacheTTL.
ExpireList ==
  /\ list # NoEntry
  /\ list' = NoEntry
  /\ UNCHANGED <<rows, detail, task, overtaken, writes, faults>>

\* Mutant of ExpireDetail: the entry is stored without a time to live.
ExpireDetailNever(k) == FALSE /\ UNCHANGED vars

ExpireDetail(k) ==
  /\ detail[k] # NoEntry
  /\ detail' = [detail EXCEPT ![k] = NoEntry]
  /\ overtaken' = overtaken \ {k}
  /\ UNCHANGED <<rows, list, task, writes, faults>>

-------------------------------------------------------------------------------
(* Writers. *)

\* createServiceReport begins like getService.
CreateServiceReport(p, k) ==
  /\ task[p].phase = "idle"
  /\ Goes(p, [Idle EXCEPT !.phase = "lookup", !.slug = k, !.then = "insert"])
  /\ UNCHANGED <<rows, cache, writes, faults>>

CreateUserReport(p) ==
  /\ task[p].phase = "insert"
  /\ Commit
  /\ rows' = [rows EXCEPT ![task[p].id].data = writes']
  /\ Goes(p, [task[p] EXCEPT !.phase = "slug", !.then = "refresh"])
  /\ UNCHANGED <<cache, faults>>

\* After a report, and for the first detail response of a service.
RefreshServiceStatus(p) ==
  LET s == task[p].id IN
  /\ task[p].phase = "refresh" \/ (task[p].phase = "build" /\ rows[s].snap = NoSnapshot)
  /\ Commit
  /\ rows' = [rows EXCEPT ![s].data = writes', ![s].snap = writes']
  /\ Goes(p, [task[p] EXCEPT !.phase = "slug", !.then = "build"])
  /\ UNCHANGED <<cache, faults>>

\* CompleteProbeLease, OpenIncidentIfNoneActive, ResolveActiveIncident.
CommitOfJob(p, s) ==
  /\ task[p].phase = "idle"
  /\ rows[s] # NoRow
  /\ Commit
  /\ rows' = [rows EXCEPT ![s].data = writes']
  /\ Goes(p, [Idle EXCEPT !.phase = "slug", !.id = s])
  /\ UNCHANGED <<cache, faults>>

\* UpsertProbeConfig.
CommitProbeConfig(p, s) ==
  /\ task[p].phase = "idle"
  /\ rows[s] # NoRow
  /\ Commit
  /\ rows' = [rows EXCEPT ![s].data = writes']
  /\ Goes(p, [Idle EXCEPT !.phase = "slug", !.id = s])
  /\ UNCHANGED <<cache, faults>>

\* invalidateServiceCachesByID: the slug is read after the commit.
LoadSlug(p) ==
  /\ task[p].phase = "slug"
  /\ Goes(p, [task[p] EXCEPT !.phase = "drop", !.drop = {rows[task[p].id].slug}])
  /\ UNCHANGED <<rows, cache, writes, faults>>

\* The caller goes on.
AfterDrop(p) ==
  IF task[p].then = "idle" THEN Idle ELSE [task[p] EXCEPT !.phase = task[p].then, !.drop = {}]

\* InvalidateServiceCaches: one DEL of the list's key and those of the slugs.
InvalidateServiceCaches(p) ==
  /\ task[p].phase = "drop"
  /\ list' = NoEntry
  /\ detail' = [k \in Slug |-> IF k \in task[p].drop THEN NoEntry ELSE detail[k]]
  /\ overtaken' = overtaken \ task[p].drop
  /\ Goes(p, AfterDrop(p))
  /\ UNCHANGED <<rows, writes, faults>>

\* RefreshServiceStatuses: the snapshots of all active services; only the list's
\* key is dropped.
CommitBatchRefresh(p) ==
  /\ task[p].phase = "idle"
  /\ Active # {}
  /\ Commit
  /\ rows' = [s \in Service |-> IF s \in Active THEN [rows[s] EXCEPT !.snap = writes'] ELSE rows[s]]
  /\ Goes(p, [Idle EXCEPT !.phase = "drop"])
  /\ UNCHANGED <<cache, faults>>

\* Mutant of SlugIsFree: no unique index.
SlugIsFreeAlways(k, owners) == TRUE

\* The unique index of services.slug.
SlugIsFree(k, owners) == HasSlug(k) \subseteq owners

\* CreateService and SubmitService.
CommitNewService(p, s, k) ==
  /\ task[p].phase = "idle"
  /\ rows[s] = NoRow
  /\ SlugIsFree(k, {})
  /\ Commit
  /\ rows' = [rows EXCEPT ![s] = [NoRow EXCEPT !.slug = k, !.active = TRUE, !.info = writes']]
  /\ Goes(p, [Idle EXCEPT !.phase = "drop", !.drop = {k}])
  /\ UNCHANGED <<cache, faults>>

\* UpdateService reads the slug that is stored.  The form stays open, so that another
\* save of the same service may begin, and commit, before this one does ...
UpdateService(p, s) ==
  /\ task[p].phase = "idle"
  /\ rows[s] # NoRow
  /\ Goes(p, [Idle EXCEPT !.phase = "save", !.id = s, !.slug = rows[s].slug])
  /\ UNCHANGED <<rows, cache, writes, faults>>

\* Mutant of SlugsToDrop: only the slug of the saved record.
SlugsToDropNew(old, new) == {new}

\* InvalidateServiceCaches(ctx, existing.Slug, service.Slug)
SlugsToDrop(old, new) == {old, new}

\* ... saves every field, and drops what either slug has cached.
SaveService(p, k, on) ==
  LET s == task[p].id IN
  /\ task[p].phase = "save"
  /\ SlugIsFree(k, {s})
  /\ Commit
  /\ rows' = [rows EXCEPT ![s].slug = k, ![s].active = on, ![s].info = writes']
  /\ Goes(p, [Idle EXCEPT !.phase = "drop", !.drop = SlugsToDrop(task[p].slug, k)])
  /\ overtaken' = overtaken \cup ({rows[s].slug} \ {task[p].slug, k})
  /\ UNCHANGED <<list, detail, faults>>

\* A statement or a Redis command fails, or the process dies: what was committed
\* stays, what was to be dropped stays too.
Fail(p) ==
  /\ task[p].phase # "idle"
  /\ faults < MaxFaults
  /\ faults' = faults + 1
  /\ Goes(p, Idle)
  /\ UNCHANGED <<rows, cache, writes>>

\* A slug that cannot be loaded, or a DEL that fails, is only logged.
SlugNotLoaded(p) ==
  /\ task[p].phase = "slug"
  /\ faults < MaxFaults
  /\ faults' = faults + 1
  /\ Goes(p, [task[p] EXCEPT !.phase = "drop", !.drop = {}])
  /\ UNCHANGED <<rows, cache, writes>>

InvalidationLost(p) ==
  /\ task[p].phase = "drop"
  /\ faults < MaxFaults
  /\ faults' = faults + 1
  /\ Goes(p, AfterDrop(p))
  /\ UNCHANGED <<rows, cache, writes>>

-------------------------------------------------------------------------------
\* What a process does once it has begun.
Continue(p) ==
  \/ ListServices(p)
  \/ SetCachedServiceList(p)
  \/ GetServiceBySlug(p)
  \/ BuildDetail(p)
  \/ SetCachedServiceDetail(p)
  \/ CreateUserReport(p)
  \/ RefreshServiceStatus(p)
  \/ LoadSlug(p)
  \/ InvalidateServiceCaches(p)

Begin ==
  \/ \E p \in Request : GetServices(p)
  \/ \E p \in Request, k \in Slug : GetService(p, k) \/ CreateServiceReport(p, k)
  \/ \E p \in Request \cup Operator, s \in Service, k \in Slug : CommitNewService(p, s, k)
  \/ \E p \in Job : CommitBatchRefresh(p)
  \/ \E p \in Job, s \in Service : CommitOfJob(p, s)
  \/ \E p \in Operator, s \in Service : CommitProbeConfig(p, s) \/ UpdateService(p, s)

Next ==
  \/ Begin
  \/ \E p \in Process : Continue(p) \/ Fail(p) \/ SlugNotLoaded(p) \/ InvalidationLost(p)
  \/ \E p \in Operator, k \in Slug, on \in BOOLEAN : SaveService(p, k, on)
  \/ ExpireList
  \/ \E k \in Slug : ExpireDetail(k)

Spec == Init /\ [][Next]_vars

\* What was begun goes on, and Redis lets no entry outlive its time to live.
Fairness ==
  /\ \A p \in Process : WF_vars(Continue(p))
  /\ WF_vars(ExpireList)
  /\ \A k \in Slug : WF_vars(ExpireDetail(k))

FairSpec == Spec /\ Fairness

-------------------------------------------------------------------------------
\* Without a fault, whoever changes a service leaves nothing of what was cached before:
\* once no invalidation is under way, only a request that stored its answer after the
\* last change, or under a slug that its service had lost, can have cached something
\* outdated.  Saves of one service that overlap are no exception but for the entry of a
\* slug that one of them gave to the service and another, which had read an older one,
\* took away: no save drops it.  (The detail responses lag behind the batch refresh,
\* which drops the list only.)
OldEntriesDropped ==
  faults = 0 /\ (\A p \in Process : task[p].phase \notin {"slug", "drop"}) =>
    /\ list # NoEntry => list.stored = writes
    /\ \A k \in Slug : detail[k] # NoEntry /\ detail[k].owned =>
         LET row == rows[detail[k].id]
         IN  \/ detail[k].stored >= row.info /\ detail[k].stored >= row.data
             \/ row.slug # k /\ k \in overtaken

Current ==
  /\ list # NoEntry => list.seen = [s \in Active |-> Shown(s)]
  /\ \A k \in Slug : detail[k] # NoEntry =>
       LET s == detail[k].id
       IN  s \in HasSlug(k) \cap Active /\ detail[k].seen = Shown(s)

\* Whatever was stored late, lost on its way to Redis or left behind by a process
\* that died: when the changes stop, so does the serving of outdated responses.
CacheBecomesCurrent == <>[]Current
===============================================================================
