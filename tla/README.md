# A TLA+ development of aretheyup

aretheyup tells visitors whether a web service is up. It combines two signals:
reports that visitors send, and HTTP probes that its own worker makes. This
directory holds TLA+ modules translated from the Go source, the TLC
configurations that check them, and proofs for TLAPS. Paths below are relative
to the repository's root.

1. [Inventory](#1-inventory): the parts of the system and what makes each correct
2. [Modules](#2-modules): which module models what, and how
3. [Runs](#3-runs): what TLC checks, with which bounds, and what it shows
4. [Fairness](#4-fairness)
5. [Proofs](#5-proofs)
6. [Where the code and its documents disagree](#6-where-the-code-and-its-documents-disagree)
7. [Assumptions and what is left out](#7-assumptions-and-what-is-left-out)
8. [Plan](#8-plan)

## 1. Inventory

All processes are one binary that is started in a mode (`main.go`): `api`, `worker` (the
status refresher, the incident tracker, the baseline refresher and the cleaner),
`probe`, `manage` (the operators' terminal interface), and commands that run
once (`seed`, the two probe backfills). They share PostgreSQL, where all state
that matters is, and Redis, which holds cached responses and rate limits. They
never call one another: whatever passes between them passes through a table or a
Redis key.

| Component | Source | State |
|---|---|---|
| Probe leasing | `workers/probe.go`, `storage/probes.go` | `probe_configs` (next run, lease token, lease expiry); in memory the claimed batch |
| Probe results | `storage/probes.go`, `storage/probe_rollups.go`, `storage/probe_derived_backfill.go`, `workers/cleanup.go` | `probe_results`, `probe_recent_results`, `service_probe_states`, `probe_hourly_rollups` |
| Status decision | `algorithm/status.go` | none |
| Status snapshots | `storage/statuses.go`, `workers/statuses.go` | `service_statuses`; reads `user_reports`, `service_probe_states`, baselines |
| Incidents | `storage/incidents.go`, `workers/incidents.go` | `incidents`; reads `service_statuses` |
| Response cache | `storage/cache.go`, `api/routes/services.go` | Redis: the first list page and one entry per slug, 10 s to live |
| Rate limiting | `api/middleware/rate-limit.go` | Redis: a counter per client and service |
| Baselines | `storage/baselines.go`, `workers/baseline.go` | `service_baselines` |
| Submissions | `storage/submissions.go` | `service_submissions`, `services` |
| Management interface | `manage/*.go` | the screens' and the form's state |
| Presentation | `utils/*.go`, `storage/service-detail.go` | none |
| Start-up | `main.go`, `services/*.go`, `structs/schema.go` | the schema |

**Probe leasing.** A sweep reads the clock once, then claims batches of due
configs (`FOR UPDATE SKIP LOCKED`, storage/probes.go:134) until a claim returns
nothing. A claim moves the next run on and writes a lease; the worker then
probes the batch one by one and completes each lease in a transaction that
checks the token and the expiry (storage/probes.go:172). Operators change
configs and services at any moment, from another process. *Hard:* several
workers, leases that expire during a batch, late completions, a crash between
claim and result, edits of a config in flight. *Correct when:* a slot of the
cadence has at most one result; results are recorded in order, since the derived
state is overwritten with no comparison; a disabled probe leaves no result; a
due config gets a result in the end; a sweep ends.

**Probe results.** The completing transaction writes the raw row, the recent rows
(pruned to 50), the state row with its counters of the last five, and the hourly
rollup. The cleaner deletes old raw rows in batches, successes sooner than
failures. Two commands rebuild the derived tables from raw rows, for results from
before these tables existed, while probes go on. *Hard:* at READ COMMITTED a
rebuild reads before, and writes after, a live completion; clean-up removes what
a rebuild aggregates. *Correct when:* in normal operation the derived tables are
at every moment what the history says; during a rebuild nothing newest is
hidden, lost or counted twice.

**Status decision and snapshots.** `DetermineStatus` decides by four rules over
recent reports, the last five probes and two baselines. It is evaluated by the
worker every 30 seconds for all services, by the request that stored a report for
one, and by a detail request that finds no snapshot. Each reads its inputs in
several statements and upserts the row at its own pace; the upsert compares
`computed_at` (storage/statuses.go:132). *Hard:* refreshes overlap, and
a slow one holds old inputs. *Correct when:* a report once counted for its
reporter does not vanish from the snapshot while it is recent; more reports or
failed probes never make the status milder.

**Incidents.** Once a minute the tracker lists services, statuses and active
incidents, then opens or resolves (workers/incidents.go:104). *Hard:* it acts on
what it read earlier; opening is count-then-insert with no unique index; the
first error ends the pass. *Correct when:* incidents of a service never overlap;
an outage that lasts gets an incident, and a recovery that lasts ends it.

**Response cache.** Readers look into Redis, else build the response from several
queries and store it. Every writer commits first and deletes keys afterwards; a
rename deletes those of both slugs. *Hard:* database and Redis share no
transaction; a slow reader stores what a writer has just deleted; the slug that
names the key is itself changed. *Correct when:* what was cached before a change
does not survive its invalidation, and what slipped through expires.

**Rate limiting.** A script increments a counter that expires a window after the
first request. The page reads the expiry, to offer the report button or to say
when it comes back. *Hard:* the counter expires between the page and the report;
milliseconds are rounded to seconds; a window starts anywhere. *Correct when:*
no span as long as a window sees more than two limits' worth of requests; who
waits as told is past the refusal; what a page offers works.

**Submissions and the management interface.** A visitor's request checks services and
earlier submissions for the same name, slug or host, then inserts a service, its
probe config and the submission in one transaction. The operator's terminal
handles one message at a time; what it asks of the database runs in goroutines
(`tea.Cmd`), whose answers come back as messages. Saving a form is two
transactions, for the service and for its config. *Hard:* several commands are
under way while the operator goes on, and their answers come in any order; the
second half of a save fails or never happens; the insert of a false flag stores
the column's default; the list, its filter and its cursor change independently.
*Correct when:* no service is left without a probe config; what was submitted
before a request began is not submitted again by it; the cursor is on a row; a
config ends as the form had it.

**Baselines.** Once an hour the refresher counts the reports of each half hour of
the last six months, or since the service was created, and averages them by hour
of the week; the probe rollups of the same hours are merged in. *Hard:* windows,
hours, days and weeks are cut at different places and by different
comparisons; rows are never deleted while the lookback moves. *Correct when:* every
report and every finished probe hour of the lookback counts once; a row has as
many weekly samples as the service has weeks.

**Detail page.** The response is put together from reads that nothing holds
together: bars of reports, a bar of days, a timeline of incidents. *Correct when:*
the parts do not contradict one another, and a day once shown as an outage stays
one.

`PROJECT.json` lists the hazards of each component at their lines, with the
properties that would catch them going wrong.

## 2. Modules

    ProbeSchedule <-- ProbeLease <-- ProbeLeaseTimed      StatusAlgorithm <-- StatusProofs
                                          ^
                                   ProbeLeaseProofs       ProbeResults <-- ProbeResultsProofs

    StatusPipelineProofs --> StatusPipeline --implements--> IncidentLog
                                                                 ^ INSTANCE
    Baselines <------------------------------------------- DetailPage <-- DetailPageProofs

    Catalogue <-- ManageTui <-- ManageTuiProofs           ServiceCache <-- ServiceCacheProofs
    RateLimit <-- RateLimitProofs

`MC*` modules hold only what the configurations need: named constants,
permutations, a baseline. Operators keep the names of the Go functions they
translate. Definitions named after the function with a suffix (`rateLimitScript`,
`rateLimitScriptEarly`) and a comment that begins with "Mutant of" are plausible
bugs: each property is known to fail when one of them replaces the original.

| Module | Stands for | State and steps |
|---|---|---|
| `ProbeSchedule` | the cadence arithmetic of `storage/probes.go` | operators: `initialProbeRunAt`, `nextProbeRunAt`, `probeLeaseDuration`, the two "is it due" predicates |
| `ProbeLease` | worker loop, claim and completion, operators' edits, config backfill | `cfg` is `probe_configs`, `rows` the stored results by claim, `sweep[w]` a worker's memory. One step per transaction or request: `StartSweep`, `ClaimDueProbeConfigs`, `StartProbe`, `FinishProbe`, `CompleteProbeLease` or `LeaseNotFound`, and faults `ClaimFails`, `ProbeFails`, `Crash` |
| `ProbeLeaseTimed` | the same, with durations | `Tick` only when nothing that ends within the unit is pending |
| `ProbeResults` | the four result tables of one service | one step per *statement* of the transactions, since READ COMMITTED matters; a row lock is a guard; `hist` is what was ever recorded |
| `StatusAlgorithm` | `DetermineStatus` and its rules | operators over integers scaled so that every threshold is exact; a small state machine lets one signal arrive at a time |
| `StatusPipeline` | reports, snapshots, incidents | `snapshots`, `incidents`, and for each process what it has read so far; one step per statement |
| `IncidentLog` | the promise of the incidents table | `log`: per service a sequence of incidents; `Open`, `Resolve` |
| `ServiceCache` | database rows and Redis entries | a response is represented by the numbers of the commits it shows; one step per statement or Redis command; every process is a task in phases |
| `Catalogue` | the tables that say which services exist, and what writes them | `services`, `configs`, `submissions`, and per request how far its transaction is; `SubmitService` is one step per statement, `CreateService`, `UpdateService`, `UpsertProbeConfig`, `DeleteService` are what the terminal's commands call |
| `ManageTui` | the terminal: `Update` and its screens, over `Catalogue` | `screen` (list, detail, form, dialog), `list` (rows, the positions that the filter leaves, cursor), `commands` (the goroutines). A key, a message and a transaction are a step each; a listing is sorted by name, with ties in any order |
| `Baselines` | reports, rollups and `refreshServiceBaselines` of one service | `reports` by their dates, `rollups`, `baselines`; a refresh is one step, as it reads rows that only get more, with a time as late as `Lag` |
| `DetailPage` | `buildNeutralServiceDetailResponse`, read by read | `page` (what was read so far) over the history of `Baselines` and the incidents of `IncidentLog` |
| `RateLimit` | one counter, and the pages that read it | the script is one step; the clock runs in milliseconds; `admitted` remembers which requests passed and when |

**Why these grains.** `ProbeLease` takes the completing transaction as one step
because its first statement locks the config's row and everything it checks is in
that row. `ProbeResults` opens that transaction up and has its leases in a simple
form. The two share the argument: `RowsInClaimOrder` of `ProbeLease` is the
reason why `ProbeResults` may let completions commit in the order of their
claims. `StatusPipeline` likewise uses of `StatusAlgorithm` only that some signals
give an outage and others do not.

`DetailPage` and `StatusPipeline` meet in `IncidentLog`: the page is checked against
whatever that specification lets the incidents table do, and the pipeline is shown
to do nothing else. `Catalogue` hands the promise on which the probe workers
rest to `ProbeLease`: every service has a config (`ServicesAreProbed`).

**Clocks.** In `StatusPipeline` no two readings give the same instant, so a
reading is what moves the clock; elsewhere `Tick` is a step of its own. All
processes read one clock.

## 3. Runs

Each passing run finishes in two to three minutes at most on two workers.

| Run | Question | Properties |
|---|---|---|
| `ProbeLeaseOverlap` | can two workers, a crash and an operator break the lease of a config? | `OneRowPerSlot`, `RowsInClaimOrder`, `RevokedNeverRecorded`, `NoReclaimInSweep`, `PhaseKept` |
| `ProbeLeaseLive` | does every due config get a result, and every sweep end? | `DueRunIsRecorded`, `SweepEnds` |
| `ProbeLeaseRuns` (violation) | does each run write a row? | `EachRunWritesARow` |
| `ProbeResults` | are the derived tables what the history says, and what do the backfills keep while probes go on? | `RecentMatchesHistory`, `StateMatchesHistory`, `RollupMatchesHistory`, `RetainedRawKept`; in a rollout `LastResultIsNewest`, `RollupNeverOvercounts`, `RecentKeepsNewest` |
| `StatusPipelineSafe` | do overlapping refreshes lose a report, does the tracker break the log? | `AckedReportIsCounted`, `IncidentLogKept` (the refinement of `IncidentLog`) |
| `StatusPipelineLive` | do outages and recoveries reach the incidents? | `OutageHasIncident`, `RecoveryEndsIncident` |
| `ServiceCache` | does invalidation reach what was cached, and does the rest expire? | `OldEntriesDropped`, `CacheBecomesCurrent` |
| `RateLimit` | is the quota kept, and is what clients are told true? | `QuotaInAnySpan`, `WaitingSuffices`, `OfferIsGood` |
| `StatusAlgorithm` | is the decision monotone, and does an outage need reports? | `WorseNeverMilder`, `OutageNeedsReports` |
| `ManageTui` | what is left in the tables and on the list when commands, keys, visitors and faults interleave? | `ServicesAreProbed`, `NoLateDuplicate`, `CursorInBounds`, `ConfigAsAsked` |
| `ManageDelete` (violation) | does a confirmed deletion delete? | `DeleteRemovesService` |
| `DetailPage` | does a refresh of the baselines count everything once, and do the parts of a page agree? | `RefreshIsComplete`, `MaturesWithAge`, `PageAgrees`, `PastOutagesStay` |

Each passing run but `StatusAlgorithm` checks the type invariant of its module too,
`ProbeLeaseLive` and `StatusPipelineLive` leaving it to their siblings.

**Bounds, and why they are enough.**

- `ProbeLeaseOverlap`: one config, two workers, three claims, one crash, the clock
  from 0 to 5, an interval and a lease of 2. Leases of different configs have
  nothing in common but a worker's batch. Three claims give the sequence that
  matters: claimed, expired and claimed again, the late completion, and a
  third claim to compare with. The symmetry of workers is sound, as nothing tells
  them apart and no liveness is checked.
- `ProbeLeaseLive`: two configs, a batch of one, so that a sweep claims twice and
  a config waits for another; one crash, after which the lease must
  expire; `MaxClaims` is never reached. Obligations are those of slots up to
  `Horizon` = 4, and `MaxTime` = 10 leaves time for a lease and a probe after it.
- `ProbeLeaseRuns`: the code's own values in units of ten seconds: interval 300 s,
  lease 60 s, timeout 10 s, batch 16, and six configs, the fewest whose timeouts
  fill a lease.
- `ProbeResults`: four claims with a recent cap of 3 and a window of 2, so that both
  prunings happen; a bucket of 2 units, so that results fall into several; batches
  of one row, at most two, so that a clean-up is cut short. A behaviour is either
  normal operation from empty tables, or a rollout over results from before it, in
  two buckets and of both outcomes, in which each command runs, the rollup backfill
  twice, with a cutoff among the results from before, at the rollout's start, or
  behind the first completions (`Cutoffs`).
- `StatusPipelineSafe`: two services, since the batch refresh of one may be
  overtaken by a report's refresh of the other; one report, one change of the
  probe counters or of the active flag, one fault, five clock readings.
  `StatusPipelineLive` has one service and a clock that stops at `MaxTime`, so
  that "settles" is meaningful; the tracker and the refresher go on.
- `ServiceCache`: two services and two slugs, one published at first (so that a
  slug can be given up by one service and taken by the other), two commits
  and one fault, one request, one job and two commands of the management
  interface. A stale entry takes one commit, a rename to an earlier name two, and so
  do two saves that read the same slug.
- `RateLimit`: a limit of 2, a window of 4 units of which 2 make a second (so
  that rounding matters), a clock of three windows, and six requests or page
  views: five are the fewest that could pass within one window's length in excess
  of the bound of 4.
- `StatusAlgorithm`: means of 0, 1.2 and 8 reports, deviations
  of 0 and 2.5, 0 and 4 weeks, rates of 0, 0.2, 0.5 and 0.75 and 19 or 20 samples:
  both sides of every threshold and of every floor. Sixteen reports are one more
  than the cold-start rule asks for.

- `ManageTui`: two names with their slugs and two hosts, so that a name, a slug or a
  host can be taken by the other service; two services, one request at a time, two
  commands under way, five keys (open the form, two fields, save, and one more) and
  one fault or exit. The tables are empty at first: what is in them was put there
  by these actions. One search, which finds the second service only. `ManageDelete`
  needs two keys. The symmetry of hosts is sound: nothing tells them apart.
- `DetailPage`: a quarter of an hour is the unit, so that a half hour and an hour
  have different cuts; days of one hour, weeks of two days and six months of one
  week keep every border (half hour, hour, day, hour of the week, week, lookback)
  within a clock of 13 units; created at any quarter of the first hour. One report,
  two probe results, one incident, bars of three half hours, three days on the bar
  (so that days leave it) and one entry of the timeline. A commit and a read are
  late by at most one unit. The refresher and the page read the same history and
  touch nothing of each other, so that a behaviour follows one of them.

`CHECK_DEADLOCK FALSE` is set because the bounds end every behaviour: the clock
stops and the counters of claims, requests and faults run out.

**What some properties do not say.** `NoLateDuplicate` is about requests that begin
after a submission has committed: two that overlap pass the checks together under
different names, and no unique index on the host stops the second. `ConfigAsAsked` is
about saves whose second half was reached; a service saved as inactive when it is
created is stored as active. `MaturesWithAge` excepts a service whose `created_at` an
edit has set to zero (manage/form.go:258, storage/storage.go:280): its next refresh
counts six months of silence. `RefreshIsComplete` says that old rows are rewritten by a
refresh that is not overtaken by a later one of another process. `PageAgrees` says that
the timeline is on the bar of days; an incident that began before the window and is
still open is on the bar and not in the timeline (storage/service-detail.go:68).
`RollupNeverOvercounts` allows a bucket that misses a result: one that commits between
the rollup backfill's aggregate and its write is missing until the command is run again.
`RecentKeepsNewest` lets a result have two recent rows, which both count towards the
cap, when it is committed after the deletion and before the insertion of a derived
backfill whose cutoff is later. `OldEntriesDropped` is about behaviours with no fault,
and it excepts one entry: each ctrl+s of a form starts a goroutine while the form stays
open (manage/tui.go:226-234, 278-291), so that two saves of one service can read the
same old slug before either commits. The slug of the first to commit is then taken from
the service by the second, which never read it and does not drop its entry
(storage/storage.go:272-284). `overtaken` remembers such slugs, and
`CacheBecomesCurrent` says that their entries go when they expire. `OutageHasIncident`
is about active services: the tracker never looks at the others. The snapshots' part of
a detail entry may lag, as the batch refresh drops the list's entry only
(storage/statuses.go:96).

## 4. Fairness

Each liveness property needs only weak fairness, of steps the code's scheduling
takes when they are possible:

- `ProbeLeaseTimed`: the clock goes on; a worker's own steps are taken, because
  the loop has a 5-second ticker and runs forever (workers/probe.go), a request
  ends within its timeout, and a statement that was sent ends; a stored service
  has its config by the time workers run, because start-up creates it
  (`BackfillMissingProbeConfigs`). Crashes and errors are never fair, and a worker
  that crashed starts its next sweep: its supervisor restarts it
  (docker-compose.prod.yml).
- `StatusPipeline`: a refresher that began goes on and begins again, and so does a
  tracker; both are tickers in `workers/`. Nothing is assumed of requests that
  have not begun.
- `ServiceCache`: what a process began goes on, and Redis removes an entry after
  its time to live. Nothing is assumed of requests, jobs and operators that have
  not begun.

## 5. Proofs

Eight modules hold theorems, and together they state every invariant and every
action property that the passing runs check, and the refinement of `IncidentLog`.
They are about every value of the constants that satisfies the named assumption of
the module, which TLC evaluates in each run. The assumptions say that bounds are
natural numbers and durations positive, that services and the results from before a
rollout are finitely many, that the empty slug is not a slug, and what the code's
own constants satisfy: a window of whole seconds, a recent window within the recent
cap, 48 half hours within the 89 days before today, a lookback of at least a week,
reads late by at most a day. What a theorem assumes beyond them stands in its
statement: `~ClockStops`, `OneTracker`.

**ProbeLeaseProofs.** `Inductive` proves `Spec => []IInv`, where `IInv` is

- `TypeOK`;
- `LeaseInv`: a token and an expiry come and go together, and no token is ahead of
  the tokens issued;
- `ClaimInv`: what a worker holds was issued, and if its token is still on the row
  then so is the slot it claimed;
- `RowInv`: every result's token was issued and its slot lies behind the row's next
  run; while a lease is on the row, every result is older than it in token and slot;
- `TimeInv`: clock readings held in memory and in rows are not ahead of the clock,
  nor results ahead of `last_checked_at`;
- `RevokedInv`: a revoked token is on no row;
- `SweepInv`: what a sweep claimed is not due at that sweep's clock reading;
- `ResultInv`: the three properties of results.

`OneRowPerSlot` alone is not inductive: a state in which a row's lease is for a slot
that already has a result satisfies it. `RowInv` excludes this, and `ClaimInv`
carries the exclusion to what workers have in memory. From it follow
`AtMostOneRowPerSlot`, `RowsOrdered`, `RevocationIsFinal`, `NoReclaim`, and, with
the step facts, the action properties `ReclaimAfterExpiry` and `PhaseIsKept`. The
steps are grouped: `MemoryStep` is what steps that touch only a worker's memory
keep, `SettingsStep` what steps that touch only a row's settings keep; claims and
completions have lemmas of their own.

The module begins with the arithmetic they use: `NextRunBounds` (a claim moves
the next run past the clock and gives up no slot ahead), `NextRunKeepsPhase`,
`LeaseCoversTimeout`, and `DuePredicatesAgree`: the SQL condition of the claim and
the Go predicate that the unit tests exercise decide alike.

**ProbeResultsProofs.** `BaseInv` has the types and what every other argument needs
of the interleaving: tokens are a worker's own (`TokenInv`), the row lock is held by
the one transaction whose token is on the lease (`LockInv`), and results have
times of their own (`TimeInv`): whoever still owns the lease brings a result newer
than all that were recorded (`OpenIsNewest`). On it rest

- `RollupsCountAll` and `RollupsNeverOvercount`, by `RollupInv`: no row and nothing that a
  backfill has read and is about to write exceeds the history, and away from the
  rollout a row is the history's count;
- `RecentIsLatest` and `StateIsHistory`, by `RecentInv`: an open transaction prunes and
  counts what its commit will need, since the lock keeps the others out from
  its first statement on. The lemmas of the pruning are about the latest n of a
  set: adding a newest member drops the oldest one only (`LatestWithNewest`), and the
  latest few of the latest many are the latest few (`LatestOfLatest`);
- `BackfillHidesNoResult`, by `LastInv`: from the first live completion on the state
  row has the newest time, and what the backfill is about to write is older;
- `BackfillKeepsNewest`, by `RolloutRecentInv`, for every cutoff, as the code takes any
  and docs/deployment.md:145 asks only that it be fixed. Its parts: rows are settled, in
  that what they do not have is behind a cap's worth of newer rows (`KeptInv`); what a
  backfill deletes is older than what it leaves, and its own view is settled from the
  insertion on (`CopiesInv`); and an open completion deletes nothing that the backfill
  has inserted, and leaves a cap's worth of rows newer than whatever it deletes
  (`PrunedInv`). The two delete concurrently, each without seeing the other's rows;
  `TopIsFull` is why their deletions do not add up to a gap: what is left and newer than
  a deleted row fills the cap by itself. Rows are counted, not results, since a result
  that a backfill has overtaken has two (§3);
- `CleanerSparesRetained`: the cleaner read the clock in the past (`RolloutInv`), so that no
  later clock finds a row deleted too soon.

**StatusProofs.** For every baseline: `WorseIsNotMilder`, `OutagesNeedReports`,
`StrongRuleIsStricter`, from lemmas on each rule.

**ManageTuiProofs.** `EveryServiceIsProbed` rests on `ProbedInv`: a config exists exactly
for the services there are, and an upsert under way is for one of them. Without
its second part a late second half of a save could insert a config of nothing.
That keys and messages keep it is one lemma (`QuietIsHarmless`), since they touch no
table and start no upsert; saves, deletions, submissions and the exit have a step
each. `NoSubmissionTwice` rests on `SubmitInv`: a request that is past its second check
is unlike every submission that was there when it began, and every submission
began when there were fewer. The checks alone do not give it: it is the order of
the statements, and that submissions are never deleted, that carry the first
check's answer to the insert.

`SavedConfigIsTheForms` follows from `ProbedInv` too: a second half that finds
no config would insert one with the column's default for a false flag; there
always is one.

`TypeCorrect` and `CursorStaysOnARow` rest on `TuiInv`. Its parts are about the tables (rows
are well-formed, slugs belong to one service each), the list (positions
are of rows that it has, the cursor is on one of them if there are any), the
screen and the commands (whatever id they carry was once a service's). The last
two hold although the operator, the commands and the visitors go on independently,
because no row is ever removed: an id that a detail page, a form or a late answer
keeps stays valid. The cursor is in bounds because each of the steps that change what
is shown (rows arrive, a search, a key) sets it again.

**StatusPipelineProofs.** `PipelineTypes` is `TypeOK` by way of `TypeInv`, which adds what
a refresh under way has read and that a tracker under way has a service at the head
of its list. That rests on `SetToSeqType`, and so on the services being finitely many.

`AckedReportsStay` is `Spec => []AckedReportIsCounted`. The property alone is not
inductive: a slower refresh that lacks the report could still be about to write.
`KnownFrom(r, at)` says that no refresh under way and no row, whose clock reading is
`at` or later, lacks the report r. A request reads the clock when its report is
stored, and every other reading so far lies behind the clock (`ClockInv`): so its
report is known from its own reading on (`CountInv`), and once it is acknowledged,
from the row's (`AckInv`), because an upsert never replaces a row by one of an
earlier reading (`UpsertMoves`). The theorem assumes `~ClockStops`: with two equal
readings, `<=` in the upsert lets the earlier count win.

`IncidentsAreALog` is the refinement of `IncidentLog`, for one tracker (`OneTracker`). Its
invariant `LogInv` says that only the last incident of a service is open, that the
tracker under way read the clock after all that is written, and that what it
counted before an insert is still so. A resolution then maps to `Resolve`, or to a
stutter where it finds no open incident: that this never happens is not needed.

**ServiceCacheProofs.** `CacheTypes` is `TypeOK` by way of `BaseInv`: rows are numbered
by commits that have been, slugs belong to one service each, entries and tasks name
services and slugs that exist. `ChangesReachTheCache` is `OldEntriesDropped`, for any
number of requests, jobs and commands. Its `DroppedInv` says of every entry that it is
as new as the database, or that a process is on its way to drop it: one that has its key
at hand, or one that will yet read the slug of the service whose entry it is. The second
kind is what makes the renaming hard: the slug may change in between, and the entry is
then under a slug that the process never reads: the save that changed it drops that
slug's entry, unless another save had changed it first; then the slug is `overtaken`.
`LeavesOthers` and `DropsChanged` say of each commit what the invariant needs of it
(`DroppedCommit`).

**RateLimitProofs.** `IInv` is `TypeOK`, `KeyInv` (a counter lives exactly one
window), `ToldInv` (nobody is told to wait for less), `OfferInv` (what a page
offered, the counter can no longer refuse) and `AdmittedInv`. `RoundedUp` is the fact that
makes it hold: rounding up to whole seconds never loses time. `WaitIsEnough` and
`OffersAreGood` follow. `AdmittedInv` says that the requests a counter let through have
numbers of their own up to the limit, and that a counter begins only after the life
of every earlier one. A span as long as a window then meets at most two counters
(`TwoCounters`), and its requests are numbered into twice the limit: `QuotaHolds`.

**DetailPageProofs** begins with lemmas about the cutting of time: quotients, half hours
in days, and `WeeklySamples`: the half hours of one hour of the week lie in no
more weeks than their span allows, although weeks and hours of the week are not cut at the
same place.

- `RowsMatureWithAge` follows from `AgeInv`, which adds to the property only the types.
- `RefreshesAreComplete` needs that a sum over the hours of the week is the
  sum over all half hours: `TotalOfDisjoint` states it for any family of disjoint sets, by
  a bijection between the numbered members of each and their union, as a sum
  defined by recursion cannot be proved about. `ReportsHaveWindows` and `ProbesAreComplete` show that
  the hours of the week cut what a refresh reads with no overlap and no gap, and
  that no rollup is without a half hour of reports to be merged into. `CompleteInv` is the
  invariant: rollups begin on the hour, and a service whose age is known has rows only for
  hours that it went through, so that `RowsAreRewritten` by each refresh. A
  lookback shorter than a week would leave rows behind.
- `PastOutagesRemain` and `PagesAgree` hold by `PageInv`, since neither is inductive: the first says
  nothing of a page that has read its incidents and not yet shown them, and the
  second nothing of incidents that end or begin between the reads of one page.
  `CoversInv` does: every incident that began before the page's clock less `Lag`, and
  reaches into its days, was read with all of its days there, whatever became of it
  since. `StillListed` says that what was read is still in the table, ended at
  most; `ShownInv` that a day once shown as an outage is past and has an incident,
  which later pages read. An incident that begins while a page is read is on no
  past day because `Lag` is at most a day. The counts agree because they number
  the parts of one partition of the days (`OutagesAndOthers`, `Uptime`).

**Only model-checked.** Liveness: `DueRunIsRecorded`, `SweepEnds`, `OutageHasIncident`,
`RecoveryEndsIncident`, `CacheBecomesCurrent`. Their proofs need ENABLED of the fair
steps, which the provers do not treat. The workers of `ProbeLeaseTimed`, about which the first two are,
are workers of `ProbeLease` (`TimedWorkersAreWorkers`), so that the safety theorems hold of them.

## 6. Where the code and its documents disagree

The first two are runs that must find the statement violated.

1. docs/algorithm.md:148 says of a claimed probe that "each run writes one
   `probe_results` row". A batch of up to 16 is leased for 60 seconds from the
   start of the sweep and probed in sequence: after six timeouts of ten seconds,
   the sixth completion finds its lease expired, and its result is dropped
   (`ProbeLeaseRuns`, storage/probes.go:172). No result is duplicated. The expired
   lease stays on the row, so that the next sweep claims the config again
   (storage/probes.go:120).
2. docs/development.md:24 and :35 speak of deleting services ("`d`: delete the selected
   service"). The foreign keys that gorm makes of the associations in
   structs/schema.go:15-26 have no ON DELETE action, and every service has a probe
   config at least: the deletion is refused (`ManageDelete`, storage/storage.go:297).

Three more are seen in the code and have no run of their own. docs/algorithm.md:90
says that a failure rate that "meets or exceeds" the threshold degrades; in float64,
0.2 + 0.4 is above 3/5 (algorithm/status.go:107; `SumRoundsUp` in `StatusAlgorithm`).
docs/algorithm.md:199 says that the derived backfill "upserts `service_probe_states` only
when the existing state is not newer"; its ON CONFLICT clause keeps the last-result
columns of a newer row but overwrites the recent counters
(storage/probe_derived_backfill.go:333; `upsertDerivedState` in `ProbeResults`).
docs/algorithm.md:133 speaks of detail caches where the batch refresh drops the list's
key only (storage/statuses.go:96).

## 7. Assumptions and what is left out

- One `worker` process, as docs/deployment.md:68 prescribes. With two trackers,
  count-then-insert at READ COMMITTED can open two incidents.
- The lease tokens, which are random in the code, never collide: they are numbers.
- One clock for all processes. Clocks that disagree would shift leases' ends.
- The baseline of a service is constant in `StatusPipeline`. The reads of a detail
  response's build are one step in `ServiceCache`, between the process's first read
  and its write, where the rest of the system interleaves; `DetailPage` takes them
  one by one.
- Only the first list page is cached by the code, and only it is modelled.
- `DeleteService` is in `Catalogue`, where the foreign keys refuse it, and not in
  `ProbeLease` and `ServiceCache`.
- PostgreSQL's session has UTC as its time zone: `EXTRACT` and `DATE_TRUNC`
  (storage/baselines.go:122, storage/service-detail.go:95) use it, and the DSN sets none.
- Six months are a constant length, and a day always has the same hours (UTC).
- A response of the detail page takes no longer than `Lag`.
- In `ManageTui` scrolling, sizes, the status line and rendering are left out, and typing
  is one step per field.
- Of the presentation builders the heights and colours of bars, the regional
  breakdown, the probe history and all labels are left out: they are shown and
  nothing reads them. Standard deviations and latencies come of the same windows
  and hours as the means and are left out too.
- Names, slugs and hosts are taken as normalised: malformed ones are rejected before
  anything is read.
- The executor's outcome is free; HTTP, TLS and the naming of failures are I/O.
- Latencies, response bodies, headers, logging, observability counters, and VACUUM
  after clean-up are left out.
- In `RateLimit`: other environments than production (everything passes), the
  button that is shown when the reading of the expiry fails
  (api/routes/services.go:187), and headers. A script that ran but whose answer
  was lost, which go-redis may send again, is a fault followed by a request. With
  a limit above one the page stops offering after the first report; no document
  says whether that is meant.

## 8. Plan

The order was: what every other part rests on, first.

| Step | Modules | State |
|---|---|---|
| 1 | `ProbeSchedule`, `ProbeLease`, `ProbeLeaseTimed` and their proofs | done |
| 2 | `ProbeResults` and its proofs | done |
| 3 | `StatusAlgorithm` and its proofs | done |
| 4 | `StatusPipeline`, `IncidentLog` and their proofs | done |
| 5 | `ServiceCache` and its proofs | done |
| 6 | `RateLimit` and its proofs | done |
| 7 | `Catalogue`, `ManageTui` and their proofs | done |
| 8 | `Baselines`, `DetailPage` and their proofs | done |
| 9 | operators without state: bar levels, probe history (utils/api-builders.go, utils/probes.go) against a reference definition | left out until something depends on them |

Left for later: the removal of a cache entry that does not decode
(storage/cache.go), and two tracker processes at once.
