----------------------------- MODULE ProbeResults -----------------------------
(***************************************************************************)
(* The four tables a probe result ends up in: probe_results (raw),         *)
(* probe_recent_results, service_probe_states and probe_hourly_rollups.    *)
(* The transaction of CompleteProbeLease keeps the last three in step with *)
(* the first, the cleaner takes expired rows out of the first, and two     *)
(* backfill commands rebuild the others from it while probes go on.        *)
(*                                                                         *)
(* Every table is keyed by service, so one service is modelled, with its   *)
(* one probe config.  Transactions run at READ COMMITTED: a statement sees *)
(* what was committed when it began and its own transaction's writes, and  *)
(* waits for a row that another open transaction has written.              *)
(***************************************************************************)
EXTENDS Integers, FiniteSets, FiniteSetsExt

CONSTANTS
  Worker,              \* processes running in probe mode
  LeaseLength,         \* how long a claim is good for
  Hour,                \* clock units in a rollup's bucket
  RecentCap,           \* probeRecentResultsCap
  RecentWindow,        \* algorithm.RecentProbeWindow
  SuccessRetention,    \* probeRawSuccessRetention
  FailureRetention,    \* probeRawFailureRetention
  CleanupBatchSize,    \* probeCleanupBatchSize
  CleanupMaxBatches,   \* probeCleanupMaxBatches
  Cutoffs,             \* the --cutoff an operator may pass
  Legacy,              \* raw results from before the derived tables existed
  MaxTime,             \* bound: the clock stops here
  MaxClaims,           \* bound: leases granted
  MaxCleanups,         \* bound: runs of the cleaner
  MaxDerived,          \* bound: runs of backfill-probe-derived
  MaxRollups,          \* bound: runs of backfill-probe-rollups
  ChunkHours           \* --chunk-duration, in buckets

NoOne == 0
NoToken == 0
NoTime == -1
Live == 0    \* where a recent row comes from: a completion, or backfill run 1, 2, ...

Result == [at : Nat, ok : BOOLEAN]
Recent == [at : Nat, ok : BOOLEAN, from : Nat]

ASSUME ResultsAssumption ==
  /\ NoOne \notin Worker
  /\ RecentCap \in Nat /\ RecentWindow \in 1..RecentCap
  /\ {LeaseLength, Hour, ChunkHours} \subseteq Nat \ {0}
  /\ {SuccessRetention, FailureRetention} \subseteq Nat
  /\ Cutoffs \subseteq Nat
  /\ Legacy \subseteq Result /\ IsFiniteSet(Legacy)
  /\ \A r \in Legacy : r.at <= MaxTime
  /\ \A r1, r2 \in Legacy : r1.at = r2.at => r1 = r2
  /\ {MaxTime, MaxClaims, MaxCleanups, MaxDerived, MaxRollups} \subseteq Nat

VARIABLES
  now,      \* time.Now().UTC(): no two results of the service read the same instant
  lease,    \* lease_token and lease_expires_at of the service's config
  locked,   \* the worker whose transaction has the config row FOR UPDATE
  issued,   \* leases granted, the source of fresh tokens
  work,     \* each probe worker
  raw,      \* probe_results
  recent,   \* probe_recent_results
  state,    \* the row of service_probe_states, or NoState
  rollup,   \* probe_hourly_rollups: bucket -> [total, failures]
  cleaner,  \* the probe result cleaner
  derived,  \* backfill-probe-derived
  rollups,  \* backfill-probe-rollups
  hist,     \* history: every result ever committed, Legacy included
  rollout,  \* whether the derived tables are being rolled out over Legacy
  runs      \* bound: runs of the three jobs

vars == <<now, lease, locked, issued, work, raw, recent, state, rollup, cleaner,
          derived, rollups, hist, rollout, runs>>

-------------------------------------------------------------------------------
(* What the statements compute. *)

Newer(r, s) == r.at > s.at \/ (r.at = s.at /\ r.from > s.from)

\* Mutant of LatestRecent: ORDER BY checked_at ASC.
OldestRecent(S, n) == {r \in S : Cardinality({q \in S : Newer(r, q)}) < n}

\* ORDER BY checked_at DESC, id DESC LIMIT n
LatestRecent(S, n) == {r \in S : Cardinality({q \in S : Newer(q, r)}) < n}

\* ORDER BY created_at DESC LIMIT n
LatestResults(S, n) == {r \in S : Cardinality({q \in S : q.at > r.at}) < n}

Failures(S) == {r \in S : ~r.ok}

LatestTime(S) == IF S = {} THEN NoTime ELSE Max({r.at : r \in S})

\* countRecentProbeResults over the rows a transaction sees.
countRecentProbeResults(S) ==
  LET w == LatestRecent(S, RecentWindow)
  IN  [total |-> Cardinality(w), failures |-> Cardinality(Failures(w))]

Bucket(at) == at \div Hour

Counts(S) == [total |-> Cardinality(S), failures |-> Cardinality(Failures(S))]
NoCounts == [total |-> 0, failures |-> 0]

RollupOf(S) == [b \in Bucket(0)..Bucket(MaxTime) |-> Counts({r \in S : Bucket(r.at) = b})]

NoState == [lastAt |-> NoTime]

\* service_probe_states as it follows from a set of results.
StateOf(results, counts, windowAt) ==
  [lastAt |-> LatestTime(results),
   lastOk |-> \E r \in results : r.ok /\ r.at = LatestTime(results),
   successAt |-> LatestTime({r \in results : r.ok}),
   failureAt |-> LatestTime(Failures(results)),
   recentCounts |-> counts, windowAt |-> windowAt]

-------------------------------------------------------------------------------
IdleWork == [phase |-> "idle", token |-> NoToken, at |-> 0, ok |-> FALSE,
             pruned |-> {}, counts |-> NoCounts]
IdleCleaner == [phase |-> "idle", at |-> 0, batches |-> 0]
IdleDerived == [phase |-> "idle", cutoff |-> 0, gone |-> {}, copies |-> {},
                excluded |-> NoState]
IdleRollups == [phase |-> "idle", next |-> 0, end |-> 0, hourly |-> <<>>]

TypeOK ==
  /\ now \in Nat
  /\ lease \in [token : 0..MaxClaims, expires : Nat \cup {NoTime}]
  /\ issued \in 0..MaxClaims
  /\ \A w \in Worker :
       /\ work[w].phase \in {"idle", "probe", "write", "prune", "commit"}
       /\ work[w].token \in 0..MaxClaims
       /\ work[w].pruned \subseteq Recent
       /\ locked = w <=> work[w].phase \in {"prune", "commit"}
  /\ raw \subseteq hist /\ hist \subseteq Result
  /\ recent \subseteq Recent
  /\ DOMAIN rollup = Bucket(0)..Bucket(MaxTime)
  /\ cleaner.phase \in {"idle", "success", "failure"}
  /\ derived.phase \in {"idle", "insert", "read", "write"}
  /\ rollups.phase \in {"idle", "read", "write"}
  /\ rollout \in BOOLEAN
  /\ runs \in [cleanups : 0..MaxCleanups, derived : 0..MaxDerived, rollups : 0..MaxRollups]

\* Two ways to start: with empty tables, or in the rollout, with raw results and
\* nothing derived from them yet.  The backfills belong to the rollout and end
\* before the worker, and with it the cleaner, is started (docs/deployment.md:109).
Init ==
  /\ rollout \in BOOLEAN
  /\ raw = IF rollout THEN Legacy ELSE {}
  /\ now = LatestTime(raw) + 1
  /\ lease = [token |-> NoToken, expires |-> NoTime]
  /\ locked = NoOne
  /\ issued = 0
  /\ work = [w \in Worker |-> IdleWork]
  /\ recent = {}
  /\ state = NoState
  /\ rollup = RollupOf({})
  /\ cleaner = IdleCleaner
  /\ derived = IdleDerived
  /\ rollups = IdleRollups
  /\ hist = raw
  /\ runs = [cleanups |-> 0, derived |-> 0, rollups |-> 0]

probeTables == <<raw, recent, state, rollup, hist, rollout>>
leaseVars == <<lease, locked, issued, work>>
jobs == <<cleaner, derived, rollups, runs>>

Tick ==
  /\ now < MaxTime
  /\ now' = now + 1
  /\ UNCHANGED <<leaseVars, probeTables, jobs>>

-------------------------------------------------------------------------------
(* Probe workers: claim, probe, and the completing transaction. *)

\* The config is due (ProbeLease says when); SKIP LOCKED leaves a locked row out.
ClaimDueProbeConfig(w) ==
  /\ work[w].phase = "idle"
  /\ issued < MaxClaims
  /\ locked = NoOne
  /\ lease.token = NoToken \/ lease.expires <= now
  /\ issued' = issued + 1
  /\ lease' = [token |-> issued + 1, expires |-> now + LeaseLength]
  /\ work' = [work EXCEPT ![w] = [IdleWork EXCEPT !.phase = "probe", !.token = issued + 1]]
  /\ UNCHANGED <<now, locked, probeTables, jobs>>

\* The request ends and checkedAt is read; the clock moves on.
FinishProbe(w) ==
  /\ work[w].phase = "probe"
  /\ now < MaxTime
  /\ \E ok \in BOOLEAN :
       work' = [work EXCEPT ![w] = [@ EXCEPT !.phase = "write", !.at = now, !.ok = ok]]
  /\ now' = now + 1
  /\ UNCHANGED <<lease, locked, issued, probeTables, jobs>>

OwnRow(w) == [at |-> work[w].at, ok |-> work[w].ok, from |-> Live]

LeaseHeld(w) == lease.token = work[w].token /\ lease.expires > work[w].at

\* Mutant of BeginComplete: SELECT without FOR UPDATE.
BeginCompleteUnlocked(w) ==
  /\ work[w].phase = "write"
  /\ LeaseHeld(w)
  /\ LET view == recent \cup {OwnRow(w)}
     IN  work' = [work EXCEPT ![w] = [@ EXCEPT !.phase = "prune",
                    !.pruned = view \ LatestRecent(view, RecentCap)]]
  /\ UNCHANGED <<now, lease, locked, issued, probeTables, jobs>>

\* CompleteProbeLease up to pruneProbeRecentResults: the config is read FOR UPDATE
\* and updated, the raw and the recent row are inserted, and the rows beyond the
\* cap are picked for deletion.  Nothing is visible to others yet.
BeginComplete(w) ==
  /\ work[w].phase = "write"
  /\ locked = NoOne
  /\ LeaseHeld(w)
  /\ locked' = w
  /\ LET view == recent \cup {OwnRow(w)}
     IN  work' = [work EXCEPT ![w] = [@ EXCEPT !.phase = "prune",
                    !.pruned = view \ LatestRecent(view, RecentCap)]]
  /\ UNCHANGED <<now, lease, issued, probeTables, jobs>>

\* The deletion waits for rows that the derived backfill has deleted; then
\* countRecentProbeResults runs on what is committed by now.
CountRecent(w) ==
  /\ work[w].phase = "prune"
  /\ work[w].pruned \cap derived.gone = {}
  /\ work' = [work EXCEPT ![w] = [@ EXCEPT !.phase = "commit",
       !.counts = countRecentProbeResults((recent \ work[w].pruned) \cup {OwnRow(w)})]]
  /\ UNCHANGED <<now, lease, locked, issued, probeTables, jobs>>

\* Whatever the row holds, the last result and the counters are overwritten, and
\* the fields of the other outcome are kept.
upsertServiceProbeState(r, counts) ==
  [lastAt |-> r.at, lastOk |-> r.ok,
   successAt |-> IF r.ok THEN r.at ELSE IF state = NoState THEN NoTime ELSE state.successAt,
   failureAt |-> IF ~r.ok THEN r.at ELSE IF state = NoState THEN NoTime ELSE state.failureAt,
   recentCounts |-> counts, windowAt |-> r.at]

\* Mutant of upsertProbeHourlyRollup: the conflicting row is replaced.
upsertReplacingRollup(r) ==
  [rollup EXCEPT ![Bucket(r.at)] = Counts({r})]

upsertProbeHourlyRollup(r) ==
  [rollup EXCEPT ![Bucket(r.at)] =
     [total |-> @.total + 1, failures |-> @.failures + IF r.ok THEN 0 ELSE 1]]

\* The rest of the transaction, and its commit.
CommitComplete(w) ==
  LET r == [at |-> work[w].at, ok |-> work[w].ok] IN
  /\ work[w].phase = "commit"
  /\ raw' = raw \cup {r}
  /\ hist' = hist \cup {r}
  /\ recent' = (recent \ work[w].pruned) \cup {OwnRow(w)}
  /\ state' = upsertServiceProbeState(r, work[w].counts)
  /\ rollup' = upsertProbeHourlyRollup(r)
  /\ lease' = [token |-> NoToken, expires |-> NoTime]
  /\ locked' = NoOne
  /\ work' = [work EXCEPT ![w] = IdleWork]
  /\ UNCHANGED <<now, issued, rollout, jobs>>

\* errProbeLeaseNotFound: the result is dropped.
LeaseNotFound(w) ==
  /\ work[w].phase = "write"
  /\ locked = NoOne
  /\ ~LeaseHeld(w)
  /\ work' = [work EXCEPT ![w] = IdleWork]
  /\ UNCHANGED <<now, lease, locked, issued, probeTables, jobs>>

\* An error or the death of the process: an open transaction rolls back and the
\* lease is left to expire.
GiveUp(w) ==
  /\ work[w].phase # "idle"
  /\ work' = [work EXCEPT ![w] = IdleWork]
  /\ locked' = IF locked = w THEN NoOne ELSE locked
  /\ UNCHANGED <<now, lease, issued, probeTables, jobs>>

Probe(w) ==
  \/ ClaimDueProbeConfig(w)
  \/ FinishProbe(w)
  \/ BeginComplete(w)
  \/ CountRecent(w)
  \/ CommitComplete(w)
  \/ LeaseNotFound(w)
  \/ GiveUp(w)

-------------------------------------------------------------------------------
(* The probe result cleaner. *)

Retention(ok) == IF ok THEN SuccessRetention ELSE FailureRetention

StartCleanup ==
  /\ ~rollout
  /\ cleaner.phase = "idle"
  /\ runs.cleanups < MaxCleanups
  /\ cleaner' = [phase |-> "success", at |-> now, batches |-> 0]
  /\ runs' = [runs EXCEPT !.cleanups = @ + 1]
  /\ UNCHANGED <<now, leaseVars, probeTables, derived, rollups>>

\* Mutant of Expired: one cutoff, that of the successes, for both outcomes.
ExpiredOneCutoff(ok, at) == {r \in raw : r.ok = ok /\ r.at < at - SuccessRetention}

Expired(ok, at) == {r \in raw : r.ok = ok /\ r.at < at - Retention(ok)}

\* Successes are done: on to the failures; failures done: until the next hour.
AfterBatches == IF cleaner.phase = "success"
                THEN [cleaner EXCEPT !.phase = "failure", !.batches = 0]
                ELSE IdleCleaner

\* One statement: the oldest expired rows, at most a batch of them.  A batch that
\* is not full, or the last one allowed, ends the scan of this outcome.
DeleteExpiredBatch ==
  LET expired == Expired(cleaner.phase = "success", cleaner.at)
      batch == {r \in expired : Cardinality({q \in expired : q.at < r.at}) < CleanupBatchSize}
  IN
  /\ cleaner.phase # "idle"
  /\ raw' = raw \ batch
  /\ cleaner' = IF Cardinality(batch) < CleanupBatchSize
                   \/ cleaner.batches + 1 = CleanupMaxBatches
                THEN AfterBatches ELSE [cleaner EXCEPT !.batches = @ + 1]
  /\ UNCHANGED <<now, leaseVars, recent, state, rollup, hist, rollout, derived, rollups, runs>>

\* A statement fails, or the worker dies: what was deleted stays deleted.
CleanupFails ==
  /\ cleaner.phase # "idle"
  /\ cleaner' = IdleCleaner
  /\ UNCHANGED <<now, leaseVars, probeTables, derived, rollups, runs>>

Cleanup == StartCleanup \/ DeleteExpiredBatch \/ CleanupFails

-------------------------------------------------------------------------------
(* backfill-probe-derived: one transaction per batch of services. *)

\* Rows that open completions have deleted: another transaction waits for them.
Pruned == UNION {work[w].pruned : w \in {v \in Worker : work[v].phase \in {"prune", "commit"}}}

RawBefore(cutoff) == {r \in raw : r.at < cutoff}

\* The recent rows as the backfill's own transaction sees them.
DerivedView == (recent \ derived.gone) \cup derived.copies

\* Mutant of RecentBefore: checked_at <= cutoff.
RecentUpTo(cutoff) == {r \in recent : r.at <= cutoff}

RecentBefore(cutoff) == {r \in recent : r.at < cutoff}

\* The service has raw rows before the cutoff: its recent rows before it go.
StartDerived(cutoff) ==
  LET gone == RecentBefore(cutoff) IN
  /\ rollout
  /\ derived.phase = "idle"
  /\ runs.derived < MaxDerived
  /\ RawBefore(cutoff) # {}
  /\ gone \cap Pruned = {}
  /\ derived' = [IdleDerived EXCEPT !.phase = "insert", !.cutoff = cutoff, !.gone = gone]
  /\ runs' = [runs EXCEPT !.derived = @ + 1]
  /\ UNCHANGED <<now, leaseVars, probeTables, cleaner, rollups>>

\* They are inserted again from the raw rows, and pruned to the cap.
InsertDerived ==
  LET copies == {[at |-> r.at, ok |-> r.ok, from |-> runs.derived] :
                   r \in LatestResults(RawBefore(derived.cutoff), RecentCap)}
      view == (recent \ derived.gone) \cup copies
      over == view \ LatestRecent(view, RecentCap)
  IN
  /\ derived.phase = "insert"
  /\ over \cap Pruned = {}
  /\ derived' = [derived EXCEPT !.phase = "read", !.gone = @ \cup (over \cap recent),
                                !.copies = copies \ over]
  /\ UNCHANGED <<now, leaseVars, probeTables, cleaner, rollups, runs>>

\* The upsert's SELECT, on what is committed when the statement begins.
ReadDerived ==
  LET results == RawBefore(derived.cutoff) IN
  /\ derived.phase = "read"
  /\ derived' = [derived EXCEPT !.phase = "write", !.excluded =
       IF results = {} THEN NoState
       ELSE StateOf(results, countRecentProbeResults(DerivedView),
                    IF DerivedView = {} THEN LatestTime(results) ELSE LatestTime(DerivedView))]
  /\ UNCHANGED <<now, leaseVars, probeTables, cleaner, rollups, runs>>

\* Mutant of upsertDerivedState: the existing row is replaced.
upsertDerivedReplacing(new) == IF new = NoState THEN state ELSE new

\* ON CONFLICT: a newer last result stays; the counters are overwritten always.
upsertDerivedState(new) ==
  IF new = NoState THEN state
  ELSE IF state = NoState \/ state.lastAt <= new.lastAt THEN new
  ELSE [state EXCEPT !.recentCounts = new.recentCounts, !.windowAt = new.windowAt]

\* The upsert's write, on the row as it is by then, and the commit.
WriteDerived ==
  /\ derived.phase = "write"
  /\ recent' = DerivedView
  /\ state' = upsertDerivedState(derived.excluded)
  /\ derived' = IdleDerived
  /\ UNCHANGED <<now, leaseVars, raw, rollup, hist, rollout, cleaner, rollups, runs>>

\* A statement fails, or the command dies: the transaction rolls back.
DerivedFails ==
  /\ derived.phase # "idle"
  /\ derived' = IdleDerived
  /\ UNCHANGED <<now, leaseVars, probeTables, cleaner, rollups, runs>>

BackfillProbeDerived ==
  \/ \E cutoff \in Cutoffs : StartDerived(cutoff)
  \/ InsertDerived
  \/ ReadDerived
  \/ WriteDerived
  \/ DerivedFails

-------------------------------------------------------------------------------
(* backfill-probe-rollups: one statement per chunk of buckets. *)

StartRollups(first, end) ==
  /\ rollout
  /\ rollups.phase = "idle"
  /\ runs.rollups < MaxRollups
  /\ rollups' = [IdleRollups EXCEPT !.phase = "read", !.next = first, !.end = end]
  /\ runs' = [runs EXCEPT !.rollups = @ + 1]
  /\ UNCHANGED <<now, leaseVars, probeTables, cleaner, derived>>

\* The aggregate of the chunk's raw rows: a bucket without rows has none.
ReadChunk ==
  LET chunk == {b \in rollups.next..(rollups.end - 1) : b < rollups.next + ChunkHours}
      found == {b \in chunk : \E r \in raw : Bucket(r.at) = b}
  IN
  /\ rollups.phase = "read"
  /\ rollups' = [rollups EXCEPT !.phase = "write",
                   !.hourly = [b \in found |-> RollupOf(raw)[b]]]
  /\ UNCHANGED <<now, leaseVars, probeTables, cleaner, derived, runs>>

\* Mutant of replacedRollup: the aggregate is added to the existing row.
addedRollup(hourly) ==
  [b \in DOMAIN rollup |->
     IF b \in DOMAIN hourly
     THEN [total |-> rollup[b].total + hourly[b].total,
           failures |-> rollup[b].failures + hourly[b].failures]
     ELSE rollup[b]]

\* ON CONFLICT: the aggregate replaces the row, whatever it has become meanwhile.
replacedRollup(hourly) ==
  [b \in DOMAIN rollup |-> IF b \in DOMAIN hourly THEN hourly[b] ELSE rollup[b]]

WriteChunk ==
  LET next == rollups.next + ChunkHours IN
  /\ rollups.phase = "write"
  /\ rollup' = replacedRollup(rollups.hourly)
  /\ rollups' = IF next < rollups.end
                THEN [rollups EXCEPT !.phase = "read", !.next = next, !.hourly = <<>>]
                ELSE IdleRollups
  /\ UNCHANGED <<now, leaseVars, raw, recent, state, hist, rollout, cleaner, derived, runs>>

RollupsFail ==
  /\ rollups.phase # "idle"
  /\ rollups' = IdleRollups
  /\ UNCHANGED <<now, leaseVars, probeTables, cleaner, derived, runs>>

BackfillProbeHourlyRollups ==
  \/ \E first, end \in DOMAIN rollup : first < end /\ StartRollups(first, end)
  \/ ReadChunk
  \/ WriteChunk
  \/ RollupsFail

Next ==
  \/ Tick
  \/ \E w \in Worker : Probe(w)
  \/ Cleanup
  \/ BackfillProbeDerived
  \/ BackfillProbeHourlyRollups

Spec == Init /\ [][Next]_vars

-------------------------------------------------------------------------------
(* Safety. *)

\* Whatever workers, expired leases, rollbacks and the cleaner do, the recent rows
\* are exactly the latest results ever recorded.
RecentMatchesHistory ==
  ~rollout =>
    /\ {[at |-> r.at, ok |-> r.ok] : r \in recent} = LatestResults(hist, RecentCap)
    /\ Cardinality(recent) <= RecentCap

\* The state row is what the history of results says, counters included, although
\* it is overwritten with no comparison of times.
StateMatchesHistory ==
  ~rollout =>
    state = IF hist = {} THEN NoState
            ELSE LET latest == LatestResults(hist, RecentWindow)
                 IN  StateOf(hist, Counts(latest), LatestTime(hist))

\* The hourly rollups count every result of the history once.
RollupMatchesHistory == ~rollout => rollup = RollupOf(hist)

\* The cleaner takes no raw row that its retention still covers.
RetainedRawKept == \A r \in hist : r.at >= now - Retention(r.ok) => r \in raw

\* A live result is never hidden: from the first completion of the rollout on, the
\* state row's last result is the newest recorded one, whatever the backfill read.
LastResultIsNewest ==
  rollout /\ hist # Legacy => state.lastAt = LatestTime(hist)

\* Re-running or racing the rollup backfill never counts a result twice.
RollupNeverOvercounts ==
  \A b \in DOMAIN rollup :
    /\ rollup[b].total <= RollupOf(hist)[b].total
    /\ rollup[b].failures <= RollupOf(hist)[b].failures

\* The result that a recent row is about.
ResultOf(q) == [at |-> q.at, ok |-> q.ok]

\* Whatever the cutoff, and whatever completes before, during and after a backfill: a
\* result of the new workers, or one that a backfilled row is no older than, has a recent
\* row, unless newer rows fill the cap.  No result has two rows, except one that was
\* committed, while a backfill with a later cutoff ran, after its deletion and before its
\* insertion: that has its own and the backfill's copy, and the cap counts both.
RecentKeepsNewest ==
  rollout =>
    /\ \A r \in hist :
         r \notin Legacy \/ (\E q \in recent : q.from # Live /\ q.at >= r.at) =>
           \/ \E q \in recent : ResultOf(q) = r
           \/ Cardinality({q \in recent : q.at > r.at}) >= RecentCap
    /\ \A p, q \in recent : p.at = q.at /\ p # q => Live \in {p.from, q.from}
===============================================================================
