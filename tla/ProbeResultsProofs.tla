-------------------------- MODULE ProbeResultsProofs --------------------------
(***************************************************************************)
(* Theorems about ProbeResults, for every set of workers, lease length,    *)
(* bucket width, cap, window, retention, batch size, cutoff and set of     *)
(* legacy results that ResultsAssumption admits, and for any bounds.       *)
(***************************************************************************)
EXTENDS ProbeResults, FiniteSetTheorems, TLAPS

-------------------------------------------------------------------------------
(* The inductive invariant. *)

Buckets == Bucket(0)..Bucket(MaxTime)
Counter == [total : Nat, failures : Nat]

WorkRecord ==
  [phase : {"idle", "probe", "write", "prune", "commit"}, token : 0..MaxClaims,
   at : Nat, ok : BOOLEAN, pruned : SUBSET Recent, counts : Counter]

CleanerRecord == [phase : {"idle", "success", "failure"}, at : Nat, batches : Int]

\* The types of what the proofs compute with; state's row needs none.
Typed ==
  /\ now \in Nat
  /\ lease \in [token : 0..MaxClaims, expires : Nat \cup {NoTime}]
  /\ locked \in Worker \cup {NoOne}
  /\ issued \in 0..MaxClaims
  /\ work \in [Worker -> WorkRecord]
  /\ raw \subseteq hist /\ hist \subseteq Result /\ IsFiniteSet(hist)
  /\ recent \subseteq Recent /\ IsFiniteSet(recent)
  /\ rollup \in [Buckets -> Counter]
  /\ rollout \in BOOLEAN
  /\ runs \in [cleanups : 0..MaxCleanups, derived : 0..MaxDerived, rollups : 0..MaxRollups]

TypedJobs ==
  /\ cleaner \in CleanerRecord
  /\ DOMAIN derived = {"phase", "cutoff", "gone", "copies", "excluded"}
  /\ derived.phase \in {"idle", "insert", "read", "write"}
  /\ derived.cutoff \in Nat
  /\ derived.copies \subseteq Recent /\ IsFiniteSet(derived.copies)
  /\ DOMAIN rollups = {"phase", "next", "end", "hourly"}
  /\ rollups.phase \in {"idle", "read", "write"}
  /\ {rollups.next, rollups.end} \subseteq Int
  /\ \A b \in DOMAIN rollups.hourly : b \in Buckets /\ rollups.hourly[b] \in Counter

\* A worker with a claim has a token of its own, among those issued.
TokenInv ==
  /\ lease.token <= issued
  /\ \A w \in Worker : work[w].phase # "idle" => work[w].token \in 1..issued
  /\ \A v, w \in Worker :
       work[v].phase # "idle" /\ work[w].phase # "idle" /\ work[v].token = work[w].token
         => v = w

\* One transaction at a time has the config row, and the lease is its own.
LockInv ==
  \A w \in Worker :
    /\ locked = w <=> work[w].phase \in {"prune", "commit"}
    /\ locked = w => lease.token = work[w].token

\* Results are told apart by their times, and whoever still owns the lease brings
\* one that is newer than all recorded.
TimeInv ==
  /\ \A r \in hist : r.at < now /\ r.at <= MaxTime
  /\ \A r1, r2 \in hist : r1.at = r2.at => r1 = r2
  /\ \A w \in Worker :
       work[w].phase \in {"write", "prune", "commit"} =>
         /\ work[w].at < now /\ work[w].at <= MaxTime
         /\ lease.token = work[w].token => \A r \in hist : r.at < work[w].at

\* The backfills run in the rollout, the cleaner does not.
RolloutInv ==
  /\ ~rollout => derived.phase = "idle" /\ rollups.phase = "idle"
  /\ rollout => cleaner.phase = "idle" /\ raw = hist
  /\ cleaner.at <= now

BaseInv == Typed /\ TypedJobs /\ TokenInv /\ LockInv /\ TimeInv /\ RolloutInv

Jobs == Cleanup \/ BackfillProbeDerived \/ BackfillProbeHourlyRollups

-------------------------------------------------------------------------------
(* Lemmas about times, orders and counts. *)

\* A finite set of integers has a greatest element, and Max is it.
LEMMA MaxFact ==
  ASSUME NEW S \in SUBSET Int, IsFiniteSet(S), S # {}
  PROVE  Max(S) \in S /\ \A y \in S : y <= Max(S)
<1> DEFINE above(x) == {y \in S : x < y}
           family == {above(x) : x \in S}
<1>1. family \subseteq FiniteSubsetsOf(S) /\ family # {}
  <2>1. ASSUME NEW x \in S  PROVE above(x) \in FiniteSubsetsOf(S)
    <3>1. above(x) \in SUBSET S
      OBVIOUS
    <3> QED  BY <3>1, FS_Subset DEF FiniteSubsetsOf
  <2> QED  BY <2>1
<1>2. PICK A \in family : \A B \in family : <<B, A>> \notin StrictSubsetOrdering(S)
  <2> HIDE DEF family
  <2> QED  BY <1>1, FS_StrictSubsetOrderingWellFounded, WFMin
<1>3. PICK m \in S : A = above(m)
  BY <1>2
<1>4. ASSUME NEW y \in S, m < y  PROVE FALSE
  <2>1. above(y) \subseteq above(m) /\ y \in above(m) /\ y \notin above(y)
    <3>1. m \in Int /\ y \in Int /\ ~(y < y) /\ \A z \in S : z \in Int /\ (y < z => m < z)
      BY <1>4
    <3> QED  BY <3>1, <1>4
  <2>2. <<above(y), above(m)>> \in StrictSubsetOrdering(S)
    BY <2>1 DEF StrictSubsetOrdering
  <2>3. above(y) \in family
    OBVIOUS
  <2> QED  BY <1>2, <1>3, <2>2, <2>3
<1>5. \A y \in S : m >= y
  BY <1>4
<1> QED  BY <1>5 DEF Max

\* LatestTime is the greatest time of a set of results, if it has any.
LEMMA LatestTimeFact ==
  ASSUME NEW S \in SUBSET Result, IsFiniteSet(S)
  PROVE  /\ S = {} => LatestTime(S) = NoTime
         /\ S # {} => /\ LatestTime(S) \in Nat
                      /\ \E r \in S : r.at = LatestTime(S)
                      /\ \A r \in S : r.at <= LatestTime(S)
<1> DEFINE times == {r.at : r \in S}
           f == [r \in S |-> r.at]
<1>1. f \in Surjection(S, times)
  BY DEF Surjection
<1>2. IsFiniteSet(times) /\ times \in SUBSET Int
  BY <1>1, FS_Surjection DEF Result
<1>3. ASSUME S # {}  PROVE Max(times) \in times /\ \A t \in times : t <= Max(times)
  BY <1>2, <1>3, MaxFact
<1> QED  BY <1>3 DEF LatestTime, Result

\* A result newer than all others is the latest one.
LEMMA LatestTimeOfNewest ==
  ASSUME NEW S \in SUBSET Result, IsFiniteSet(S), NEW x \in Result,
         \A r \in S : r.at < x.at
  PROVE  LatestTime(S \cup {x}) = x.at
<1>1. S \cup {x} \in SUBSET Result /\ IsFiniteSet(S \cup {x})
  BY FS_AddElement
<1>2. PICK r \in S \cup {x} : r.at = LatestTime(S \cup {x}) /\ x.at <= LatestTime(S \cup {x})
  BY <1>1, LatestTimeFact
<1> QED  BY <1>2 DEF Result

\* Times fall into buckets in order.
LEMMA BucketsAreOrdered ==
  ASSUME NEW a \in Nat, NEW b \in Nat, a <= b
  PROVE  Bucket(a) \in Nat /\ Bucket(b) \in Nat /\ Bucket(a) <= Bucket(b)
<1>1. Hour \in Nat \ {0}
  BY ResultsAssumption
<1> QED  BY <1>1 DEF Bucket

LEMMA BucketOfTime ==
  ASSUME NEW t \in Nat, t <= MaxTime
  PROVE  Bucket(t) \in Buckets
BY BucketsAreOrdered, ResultsAssumption DEF Buckets

\* How many there are and how many of them failed are numbers.
LEMMA CountsType ==
  ASSUME NEW S, IsFiniteSet(S)
  PROVE  Counts(S) \in Counter
<1>1. IsFiniteSet(Failures(S))
  BY FS_Subset DEF Failures
<1> QED  BY <1>1, FS_CardinalityType DEF Counts, Counter

LEMMA CountRecentType ==
  ASSUME NEW S, IsFiniteSet(S)
  PROVE  countRecentProbeResults(S) \in Counter
<1> DEFINE w == LatestRecent(S, RecentWindow)
<1>1. IsFiniteSet(w) /\ IsFiniteSet(Failures(w))
  BY FS_Subset DEF LatestRecent, Failures
<1> HIDE DEF w
<1>2. Cardinality(w) \in Nat /\ Cardinality(Failures(w)) \in Nat
  BY <1>1, FS_CardinalityType
<1> QED  BY <1>2 DEF countRecentProbeResults, Counter, w

\* The rollups that follow from a finite set of results.
LEMMA RollupOfType ==
  ASSUME NEW S, IsFiniteSet(S)
  PROVE  RollupOf(S) \in [Buckets -> Counter]
<1>1. ASSUME NEW b \in Buckets  PROVE Counts({r \in S : Bucket(r.at) = b}) \in Counter
  BY FS_Subset, CountsType
<1> QED  BY <1>1 DEF RollupOf, Buckets

\* No subset of the results has more of them in a bucket.
LEMMA CountsAreMonotone ==
  ASSUME NEW S, NEW T \in SUBSET S, IsFiniteSet(S), NEW b \in Buckets
  PROVE  /\ RollupOf(T)[b].total <= RollupOf(S)[b].total
         /\ RollupOf(T)[b].failures <= RollupOf(S)[b].failures
<1> DEFINE Sb == {r \in S : Bucket(r.at) = b}
           Tb == {r \in T : Bucket(r.at) = b}
<1>1. IsFiniteSet(Sb) /\ IsFiniteSet(Failures(Sb))
  BY FS_Subset DEF Failures
<1>2. Tb \in SUBSET Sb /\ Failures(Tb) \in SUBSET Failures(Sb)
  BY DEF Failures
<1>3. RollupOf(S)[b] = Counts(Sb) /\ RollupOf(T)[b] = Counts(Tb)
  BY DEF RollupOf, Buckets
<1> HIDE DEF Sb, Tb
<1>4. Cardinality(Tb) <= Cardinality(Sb) /\ Cardinality(Failures(Tb)) <= Cardinality(Failures(Sb))
  BY <1>1, <1>2, FS_Subset
<1> QED  BY <1>3, <1>4 DEF Counts

\* A new result adds one to its bucket, as the upsert does.
LEMMA RollupOfAdded ==
  ASSUME NEW S \in SUBSET Result, IsFiniteSet(S), NEW x \in Result, x \notin S,
         NEW b \in Buckets
  PROVE  RollupOf(S \cup {x})[b] =
           IF Bucket(x.at) = b
           THEN [total |-> RollupOf(S)[b].total + 1,
                 failures |-> RollupOf(S)[b].failures + IF x.ok THEN 0 ELSE 1]
           ELSE RollupOf(S)[b]
<1> DEFINE old == {r \in S : Bucket(r.at) = b}
           new == {r \in S \cup {x} : Bucket(r.at) = b}
<1>1. IsFiniteSet(old) /\ IsFiniteSet(Failures(old)) /\ x \notin old /\ x \notin Failures(old)
  BY FS_Subset DEF Failures
<1>2. RollupOf(S \cup {x})[b] = Counts(new) /\ RollupOf(S)[b] = Counts(old)
  BY DEF RollupOf, Buckets
<1>3. /\ new = IF Bucket(x.at) = b THEN old \cup {x} ELSE old
      /\ Failures(old \cup {x}) = IF x.ok THEN Failures(old) ELSE Failures(old) \cup {x}
  BY DEF Failures
<1> HIDE DEF old, new
<1>4. /\ Cardinality(old \cup {x}) = Cardinality(old) + 1
      /\ Cardinality(Failures(old) \cup {x}) = Cardinality(Failures(old)) + 1
      /\ Cardinality(Failures(old)) \in Nat
  BY <1>1, FS_AddElement, FS_CardinalityType
<1> QED  BY <1>2, <1>3, <1>4 DEF Counts

-------------------------------------------------------------------------------
(* The invariant holds, types first. *)

\* The jobs leave alone what the probe workers share, the history included.
LEMMA JobsLeaveProbes ==
  ASSUME Jobs
  PROVE  UNCHANGED <<now, lease, locked, issued, work, hist, rollout>>
BY DEF Jobs, Cleanup, StartCleanup, DeleteExpiredBatch, CleanupFails,
  BackfillProbeDerived, StartDerived, InsertDerived, ReadDerived, WriteDerived, DerivedFails,
  BackfillProbeHourlyRollups, StartRollups, ReadChunk, WriteChunk, RollupsFail,
  leaseVars, probeTables

\* The probe workers leave the jobs alone.
LEMMA ProbesLeaveJobs ==
  ASSUME NEW w \in Worker, Probe(w)
  PROVE  UNCHANGED <<cleaner, derived, rollups, runs, rollout>>
BY DEF Probe, ClaimDueProbeConfig, FinishProbe, BeginComplete, CountRecent, CommitComplete,
  LeaseNotFound, GiveUp, jobs, probeTables

\* Every step is the clock's, a probe worker's or a job's.
LEMMA StepCases ==
  ASSUME Next
  PROVE  Tick \/ (\E w \in Worker : Probe(w)) \/ Jobs
BY DEF Next, Jobs

LEMMA IdleWorkType == IdleWork \in WorkRecord /\ IdleWork.phase = "idle"
<1>1. NoToken \in 0..MaxClaims
  BY ResultsAssumption DEF NoToken
<1> QED  BY <1>1 DEF IdleWork, WorkRecord, NoCounts, Counter

\* A completing worker's row and result have their types.
LEMMA OwnRowType ==
  ASSUME Typed, NEW w \in Worker
  PROVE  OwnRow(w) \in Recent /\ [at |-> work[w].at, ok |-> work[w].ok] \in Result
<1>1. work[w].at \in Nat /\ work[w].ok \in BOOLEAN
  BY DEF Typed, WorkRecord
<1> QED  BY <1>1 DEF OwnRow, Recent, Result, Live

LEMMA InitBase == ASSUME Init  PROVE BaseInv
<1>1. raw \subseteq Legacy /\ IsFiniteSet(raw) /\ raw \in SUBSET Result
  BY ResultsAssumption, FS_EmptySet DEF Init
<1>2. now \in Nat /\ \A r \in raw : r.at < now
  <2>1. now = LatestTime(raw) + 1
    BY DEF Init
  <2>2. CASE raw = {}
    BY <1>1, <2>1, <2>2, LatestTimeFact DEF NoTime
  <2>3. CASE raw # {}
    <3>1. PICK t \in Nat : t = LatestTime(raw) /\ \A r \in raw : r.at <= t
      BY <1>1, <2>3, LatestTimeFact
    <3>2. \A r \in raw : r.at \in Nat
      BY <1>1 DEF Result
    <3> QED  BY <2>1, <3>1, <3>2
  <2> QED  BY <2>2, <2>3
<1>3. RollupOf({}) \in [Buckets -> Counter]
  BY FS_EmptySet, RollupOfType
<1>4. {MaxClaims, MaxCleanups, MaxDerived, MaxRollups} \subseteq Nat
  BY ResultsAssumption
<1>5. Typed
  <2>1. lease \in [token : 0..MaxClaims, expires : Nat \cup {NoTime}]
    BY <1>4 DEF Init, NoToken
  <2>2. work \in [Worker -> WorkRecord]
    BY IdleWorkType DEF Init
  <2>3. runs \in [cleanups : 0..MaxCleanups, derived : 0..MaxDerived, rollups : 0..MaxRollups]
    BY <1>4 DEF Init
  <2> QED  BY <1>1, <1>2, <1>3, <1>4, <2>1, <2>2, <2>3, FS_EmptySet DEF Init, Typed
<1>6. TypedJobs
  <2>1. DOMAIN IdleRollups.hourly = {}
    BY DEF IdleRollups
  <2> QED  BY <2>1, FS_EmptySet DEF Init, TypedJobs, CleanerRecord, IdleCleaner,
       IdleDerived, IdleRollups
<1>7. TokenInv /\ LockInv
  <2>1. NoOne \notin Worker
    BY ResultsAssumption
  <2> QED  BY <2>1 DEF Init, TokenInv, LockInv, IdleWork, NoToken
<1>8. TimeInv
  BY <1>1, <1>2, ResultsAssumption DEF Init, TimeInv, IdleWork
<1>9. RolloutInv
  BY <1>2 DEF Init, RolloutInv, IdleDerived, IdleRollups, IdleCleaner
<1> QED  BY <1>5, <1>6, <1>7, <1>8, <1>9 DEF BaseInv

\* A worker's step that replaces its own record by a typed one, and the rest as it is.
LEMMA ProbeTypes ==
  ASSUME BaseInv, NEW w \in Worker, Probe(w)
  PROVE  Typed'
<1> USE DEF BaseInv
<1>1. Typed
  OBVIOUS
<1>2. MaxClaims \in Nat /\ issued \in Int /\ 1 \in Nat
  BY ResultsAssumption DEF Typed
<1>3. work[w] \in WorkRecord
  BY DEF Typed
<1>4. IsFiniteSet(recent \ work[w].pruned)
  BY FS_Subset DEF Typed
<1>5. CASE ClaimDueProbeConfig(w)
  <2>1. issued' \in 0..MaxClaims /\ now + LeaseLength \in Nat
    BY <1>2, <1>5, ResultsAssumption DEF ClaimDueProbeConfig, Typed
  <2>2. [IdleWork EXCEPT !.phase = "probe", !.token = issued + 1] \in WorkRecord
    BY <2>1, <1>5, IdleWorkType DEF ClaimDueProbeConfig, WorkRecord
  <2> QED  BY <1>5, <2>1, <2>2 DEF ClaimDueProbeConfig, Typed, probeTables, jobs
<1>6. CASE FinishProbe(w)
  <2>1. PICK ok \in BOOLEAN :
          work' = [work EXCEPT ![w] = [@ EXCEPT !.phase = "write", !.at = now, !.ok = ok]]
    BY <1>6 DEF FinishProbe
  <2>2. [work[w] EXCEPT !.phase = "write", !.at = now, !.ok = ok] \in WorkRecord
    BY <1>3 DEF Typed, WorkRecord
  <2>3. work' \in [Worker -> WorkRecord]
    BY <2>1, <2>2 DEF Typed
  <2> QED  BY <1>6, <2>3 DEF FinishProbe, Typed, probeTables, jobs
<1>7. CASE BeginComplete(w)
  <2> DEFINE view == recent \cup {OwnRow(w)}
             pruned == view \ LatestRecent(view, RecentCap)
  <2>1. pruned \in SUBSET Recent
    BY OwnRowType DEF Typed
  <2>2. work' = [work EXCEPT ![w] = [@ EXCEPT !.phase = "prune", !.pruned = pruned]]
    BY <1>7 DEF BeginComplete
  <2> HIDE DEF pruned
  <2>3. [work[w] EXCEPT !.phase = "prune", !.pruned = pruned] \in WorkRecord
    BY <1>3, <2>1 DEF WorkRecord
  <2>4. work' \in [Worker -> WorkRecord]
    BY <2>2, <2>3 DEF Typed
  <2> QED  BY <1>7, <2>4 DEF BeginComplete, Typed, probeTables, jobs
<1>8. CASE CountRecent(w)
  <2> DEFINE seen == (recent \ work[w].pruned) \cup {OwnRow(w)}
             counts == countRecentProbeResults(seen)
  <2>1. IsFiniteSet(seen)
    BY <1>4, FS_AddElement
  <2>2. counts \in Counter
    BY <2>1, CountRecentType
  <2>3. work' = [work EXCEPT ![w] = [@ EXCEPT !.phase = "commit", !.counts = counts]]
    BY <1>8 DEF CountRecent
  <2> HIDE DEF counts
  <2>4. [work[w] EXCEPT !.phase = "commit", !.counts = counts] \in WorkRecord
    BY <1>3, <2>2 DEF WorkRecord
  <2>5. work' \in [Worker -> WorkRecord]
    BY <2>3, <2>4 DEF Typed
  <2> QED  BY <1>8, <2>5 DEF CountRecent, Typed, probeTables, jobs
<1>9. CASE CommitComplete(w)
  <2> DEFINE r == [at |-> work[w].at, ok |-> work[w].ok]
  <2>1. /\ raw' = raw \cup {r} /\ hist' = hist \cup {r}
        /\ recent' = (recent \ work[w].pruned) \cup {OwnRow(w)}
        /\ rollup' = upsertProbeHourlyRollup(r)
        /\ lease' = [token |-> NoToken, expires |-> NoTime] /\ locked' = NoOne
        /\ work' = [work EXCEPT ![w] = IdleWork]
        /\ UNCHANGED <<now, issued, rollout, runs>>
    BY <1>9 DEF CommitComplete, jobs
  <2>2. r \in Result /\ OwnRow(w) \in Recent
    BY OwnRowType
  <2> HIDE DEF r
  <2>3. /\ raw' \subseteq hist' /\ hist' \subseteq Result /\ IsFiniteSet(hist')
    BY <2>1, <2>2, FS_AddElement DEF Typed
  <2>4. recent' \subseteq Recent /\ IsFiniteSet(recent')
    BY <1>4, <2>1, <2>2, FS_AddElement DEF Typed
  <2>5. rollup' \in [Buckets -> Counter]
    <3>1. (IF r.ok THEN 0 ELSE 1) \in Nat
      OBVIOUS
    <3>2. rollup \in [Buckets -> Counter]
      BY DEF Typed
    <3>3. \A c \in Counter : c.total \in Nat /\ c.failures \in Nat
      BY DEF Counter
    <3>4. \A c \in Counter :
            [total |-> c.total + 1, failures |-> c.failures + IF r.ok THEN 0 ELSE 1] \in Counter
      BY <3>1, <3>3 DEF Counter
    <3> QED  BY <2>1, <3>2, <3>4 DEF upsertProbeHourlyRollup
  <2>6. work' \in [Worker -> WorkRecord]
    BY <2>1, IdleWorkType DEF Typed
  <2>7. lease' \in [token : 0..MaxClaims, expires : Nat \cup {NoTime}]
    BY <2>1, <1>2 DEF NoToken
  <2> QED  BY <2>1, <2>3, <2>4, <2>5, <2>6, <2>7 DEF Typed
<1>10. CASE LeaseNotFound(w) \/ GiveUp(w)
  <2>1. work' = [work EXCEPT ![w] = IdleWork] /\ locked' \in {locked, NoOne}
    BY <1>10 DEF LeaseNotFound, GiveUp
  <2>2. work' \in [Worker -> WorkRecord]
    BY <2>1, IdleWorkType DEF Typed
  <2>3. UNCHANGED <<now, lease, issued, raw, recent, rollup, hist, rollout, runs>>
    BY <1>10 DEF LeaseNotFound, GiveUp, probeTables, jobs
  <2> QED  BY <2>1, <2>2, <2>3 DEF Typed
<1> QED  BY <1>5, <1>6, <1>7, <1>8, <1>9, <1>10 DEF Probe

\* A backfill's rows made of results.
LEMMA CopiesType ==
  ASSUME NEW S \in SUBSET Result, IsFiniteSet(S), NEW n \in Nat
  PROVE  LET copies == {[at |-> r.at, ok |-> r.ok, from |-> n] : r \in S}
         IN  copies \subseteq Recent /\ IsFiniteSet(copies)
<1> DEFINE copies == {[at |-> r.at, ok |-> r.ok, from |-> n] : r \in S}
           f == [r \in S |-> [at |-> r.at, ok |-> r.ok, from |-> n]]
<1>1. f \in Surjection(S, copies)
  BY DEF Surjection
<1>2. IsFiniteSet(copies)
  BY <1>1, FS_Surjection
<1> QED  BY <1>2 DEF Result, Recent

\* The raw rows before a cutoff are results.
LEMMA RawBeforeType ==
  ASSUME Typed, NEW cutoff
  PROVE  RawBefore(cutoff) \in SUBSET hist /\ RawBefore(cutoff) \in SUBSET Result
         /\ IsFiniteSet(RawBefore(cutoff))
BY FS_Subset DEF Typed, RawBefore

\* The backfill of the derived tables keeps its types.
LEMMA DerivedTypes ==
  ASSUME Typed, TypedJobs, BackfillProbeDerived
  PROVE  /\ UNCHANGED <<raw, rollup, cleaner, rollups>>
         /\ recent' \subseteq Recent /\ IsFiniteSet(recent')
         /\ runs' \in [cleanups : 0..MaxCleanups, derived : 0..MaxDerived, rollups : 0..MaxRollups]
         /\ DOMAIN derived' = {"phase", "cutoff", "gone", "copies", "excluded"}
         /\ derived'.phase \in {"idle", "insert", "read", "write"}
         /\ derived'.cutoff \in Nat
         /\ derived'.copies \subseteq Recent /\ IsFiniteSet(derived'.copies)
<1>1. /\ DOMAIN IdleDerived = {"phase", "cutoff", "gone", "copies", "excluded"}
      /\ IdleDerived.phase = "idle" /\ IdleDerived.cutoff \in Nat
      /\ IdleDerived.copies = {} /\ IsFiniteSet(IdleDerived.copies)
  BY FS_EmptySet DEF IdleDerived
<1>2. runs.derived \in Nat
  BY DEF Typed
<1>3. ASSUME NEW cutoff \in Cutoffs, StartDerived(cutoff)
      PROVE  /\ UNCHANGED <<raw, rollup, cleaner, rollups, recent>>
             /\ runs' = [runs EXCEPT !.derived = @ + 1] /\ runs.derived < MaxDerived
             /\ derived'.phase = "insert" /\ derived'.cutoff \in Nat
             /\ DOMAIN derived' = DOMAIN IdleDerived /\ derived'.copies = IdleDerived.copies
  BY <1>3, ResultsAssumption DEF StartDerived, IdleDerived, probeTables
<1>4. ASSUME InsertDerived
      PROVE  /\ UNCHANGED <<raw, rollup, cleaner, rollups, recent, runs>>
             /\ derived'.phase = "read" /\ derived'.cutoff = derived.cutoff
             /\ DOMAIN derived' = DOMAIN derived
             /\ derived'.copies \subseteq Recent /\ IsFiniteSet(derived'.copies)
  <2> DEFINE results == LatestResults(RawBefore(derived.cutoff), RecentCap)
             copies == {[at |-> r.at, ok |-> r.ok, from |-> runs.derived] : r \in results}
  <2>1. results \in SUBSET Result /\ IsFiniteSet(results)
    BY RawBeforeType, FS_Subset DEF LatestResults
  <2>2. copies \subseteq Recent /\ IsFiniteSet(copies)
    <3> HIDE DEF results
    <3> QED  BY <2>1, <1>2, CopiesType
  <2>3. /\ UNCHANGED <<raw, rollup, cleaner, rollups, recent, runs>>
        /\ derived'.phase = "read" /\ derived'.cutoff = derived.cutoff
        /\ DOMAIN derived' = DOMAIN derived
        /\ derived'.copies \in SUBSET copies
    BY <1>4 DEF InsertDerived, TypedJobs, probeTables
  <2> HIDE DEF copies
  <2> QED  BY <2>2, <2>3, FS_Subset
<1>5. ASSUME ReadDerived
      PROVE  /\ UNCHANGED <<raw, rollup, cleaner, rollups, recent, runs>>
             /\ derived'.phase = "write" /\ derived'.cutoff = derived.cutoff
             /\ DOMAIN derived' = DOMAIN derived /\ derived'.copies = derived.copies
  BY <1>5 DEF ReadDerived, TypedJobs, probeTables
<1>6. ASSUME WriteDerived
      PROVE  /\ UNCHANGED <<raw, rollup, cleaner, rollups, runs>> /\ derived' = IdleDerived
             /\ recent' \subseteq Recent /\ IsFiniteSet(recent')
  <2>1. recent \ derived.gone \in SUBSET recent
    OBVIOUS
  <2>2. IsFiniteSet(recent \ derived.gone)
    BY <2>1, FS_Subset DEF Typed
  <2>3. DerivedView \subseteq Recent /\ IsFiniteSet(DerivedView)
    BY <2>2, FS_Union DEF DerivedView, Typed, TypedJobs
  <2> QED  BY <1>6, <2>3 DEF WriteDerived
<1>7. ASSUME DerivedFails
      PROVE  UNCHANGED <<raw, rollup, cleaner, rollups, recent, runs>> /\ derived' = IdleDerived
  BY <1>7 DEF DerivedFails, probeTables
<1>8. CASE \E cutoff \in Cutoffs : StartDerived(cutoff)
  <2>1. runs' \in [cleanups : 0..MaxCleanups, derived : 0..MaxDerived, rollups : 0..MaxRollups]
    BY <1>3, <1>8, ResultsAssumption DEF Typed
  <2> QED  BY <1>1, <1>3, <1>8, <2>1 DEF Typed
<1> QED  BY <1>1, <1>4, <1>5, <1>6, <1>7, <1>8 DEF BackfillProbeDerived, Typed, TypedJobs

\* The backfill of the rollups keeps its types.
LEMMA RollupsTypes ==
  ASSUME Typed, TypedJobs, TimeInv, BackfillProbeHourlyRollups
  PROVE  /\ UNCHANGED <<raw, recent, cleaner, derived>>
         /\ rollup' \in [Buckets -> Counter]
         /\ runs' \in [cleanups : 0..MaxCleanups, derived : 0..MaxDerived, rollups : 0..MaxRollups]
         /\ DOMAIN rollups' = {"phase", "next", "end", "hourly"}
         /\ rollups'.phase \in {"idle", "read", "write"}
         /\ {rollups'.next, rollups'.end} \subseteq Int
         /\ \A b \in DOMAIN rollups'.hourly : b \in Buckets /\ rollups'.hourly[b] \in Counter
<1>1. /\ DOMAIN IdleRollups = {"phase", "next", "end", "hourly"}
      /\ IdleRollups.phase = "idle" /\ IdleRollups.next \in Int /\ IdleRollups.end \in Int
      /\ DOMAIN IdleRollups.hourly = {}
  BY DEF IdleRollups
<1>2. Buckets \subseteq Int /\ DOMAIN rollup = Buckets /\ RollupOf(raw) \in [Buckets -> Counter]
      /\ DOMAIN <<>> = {}
  <2>1. Bucket(0) \in Nat
    BY BucketsAreOrdered
  <2>2. IsFiniteSet(raw)
    BY FS_Subset DEF Typed
  <2>3. DOMAIN <<>> = {}
    OBVIOUS
  <2> QED  BY <2>1, <2>2, <2>3, RollupOfType DEF Typed, Buckets
<1>3. CASE \E first, end \in DOMAIN rollup : first < end /\ StartRollups(first, end)
  <2>1. PICK first \in DOMAIN rollup, end \in DOMAIN rollup : StartRollups(first, end)
    BY <1>3
  <2>2. /\ UNCHANGED <<raw, recent, cleaner, derived, rollup>>
        /\ runs' = [runs EXCEPT !.rollups = @ + 1] /\ runs.rollups < MaxRollups
        /\ rollups'.phase = "read" /\ rollups'.next = first /\ rollups'.end = end
        /\ DOMAIN rollups' = DOMAIN IdleRollups /\ rollups'.hourly = IdleRollups.hourly
    BY <2>1 DEF StartRollups, IdleRollups, probeTables
  <2>3. runs' \in [cleanups : 0..MaxCleanups, derived : 0..MaxDerived, rollups : 0..MaxRollups]
    BY <2>2, ResultsAssumption DEF Typed
  <2> QED  BY <1>1, <1>2, <2>2, <2>3 DEF Typed
<1>4. CASE ReadChunk
  <2> DEFINE chunk == {b \in rollups.next..(rollups.end - 1) : b < rollups.next + ChunkHours}
             found == {b \in chunk : \E r \in raw : Bucket(r.at) = b}
  <2>1. found \subseteq Buckets
    <3>1. \A r \in raw : Bucket(r.at) \in Buckets
      BY BucketOfTime DEF Typed, TimeInv, Result
    <3> QED  BY <3>1
  <2>2. /\ UNCHANGED <<raw, recent, cleaner, derived, rollup, runs>>
        /\ rollups'.phase = "write" /\ rollups'.next = rollups.next /\ rollups'.end = rollups.end
        /\ DOMAIN rollups' = DOMAIN rollups
        /\ rollups'.hourly = [b \in found |-> RollupOf(raw)[b]]
    BY <1>4 DEF ReadChunk, TypedJobs, probeTables
  <2> HIDE DEF found
  <2>3. \A b \in DOMAIN rollups'.hourly : b \in Buckets /\ rollups'.hourly[b] \in Counter
    BY <1>2, <2>1, <2>2
  <2> QED  BY <2>2, <2>3 DEF Typed, TypedJobs
<1>5. CASE WriteChunk
  <2>1. /\ UNCHANGED <<raw, recent, cleaner, derived, runs>>
        /\ rollup' = replacedRollup(rollups.hourly)
        /\ rollups' \in {IdleRollups, [rollups EXCEPT !.phase = "read",
                           !.next = rollups.next + ChunkHours, !.hourly = <<>>]}
    BY <1>5 DEF WriteChunk
  <2>2. rollup' \in [Buckets -> Counter]
    BY <1>2, <2>1 DEF replacedRollup, Typed, TypedJobs
  <2>3. rollups.next + ChunkHours \in Int
    BY ResultsAssumption DEF TypedJobs
  <2>4. CASE rollups' = IdleRollups
    BY <1>1, <2>1, <2>2, <2>4 DEF Typed
  <2>5. CASE rollups' = [rollups EXCEPT !.phase = "read",
                           !.next = rollups.next + ChunkHours, !.hourly = <<>>]
    <3>1. /\ rollups'.phase = "read" /\ rollups'.next = rollups.next + ChunkHours
          /\ rollups'.end = rollups.end /\ rollups'.hourly = <<>>
          /\ DOMAIN rollups' = DOMAIN rollups
      BY <2>5 DEF TypedJobs
    <3> QED  BY <1>2, <2>1, <2>2, <2>3, <3>1 DEF Typed, TypedJobs
  <2> QED  BY <2>1, <2>4, <2>5
<1>6. CASE RollupsFail
  BY <1>1, <1>6 DEF RollupsFail, Typed, TypedJobs, probeTables
<1> QED  BY <1>3, <1>4, <1>5, <1>6 DEF BackfillProbeHourlyRollups

\* After a batch the cleaner goes on with the time it read.
LEMMA BatchesType ==
  ASSUME cleaner \in CleanerRecord
  PROVE  /\ AfterBatches \in CleanerRecord /\ AfterBatches.at \in {cleaner.at, 0}
         /\ [cleaner EXCEPT !.batches = @ + 1] \in CleanerRecord
         /\ [cleaner EXCEPT !.batches = @ + 1].at = cleaner.at
<1> DEFINE failing == [cleaner EXCEPT !.phase = "failure"]
<1>1. failing \in CleanerRecord /\ failing.at = cleaner.at
  BY DEF CleanerRecord
<1>2. \A c \in CleanerRecord, n \in Int :
        LET d == [c EXCEPT !.batches = n] IN d \in CleanerRecord /\ d.at = c.at
  BY DEF CleanerRecord
<1>3. cleaner.batches + 1 \in Int
  BY DEF CleanerRecord
<1>4. [cleaner EXCEPT !.phase = "failure", !.batches = 0] = [failing EXCEPT !.batches = 0]
  BY DEF CleanerRecord
<1>5. IdleCleaner \in CleanerRecord /\ IdleCleaner.at = 0
  BY DEF IdleCleaner, CleanerRecord
<1>6. 0 \in Int
  OBVIOUS
<1>7. [failing EXCEPT !.batches = 0] \in CleanerRecord
      /\ [failing EXCEPT !.batches = 0].at = failing.at
  BY <1>1, <1>2, <1>6
<1> HIDE DEF failing
<1>8. AfterBatches \in {[failing EXCEPT !.batches = 0], IdleCleaner}
  BY <1>4 DEF AfterBatches
<1> QED  BY <1>1, <1>2, <1>3, <1>5, <1>7, <1>8

\* The cleaner keeps its types.
LEMMA CleanupTypes ==
  ASSUME Typed, TypedJobs, Cleanup
  PROVE  /\ UNCHANGED <<recent, rollup, derived, rollups>> /\ raw' \subseteq raw
         /\ cleaner' \in CleanerRecord
         /\ runs' \in [cleanups : 0..MaxCleanups, derived : 0..MaxDerived, rollups : 0..MaxRollups]
<1>1. IdleCleaner \in CleanerRecord
  BY DEF IdleCleaner, CleanerRecord
<1>2. CASE StartCleanup
  <2>1. /\ runs.cleanups < MaxCleanups /\ runs' = [runs EXCEPT !.cleanups = @ + 1]
        /\ cleaner' = [phase |-> "success", at |-> now, batches |-> 0]
        /\ UNCHANGED <<recent, rollup, derived, rollups, raw>>
    BY <1>2 DEF StartCleanup, probeTables
  <2>2. runs' \in [cleanups : 0..MaxCleanups, derived : 0..MaxDerived, rollups : 0..MaxRollups]
    BY <2>1, ResultsAssumption DEF Typed
  <2> QED  BY <2>1, <2>2 DEF Typed, CleanerRecord
<1>3. CASE DeleteExpiredBatch
  <2>1. /\ cleaner' \in {AfterBatches, [cleaner EXCEPT !.batches = @ + 1]}
        /\ UNCHANGED <<recent, rollup, derived, rollups, runs>> /\ raw' \subseteq raw
    BY <1>3 DEF DeleteExpiredBatch
  <2> QED  BY <1>1, <2>1, BatchesType DEF Typed, TypedJobs
<1>4. CASE CleanupFails
  BY <1>1, <1>4 DEF CleanupFails, Typed, probeTables
<1> QED  BY <1>2, <1>3, <1>4 DEF Cleanup

\* Every step keeps the types.
LEMMA NextTypes ==
  ASSUME BaseInv, Next
  PROVE  Typed' /\ TypedJobs'
<1>1. Typed /\ TypedJobs
  BY DEF BaseInv
<1>2. CASE Tick
  BY <1>1, <1>2 DEF Tick, Typed, TypedJobs, leaseVars, probeTables, jobs
<1>3. ASSUME NEW w \in Worker, Probe(w)  PROVE Typed' /\ TypedJobs'
  BY <1>1, <1>3, ProbeTypes, ProbesLeaveJobs DEF TypedJobs
<1>4. CASE Jobs
  <2>1. UNCHANGED <<now, lease, locked, issued, work, hist, rollout>>
    BY <1>4, JobsLeaveProbes
  <2>2. CASE Cleanup
    BY <1>1, <2>1, <2>2, CleanupTypes DEF Typed, TypedJobs
  <2>3. CASE BackfillProbeDerived
    BY <1>1, <2>1, <2>3, DerivedTypes DEF Typed, TypedJobs
  <2>4. CASE BackfillProbeHourlyRollups
    BY <1>1, <2>1, <2>4, RollupsTypes DEF BaseInv, Typed, TypedJobs
  <2> QED  BY <1>4, <2>2, <2>3, <2>4 DEF Jobs
<1> QED  BY <1>2, <1>3, <1>4, StepCases

\* A probe worker's step keeps tokens apart.
LEMMA TokensKept ==
  ASSUME BaseInv, NEW w \in Worker, Probe(w)
  PROVE  TokenInv'
<1>1. work \in [Worker -> WorkRecord] /\ TokenInv /\ issued \in Nat /\ lease.token \in Nat
  BY ResultsAssumption DEF BaseInv, Typed
<1>2. CASE ClaimDueProbeConfig(w)
  <2>1. /\ issued' = issued + 1 /\ lease'.token = issued + 1
        /\ work' = [work EXCEPT ![w] = [IdleWork EXCEPT !.phase = "probe", !.token = issued + 1]]
    BY <1>2 DEF ClaimDueProbeConfig
  <2>2. /\ work'[w].phase = "probe" /\ work'[w].token = issued + 1
        /\ \A v \in Worker \ {w} : work'[v] = work[v]
    BY <1>1, <2>1 DEF IdleWork
  <2> QED  BY <1>1, <2>1, <2>2 DEF TokenInv
<1>3. CASE FinishProbe(w) \/ BeginComplete(w) \/ CountRecent(w)
  <2>1. UNCHANGED <<issued, lease>> /\ work[w].phase # "idle" /\ work'[w].token = work[w].token
    BY <1>1, <1>3 DEF FinishProbe, BeginComplete, CountRecent, WorkRecord
  <2>2. \A v \in Worker \ {w} : work'[v] = work[v]
    BY <1>1, <1>3 DEF FinishProbe, BeginComplete, CountRecent
  <2> QED  BY <1>1, <2>1, <2>2 DEF TokenInv
<1>4. CASE CommitComplete(w) \/ LeaseNotFound(w) \/ GiveUp(w)
  <2>1. /\ work' = [work EXCEPT ![w] = IdleWork] /\ issued' = issued
        /\ lease'.token \in {lease.token, NoToken}
    BY <1>4 DEF CommitComplete, LeaseNotFound, GiveUp
  <2>2. work'[w].phase = "idle" /\ \A v \in Worker \ {w} : work'[v] = work[v]
    BY <1>1, <2>1, IdleWorkType
  <2> QED  BY <1>1, <2>1, <2>2 DEF TokenInv, NoToken
<1> QED  BY <1>2, <1>3, <1>4 DEF Probe

\* A probe worker's step leaves at most one transaction on the row, with its lease.
LEMMA LockKept ==
  ASSUME BaseInv, NEW w \in Worker, Probe(w)
  PROVE  LockInv'
<1>1. /\ work \in [Worker -> WorkRecord] /\ LockInv /\ TokenInv
      /\ locked \in Worker \cup {NoOne} /\ NoOne \notin Worker
  BY ResultsAssumption DEF BaseInv, Typed
<1>2. CASE ClaimDueProbeConfig(w) \/ FinishProbe(w)
  <2>1. /\ locked' = locked /\ work[w].phase \in {"idle", "probe"}
        /\ work'[w].phase \in {"probe", "write"}
        /\ \A v \in Worker \ {w} : work'[v] = work[v]
    BY <1>1, <1>2 DEF ClaimDueProbeConfig, FinishProbe, IdleWork, WorkRecord
  <2>2. lease' = lease \/ locked = NoOne
    BY <1>2 DEF ClaimDueProbeConfig, FinishProbe
  <2> QED  BY <1>1, <2>1, <2>2 DEF LockInv
<1>3. CASE BeginComplete(w)
  <2>1. /\ locked = NoOne /\ locked' = w /\ lease' = lease /\ lease.token = work[w].token
        /\ work'[w].phase = "prune" /\ work'[w].token = work[w].token
        /\ \A v \in Worker \ {w} : work'[v] = work[v]
    BY <1>1, <1>3 DEF BeginComplete, LeaseHeld, WorkRecord
  <2> QED  BY <1>1, <2>1 DEF LockInv
<1>4. CASE CountRecent(w)
  <2>1. /\ UNCHANGED <<lease, locked>> /\ work[w].phase = "prune"
        /\ work'[w].phase = "commit" /\ work'[w].token = work[w].token
        /\ \A v \in Worker \ {w} : work'[v] = work[v]
    BY <1>1, <1>4 DEF CountRecent, WorkRecord
  <2> QED  BY <1>1, <2>1 DEF LockInv
<1>5. CASE CommitComplete(w) \/ LeaseNotFound(w) \/ GiveUp(w)
  <2>1. work' = [work EXCEPT ![w] = IdleWork]
    BY <1>5 DEF CommitComplete, LeaseNotFound, GiveUp
  <2>2. work'[w].phase = "idle" /\ \A v \in Worker \ {w} : work'[v] = work[v]
    BY <1>1, <2>1, IdleWorkType
  <2>3. \/ locked = w /\ locked' = NoOne
        \/ locked # w /\ UNCHANGED <<locked, lease>>
    BY <1>1, <1>5 DEF LockInv, CommitComplete, LeaseNotFound, GiveUp
  <2> QED  BY <1>1, <2>2, <2>3 DEF LockInv
<1> QED  BY <1>2, <1>3, <1>4, <1>5 DEF Probe

\* The result of an open transaction is newer than every recorded one.
LEMMA OpenIsNewest ==
  ASSUME BaseInv, NEW w \in Worker, work[w].phase \in {"prune", "commit"}
  PROVE  /\ locked = w /\ lease.token = work[w].token /\ work[w].at \in Nat
         /\ work[w].at < now /\ work[w].at <= MaxTime
         /\ \A r \in hist : r.at < work[w].at
BY DEF BaseInv, Typed, WorkRecord, LockInv, TimeInv

\* A probe worker's step keeps results apart in time, and the owner's the newest.
LEMMA TimesKept ==
  ASSUME BaseInv, NEW w \in Worker, Probe(w)
  PROVE  TimeInv'
<1>1. /\ work \in [Worker -> WorkRecord] /\ TimeInv /\ TokenInv /\ LockInv
      /\ now \in Nat /\ MaxTime \in Nat
      /\ \A r \in hist : r.at \in Nat
  BY ResultsAssumption DEF BaseInv, Typed, Result
<1>2. CASE ClaimDueProbeConfig(w)
  <2>1. /\ UNCHANGED <<now, hist>> /\ lease'.token = issued + 1
        /\ work'[w].phase = "probe"
        /\ \A v \in Worker \ {w} : work'[v] = work[v]
    BY <1>1, <1>2 DEF ClaimDueProbeConfig, probeTables, IdleWork
  <2>2. \A v \in Worker : work[v].phase # "idle" => work[v].token # issued + 1
    BY <1>1, ResultsAssumption DEF TokenInv, BaseInv, Typed
  <2> QED  BY <1>1, <2>1, <2>2 DEF TimeInv
<1>3. CASE FinishProbe(w)
  <2>1. /\ now' = now + 1 /\ hist' = hist /\ lease' = lease /\ now < MaxTime
        /\ work'[w].at = now
        /\ \A v \in Worker \ {w} : work'[v] = work[v]
    BY <1>1, <1>3 DEF FinishProbe, probeTables, WorkRecord
  <2>2. \A v \in Worker : work[v].at \in Nat
    BY <1>1 DEF WorkRecord
  <2> QED  BY <1>1, <2>1, <2>2 DEF TimeInv
<1>4. CASE BeginComplete(w) \/ CountRecent(w)
  <2>1. /\ UNCHANGED <<now, hist, lease>> /\ work[w].phase \in {"write", "prune"}
        /\ work'[w].at = work[w].at /\ work'[w].token = work[w].token
        /\ \A v \in Worker \ {w} : work'[v] = work[v]
    BY <1>1, <1>4 DEF BeginComplete, CountRecent, probeTables, WorkRecord
  <2> QED  BY <1>1, <2>1 DEF TimeInv
<1>5. CASE CommitComplete(w)
  <2> DEFINE r == [at |-> work[w].at, ok |-> work[w].ok]
  <2>1. /\ now' = now /\ hist' = hist \cup {r} /\ lease'.token = 0
        /\ work' = [work EXCEPT ![w] = IdleWork]
    BY <1>5 DEF CommitComplete, NoToken
  <2>2. work'[w].phase = "idle" /\ \A v \in Worker \ {w} : work'[v] = work[v]
    BY <1>1, <2>1, IdleWorkType
  <2>3. /\ r.at \in Nat /\ r.at < now /\ r.at <= MaxTime
        /\ \A q \in hist : q.at < r.at
    BY <1>5, OpenIsNewest DEF CommitComplete
  <2>4. \A v \in Worker : work[v].phase # "idle" => work[v].token # 0
    BY <1>1 DEF TokenInv
  <2> HIDE DEF r
  <2> QED  BY <1>1, <2>1, <2>2, <2>3, <2>4 DEF TimeInv
<1>6. CASE LeaseNotFound(w) \/ GiveUp(w)
  <2>1. UNCHANGED <<now, hist, lease>> /\ work' = [work EXCEPT ![w] = IdleWork]
    BY <1>6 DEF LeaseNotFound, GiveUp, probeTables
  <2>2. work'[w].phase = "idle" /\ \A v \in Worker \ {w} : work'[v] = work[v]
    BY <1>1, <2>1, IdleWorkType
  <2> QED  BY <1>1, <2>1, <2>2 DEF TimeInv
<1> QED  BY <1>2, <1>3, <1>4, <1>5, <1>6 DEF Probe

\* Every step keeps the jobs to their side of the rollout.
LEMMA RolloutKept ==
  ASSUME BaseInv, Next
  PROVE  RolloutInv'
<1>1. RolloutInv /\ Typed /\ TypedJobs
  BY DEF BaseInv
<1>2. CASE Tick
  BY <1>1, <1>2 DEF Tick, probeTables, jobs, RolloutInv, Typed, TypedJobs, CleanerRecord
<1>3. ASSUME NEW w \in Worker, Probe(w)  PROVE RolloutInv'
  <2>1. UNCHANGED <<cleaner, derived, rollups, rollout>>
    BY <1>3, ProbesLeaveJobs
  <2>2. now' \in {now, now + 1}
    BY <1>3 DEF Probe, ClaimDueProbeConfig, FinishProbe, BeginComplete, CountRecent,
      CommitComplete, LeaseNotFound, GiveUp
  <2>3. raw = hist => raw' = hist'
    BY <1>3 DEF Probe, ClaimDueProbeConfig, FinishProbe, BeginComplete, CountRecent,
      CommitComplete, LeaseNotFound, GiveUp, probeTables
  <2> QED  BY <1>1, <2>1, <2>2, <2>3 DEF RolloutInv, Typed, TypedJobs, CleanerRecord
<1>4. CASE Jobs
  <2>1. UNCHANGED <<now, hist, rollout>>
    BY <1>4, JobsLeaveProbes
  <2>2. CASE Cleanup
    <3>1. UNCHANGED <<derived, rollups>>
      BY <1>1, <2>2, CleanupTypes
    <3>2. ~rollout
      BY <1>1, <2>2 DEF Cleanup, StartCleanup, DeleteExpiredBatch, CleanupFails, RolloutInv
    <3>3. cleaner'.at \in {now, cleaner.at, 0}
      <4>1. CASE StartCleanup
        BY <4>1 DEF StartCleanup
      <4>2. CASE DeleteExpiredBatch
        <5>1. cleaner' \in {AfterBatches, [cleaner EXCEPT !.batches = @ + 1]}
          BY <4>2 DEF DeleteExpiredBatch
        <5>2. cleaner \in CleanerRecord
          BY <1>1 DEF TypedJobs
        <5> QED  BY <5>1, <5>2, BatchesType
      <4>3. CASE CleanupFails
        BY <4>3 DEF CleanupFails, IdleCleaner
      <4> QED  BY <2>2, <4>1, <4>2, <4>3 DEF Cleanup
    <3>4. cleaner.at \in Nat
      BY <1>1 DEF TypedJobs, CleanerRecord
    <3> QED  BY <1>1, <2>1, <3>1, <3>2, <3>3, <3>4 DEF RolloutInv, Typed
  <2>3. CASE BackfillProbeDerived
    <3>1. rollout
      BY <1>1, <2>3 DEF BackfillProbeDerived, StartDerived, InsertDerived, ReadDerived,
        WriteDerived, DerivedFails, RolloutInv
    <3> QED  BY <1>1, <2>1, <2>3, <3>1, DerivedTypes DEF RolloutInv
  <2>4. CASE BackfillProbeHourlyRollups
    <3>1. rollout
      BY <1>1, <2>4 DEF BackfillProbeHourlyRollups, StartRollups, ReadChunk, WriteChunk,
        RollupsFail, RolloutInv
    <3> QED  BY <1>1, <2>1, <2>4, <3>1, RollupsTypes DEF BaseInv, RolloutInv
  <2> QED  BY <1>4, <2>2, <2>3, <2>4 DEF Jobs
<1> QED  BY <1>2, <1>3, <1>4, StepCases

\* Every step keeps the base of the invariant.
LEMMA NextBase ==
  ASSUME BaseInv, [Next]_vars
  PROVE  BaseInv'
<1>1. CASE UNCHANGED vars
  BY <1>1 DEF vars, BaseInv, Typed, TypedJobs, TokenInv, LockInv, TimeInv, RolloutInv
<1>2. ASSUME Next  PROVE TokenInv' /\ LockInv' /\ TimeInv'
  <2>1. CASE Tick
    BY <2>1 DEF Tick, leaseVars, probeTables, BaseInv, Typed, WorkRecord, Result,
      TokenInv, LockInv, TimeInv
  <2>2. CASE \E w \in Worker : Probe(w)
    BY <2>2, TokensKept, LockKept, TimesKept
  <2>3. CASE Jobs
    BY <2>3, JobsLeaveProbes DEF BaseInv, TokenInv, LockInv, TimeInv
  <2> QED  BY <1>2, <2>1, <2>2, <2>3, StepCases
<1> QED  BY <1>1, <1>2, NextTypes, RolloutKept DEF BaseInv

LEMMA BaseHolds == Spec => []BaseInv
BY InitBase, NextBase, PTL DEF Spec

\* The types of the tables and of those who write them.
THEOREM ResultTypes == Spec => []TypeOK
<1>1. BaseInv => TypeOK
  <2> SUFFICES ASSUME BaseInv  PROVE TypeOK
    OBVIOUS
  <2>1. MaxClaims \in Nat
    BY ResultsAssumption
  <2>2. \A w \in Worker :
          /\ work[w].phase \in {"idle", "probe", "write", "prune", "commit"}
          /\ work[w].token \in 0..MaxClaims
          /\ work[w].pruned \subseteq Recent
          /\ locked = w <=> work[w].phase \in {"prune", "commit"}
    BY DEF BaseInv, Typed, WorkRecord, LockInv
  <2> QED  BY <2>1, <2>2 DEF BaseInv, Typed, TypedJobs, CleanerRecord, TypeOK, Buckets
<1> QED  BY <1>1, BaseHolds, PTL

-------------------------------------------------------------------------------
(* What a probe worker's step writes. *)

\* Only a commit writes the tables.
LEMMA ProbeWrites ==
  ASSUME NEW w \in Worker, Probe(w)
  PROVE  CommitComplete(w) \/ UNCHANGED <<raw, recent, state, rollup, hist, rollout>>
BY DEF Probe, ClaimDueProbeConfig, FinishProbe, BeginComplete, CountRecent, LeaseNotFound,
  GiveUp, probeTables

Own(w) == [at |-> work[w].at, ok |-> work[w].ok]

\* A commit adds a result that is newer than every recorded one.
LEMMA CommitAdds ==
  ASSUME BaseInv, NEW w \in Worker, CommitComplete(w)
  PROVE  /\ Own(w) \in Result /\ hist \in SUBSET Result /\ IsFiniteSet(hist)
         /\ raw' = raw \cup {Own(w)} /\ hist' = hist \cup {Own(w)}
         /\ \A r \in hist : r.at < Own(w).at
         /\ Own(w) \notin hist
         /\ Own(w).at <= MaxTime
         /\ UNCHANGED <<now, rollout, cleaner, derived, rollups, runs>>
<1>1. work[w].phase = "commit"
  BY DEF CommitComplete
<1>2. Own(w).at = work[w].at /\ Own(w) \in Result
  BY OwnRowType DEF Own, BaseInv
<1>3. \A r \in hist : r.at \in Nat /\ r.at < Own(w).at
  BY <1>1, <1>2, OpenIsNewest DEF BaseInv, Typed, Result
<1>4. Own(w) \notin hist
  BY <1>3
<1>5. /\ raw' = raw \cup {Own(w)} /\ hist' = hist \cup {Own(w)}
      /\ UNCHANGED <<now, rollout, cleaner, derived, rollups, runs>>
  BY DEF CommitComplete, Own, jobs
<1> QED  BY <1>1, <1>2, <1>3, <1>4, <1>5, OpenIsNewest DEF BaseInv, Typed

-------------------------------------------------------------------------------
(* The hourly rollups. *)

\* What a bucket's row says at most.
Within(row, counts) == row.total <= counts.total /\ row.failures <= counts.failures

\* A row never counts more than the history, nor does what the backfill has read and
\* is about to write; away from the rollout a row counts all of it.
RollupInv ==
  /\ ~rollout => rollup = RollupOf(hist)
  /\ \A b \in Buckets : Within(rollup[b], RollupOf(hist)[b])
  /\ rollups.phase = "write" =>
       \A b \in DOMAIN rollups.hourly : Within(rollups.hourly[b], RollupOf(hist)[b])

LEMMA InitRollup == ASSUME Init  PROVE RollupInv
<1>1. /\ rollup \in [Buckets -> Counter] /\ RollupOf(hist) \in [Buckets -> Counter]
      /\ IsFiniteSet(hist)
  BY InitBase, RollupOfType DEF BaseInv, Typed
<1>2. \A b \in Buckets : Within(RollupOf({})[b], RollupOf(hist)[b])
  BY <1>1, CountsAreMonotone DEF Within
<1>3. ~rollout => hist = {}
  BY DEF Init
<1> QED  BY <1>1, <1>2, <1>3 DEF Init, RollupInv, IdleRollups

\* The upsert of a commit counts the result where the history has it.
LEMMA CommitRollup ==
  ASSUME BaseInv, RollupInv, NEW w \in Worker, CommitComplete(w)
  PROVE  RollupInv'
<1> DEFINE x == Own(w)
<1>1. /\ x \in Result /\ hist \in SUBSET Result /\ IsFiniteSet(hist) /\ x \notin hist
      /\ hist' = hist \cup {x} /\ UNCHANGED <<rollout, rollups>>
  BY CommitAdds
<1>2. rollup' = upsertProbeHourlyRollup(x)
  BY DEF CommitComplete, Own
<1>3. PICK h0 \in [Buckets -> Counter] : h0 = RollupOf(hist)
  BY <1>1, RollupOfType
<1>4. PICK h1 \in [Buckets -> Counter] : h1 = RollupOf(hist')
  BY <1>1, RollupOfType, FS_AddElement
<1> HIDE DEF x
<1>5. \A b \in Buckets :
        h1[b] = IF Bucket(x.at) = b
                THEN [total |-> h0[b].total + 1,
                      failures |-> h0[b].failures + IF x.ok THEN 0 ELSE 1]
                ELSE h0[b]
  BY <1>1, <1>3, <1>4, RollupOfAdded
<1>6. rollup \in [Buckets -> Counter]
  BY DEF BaseInv, Typed
<1>7. \A b \in Buckets :
        rollup'[b] = IF Bucket(x.at) = b
                     THEN [total |-> rollup[b].total + 1,
                           failures |-> rollup[b].failures + IF x.ok THEN 0 ELSE 1]
                     ELSE rollup[b]
  BY <1>2, <1>6 DEF upsertProbeHourlyRollup
<1>8. rollup' \in [Buckets -> Counter]
  BY ProbeTypes DEF Probe, Typed
<1>9. \A b \in Buckets : /\ h0[b].total \in Nat /\ h0[b].failures \in Nat
                         /\ rollup[b].total \in Nat /\ rollup[b].failures \in Nat
  BY <1>6 DEF Counter
<1>10. ~rollout' => rollup' = h1
  <2> SUFFICES ASSUME ~rollout  PROVE rollup' = h1
    BY <1>1
  <2>1. rollup = h0
    BY <1>3 DEF RollupInv
  <2> QED  BY <2>1, <1>5, <1>7, <1>8
<1>11. \A b \in Buckets : Within(rollup'[b], h1[b])
  <2> SUFFICES ASSUME NEW b \in Buckets  PROVE Within(rollup'[b], h1[b])
    OBVIOUS
  <2>1. Within(rollup[b], h0[b])
    BY <1>3 DEF RollupInv
  <2>2. CASE Bucket(x.at) = b
    <3> DEFINE fails == IF x.ok THEN 0 ELSE 1
    <3>1. fails \in Nat
      OBVIOUS
    <3> HIDE DEF fails
    <3>2. /\ h1[b] = [total |-> h0[b].total + 1, failures |-> h0[b].failures + fails]
          /\ rollup'[b] = [total |-> rollup[b].total + 1, failures |-> rollup[b].failures + fails]
      BY <1>5, <1>7, <2>2 DEF fails
    <3>3. /\ h1[b].total = h0[b].total + 1 /\ h1[b].failures = h0[b].failures + fails
          /\ rollup'[b].total = rollup[b].total + 1
          /\ rollup'[b].failures = rollup[b].failures + fails
      BY <3>2
    <3> QED  BY <1>9, <2>1, <3>1, <3>3 DEF Within
  <2>3. CASE Bucket(x.at) # b
    BY <1>5, <1>7, <2>1, <2>3
  <2> QED  BY <2>2, <2>3
<1>12. rollups'.phase = "write" =>
         \A b \in DOMAIN rollups'.hourly : Within(rollups'.hourly[b], h1[b])
  <2> SUFFICES ASSUME rollups.phase = "write", NEW b \in DOMAIN rollups.hourly
               PROVE  Within(rollups.hourly[b], h1[b])
    BY <1>1
  <2>1. Within(rollups.hourly[b], h0[b])
    BY <1>3 DEF RollupInv
  <2>2. b \in Buckets /\ rollups.hourly[b].total \in Nat /\ rollups.hourly[b].failures \in Nat
    BY DEF BaseInv, TypedJobs, Counter
  <2> QED  BY <1>5, <1>9, <2>1, <2>2 DEF Within
<1> QED  BY <1>4, <1>10, <1>11, <1>12 DEF RollupInv

\* The backfill writes what the raw rows said, and they are part of the history.
LEMMA BackfillRollup ==
  ASSUME BaseInv, RollupInv, BackfillProbeHourlyRollups
  PROVE  RollupInv'
<1>1. UNCHANGED <<hist, rollout>> /\ rollout
  BY JobsLeaveProbes DEF Jobs, BaseInv, RolloutInv, BackfillProbeHourlyRollups, StartRollups,
    ReadChunk, WriteChunk, RollupsFail
<1>2. rollup \in [Buckets -> Counter]
  BY DEF BaseInv, Typed
<1>3. CASE \E first, end \in DOMAIN rollup : first < end /\ StartRollups(first, end)
  BY <1>1, <1>3 DEF StartRollups, probeTables, IdleRollups, RollupInv
<1>4. CASE ReadChunk
  <2>1. IsFiniteSet(hist) /\ raw \in SUBSET hist
    BY DEF BaseInv, Typed
  <2>2. /\ rollup' = rollup
        /\ \A b \in DOMAIN rollups'.hourly : rollups'.hourly[b] = RollupOf(raw)[b]
    BY <1>4 DEF ReadChunk, probeTables, BaseInv, TypedJobs
  <2>3. \A b \in DOMAIN rollups'.hourly : b \in Buckets
    BY RollupsTypes DEF BaseInv
  <2>4. \A b \in DOMAIN rollups'.hourly : Within(rollups'.hourly[b], RollupOf(hist)[b])
    BY <2>1, <2>2, <2>3, CountsAreMonotone DEF Within
  <2> QED  BY <1>1, <2>2, <2>4 DEF RollupInv
<1>5. CASE WriteChunk
  <2>1. /\ rollup' = replacedRollup(rollups.hourly) /\ rollups'.phase # "write"
        /\ rollups.phase = "write"
    BY <1>5 DEF WriteChunk, IdleRollups, BaseInv, TypedJobs
  <2>2. \A b \in Buckets : Within(rollup'[b], RollupOf(hist)[b])
    BY <1>2, <2>1 DEF replacedRollup, RollupInv
  <2> QED  BY <1>1, <2>1, <2>2 DEF RollupInv
<1>6. CASE RollupsFail
  BY <1>1, <1>6 DEF RollupsFail, probeTables, IdleRollups, RollupInv
<1> QED  BY <1>3, <1>4, <1>5, <1>6 DEF BackfillProbeHourlyRollups

LEMMA NextRollup ==
  ASSUME BaseInv, RollupInv, [Next]_vars
  PROVE  RollupInv'
<1>1. CASE UNCHANGED <<rollup, hist, rollout, rollups>>
  BY <1>1 DEF RollupInv
<1>2. CASE UNCHANGED vars \/ Tick
  BY <1>1, <1>2 DEF vars, Tick, probeTables, jobs
<1>3. ASSUME NEW w \in Worker, Probe(w)  PROVE RollupInv'
  BY <1>1, <1>3, ProbeWrites, ProbesLeaveJobs, CommitRollup
<1>4. CASE Cleanup
  BY <1>1, <1>4, CleanupTypes, JobsLeaveProbes DEF Jobs, BaseInv
<1>5. CASE BackfillProbeDerived
  BY <1>1, <1>5, DerivedTypes, JobsLeaveProbes DEF Jobs, BaseInv
<1> QED  BY <1>2, <1>3, <1>4, <1>5, BackfillRollup, StepCases DEF Jobs

LEMMA RollupHolds == Spec => []RollupInv
<1>1. Init => RollupInv
  BY InitRollup
<1>2. BaseInv /\ RollupInv /\ [Next]_vars => RollupInv'
  BY NextRollup
<1> QED  BY <1>1, <1>2, BaseHolds, PTL DEF Spec

\* The hourly rollups count every result of the history once, whatever workers,
\* expired leases and rollbacks do and however long the raw rows are kept.
THEOREM RollupsCountAll == Spec => []RollupMatchesHistory
<1>1. RollupInv => RollupMatchesHistory
  BY DEF RollupInv, RollupMatchesHistory
<1> QED  BY <1>1, RollupHolds, PTL

\* Running the rollup backfill again, or against completions, counts nothing twice.
THEOREM RollupsNeverOvercount == Spec => []RollupNeverOvercounts
<1>1. BaseInv /\ RollupInv => RollupNeverOvercounts
  BY DEF RollupInv, BaseInv, Typed, Within, RollupNeverOvercounts
<1> QED  BY <1>1, BaseHolds, RollupHolds, PTL

-------------------------------------------------------------------------------
(* The raw rows. *)

LEMMA NextRetained ==
  ASSUME BaseInv, RetainedRawKept, [Next]_vars
  PROVE  RetainedRawKept'
<1>1. /\ now \in Nat /\ raw \subseteq hist /\ \A r \in hist : r.at \in Nat
      /\ \A ok \in BOOLEAN : Retention(ok) \in Nat
      /\ \A r \in hist : r.ok \in BOOLEAN
  BY ResultsAssumption DEF BaseInv, Typed, Result, Retention
<1>2. CASE UNCHANGED <<hist, raw>> /\ now' \in {now, now + 1}
  BY <1>1, <1>2 DEF RetainedRawKept, Retention
<1>3. CASE UNCHANGED vars \/ Tick
  BY <1>2, <1>3 DEF vars, Tick, probeTables
<1>4. ASSUME NEW w \in Worker, Probe(w)  PROVE RetainedRawKept'
  <2>1. now' \in {now, now + 1}
    BY <1>4 DEF Probe, ClaimDueProbeConfig, FinishProbe, BeginComplete, CountRecent,
      CommitComplete, LeaseNotFound, GiveUp
  <2>2. CASE CommitComplete(w)
    <3>1. raw' = raw \cup {Own(w)} /\ hist' = hist \cup {Own(w)} /\ now' = now
      BY <2>2, CommitAdds
    <3> QED  BY <3>1 DEF RetainedRawKept, Retention
  <2> QED  BY <1>2, <1>4, <2>1, <2>2, ProbeWrites
<1>5. CASE Jobs
  <2>1. UNCHANGED <<now, hist>>
    BY <1>5, JobsLeaveProbes
  <2>2. CASE raw' = raw
    BY <1>2, <2>1, <2>2
  <2>3. CASE DeleteExpiredBatch
    <3>1. \A r \in raw : r \notin raw' =>
            \E ok \in BOOLEAN : r.ok = ok /\ r.at < cleaner.at - Retention(ok)
      BY <2>3 DEF DeleteExpiredBatch, Expired
    <3>2. cleaner.at \in Nat /\ cleaner.at <= now
      BY DEF BaseInv, TypedJobs, RolloutInv, CleanerRecord
    <3>3. \A r \in raw : r \notin raw' => ~(r.at >= now - Retention(r.ok))
      BY <1>1, <3>1, <3>2
    <3> QED  BY <2>1, <3>3 DEF RetainedRawKept, Retention
  <2>4. CASE Cleanup
    BY <2>2, <2>3, <2>4 DEF Cleanup, StartCleanup, CleanupFails, probeTables
  <2> QED  BY <1>5, <2>2, <2>4, DerivedTypes, RollupsTypes DEF Jobs, BaseInv
<1> QED  BY <1>3, <1>4, <1>5, StepCases

\* The cleaner takes no raw row that its retention still covers.
THEOREM CleanerSparesRetained == Spec => []RetainedRawKept
<1>1. Init => RetainedRawKept
  BY DEF Init, RetainedRawKept
<1>2. BaseInv /\ RetainedRawKept /\ [Next]_vars => RetainedRawKept'
  BY NextRetained
<1> QED  BY <1>1, <1>2, BaseHolds, PTL DEF Spec

-------------------------------------------------------------------------------
(* The last result of the service. *)

\* In the rollout the history holds the legacy results.  From the first completion
\* on, the state row has the newest time, and what the backfill has read and is
\* about to write is no newer.
LastInv ==
  /\ rollout => Legacy \subseteq hist
  /\ "lastAt" \in DOMAIN state
  /\ LastResultIsNewest
  /\ derived.phase = "write" /\ derived.excluded # NoState =>
       /\ "lastAt" \in DOMAIN derived.excluded
       /\ derived.excluded.lastAt \in Nat /\ derived.excluded.lastAt <= LatestTime(hist)

LEMMA InitLast == ASSUME Init  PROVE LastInv
<1>1. rollout => hist = Legacy
  BY DEF Init
<1> QED  BY <1>1 DEF Init, LastInv, LastResultIsNewest, NoState, IdleDerived

\* The state row after a commit has the commit's time.
LEMMA CommitLast ==
  ASSUME BaseInv, LastInv, NEW w \in Worker, CommitComplete(w)
  PROVE  LastInv'
<1> DEFINE x == Own(w)
<1>1. /\ x \in Result /\ hist \in SUBSET Result /\ IsFiniteSet(hist)
      /\ hist' = hist \cup {x} /\ \A r \in hist : r.at < x.at
      /\ UNCHANGED <<rollout, derived>>
  BY CommitAdds
<1>2. state'.lastAt = x.at /\ "lastAt" \in DOMAIN state'
  BY DEF CommitComplete, Own, upsertServiceProbeState
<1> HIDE DEF x
<1>3. LatestTime(hist') = x.at
  BY <1>1, LatestTimeOfNewest
<1>4. derived.phase = "write" /\ derived.excluded # NoState =>
        /\ "lastAt" \in DOMAIN derived.excluded
        /\ derived.excluded.lastAt \in Nat /\ derived.excluded.lastAt <= x.at
  <2> SUFFICES ASSUME derived.phase = "write", derived.excluded # NoState
               PROVE  /\ "lastAt" \in DOMAIN derived.excluded
                      /\ derived.excluded.lastAt \in Nat /\ derived.excluded.lastAt <= x.at
    OBVIOUS
  <2>1. /\ "lastAt" \in DOMAIN derived.excluded
        /\ derived.excluded.lastAt \in Nat /\ derived.excluded.lastAt <= LatestTime(hist)
    BY DEF LastInv
  <2>2. LatestTime(hist) <= x.at
    <3>1. x.at \in Nat
      BY <1>1 DEF Result
    <3>2. CASE hist = {}
      BY <1>1, <3>1, <3>2, LatestTimeFact DEF NoTime
    <3>3. CASE hist # {}
      <4>1. PICK r \in hist : r.at = LatestTime(hist)
        BY <1>1, <3>3, LatestTimeFact
      <4> QED  BY <1>1, <3>1, <4>1 DEF Result
    <3> QED  BY <3>2, <3>3
  <2>3. LatestTime(hist) \in Int /\ x.at \in Int
    BY <1>1, LatestTimeFact DEF NoTime, Result
  <2> QED  BY <2>1, <2>2, <2>3
<1>5. LastResultIsNewest'
  BY <1>2, <1>3 DEF LastResultIsNewest
<1>6. rollout' => Legacy \subseteq hist'
  BY <1>1 DEF LastInv
<1>7. derived'.phase = "write" /\ derived'.excluded # NoState =>
        /\ "lastAt" \in DOMAIN derived'.excluded
        /\ derived'.excluded.lastAt \in Nat /\ derived'.excluded.lastAt <= LatestTime(hist')
  BY <1>1, <1>3, <1>4
<1> QED  BY <1>2, <1>5, <1>6, <1>7 DEF LastInv

\* The backfill reads a part of the history, and gives way to a newer last result.
LEMMA DerivedLast ==
  ASSUME BaseInv, LastInv, BackfillProbeDerived
  PROVE  LastInv'
<1>1. UNCHANGED <<hist, rollout>> /\ hist \in SUBSET Result /\ IsFiniteSet(hist)
  BY JobsLeaveProbes DEF Jobs, BaseInv, Typed
<1>2. CASE state' = state /\ derived'.phase # "write"
  BY <1>1, <1>2 DEF LastInv, LastResultIsNewest
<1>3. CASE (\E cutoff \in Cutoffs : StartDerived(cutoff)) \/ InsertDerived \/ DerivedFails
  <2>1. state' = state
    BY <1>3 DEF StartDerived, InsertDerived, DerivedFails, probeTables
  <2>2. CASE \E cutoff \in Cutoffs : StartDerived(cutoff)
    BY <1>2, <2>1, <2>2 DEF StartDerived, IdleDerived
  <2>3. CASE InsertDerived
    BY <1>2, <2>1, <2>3 DEF InsertDerived, BaseInv, TypedJobs
  <2>4. CASE DerivedFails
    BY <1>2, <2>1, <2>4 DEF DerivedFails, IdleDerived
  <2> QED  BY <1>3, <2>2, <2>3, <2>4
<1>4. CASE ReadDerived
  <2> DEFINE results == RawBefore(derived.cutoff)
  <2>1. state' = state
    BY <1>4 DEF ReadDerived, probeTables
  <2>2. derived'.excluded # NoState =>
          /\ results # {} /\ derived'.excluded.lastAt = LatestTime(results)
          /\ "lastAt" \in DOMAIN derived'.excluded
    BY <1>4 DEF ReadDerived, StateOf, BaseInv, TypedJobs
  <2>3. results # {} => LatestTime(results) \in Nat /\ LatestTime(results) <= LatestTime(hist)
    <3>1. results \in SUBSET hist /\ results \in SUBSET Result /\ IsFiniteSet(results)
      BY RawBeforeType DEF BaseInv
    <3> HIDE DEF results
    <3>2. SUFFICES ASSUME results # {}
          PROVE  LatestTime(results) \in Nat /\ LatestTime(results) <= LatestTime(hist)
      OBVIOUS
    <3>3. PICK r \in results : r.at = LatestTime(results)
      BY <3>1, <3>2, LatestTimeFact
    <3> QED  BY <1>1, <3>1, <3>2, <3>3, LatestTimeFact
  <2> QED  BY <1>1, <2>1, <2>2, <2>3 DEF LastInv, LastResultIsNewest
<1>5. CASE WriteDerived
  <2>1. /\ state' = upsertDerivedState(derived.excluded) /\ derived'.phase # "write"
        /\ derived.phase = "write"
    BY <1>5 DEF WriteDerived, IdleDerived
  <2> DEFINE new == derived.excluded
  <2>2. CASE state' = state
    BY <1>2, <2>1, <2>2
  <2>3. CASE state' = new /\ new # NoState /\ (state = NoState \/ state.lastAt <= new.lastAt)
    <3>1. "lastAt" \in DOMAIN new /\ new.lastAt \in Nat /\ new.lastAt <= LatestTime(hist)
      BY <2>1, <2>3 DEF LastInv
    <3>2. ASSUME rollout, hist # Legacy  PROVE new.lastAt = LatestTime(hist)
      <4>1. hist # {} /\ LatestTime(hist) \in Nat
        BY <1>1, <3>2, LatestTimeFact DEF LastInv
      <4>2. state.lastAt = LatestTime(hist)
        BY <3>2 DEF LastInv, LastResultIsNewest
      <4>3. state # NoState
        BY <4>1, <4>2 DEF NoState, NoTime
      <4> QED  BY <2>3, <3>1, <4>1, <4>2, <4>3
    <3> QED  BY <1>1, <2>1, <2>3, <3>1, <3>2 DEF LastInv, LastResultIsNewest
  <2>4. CASE state' = [state EXCEPT !.recentCounts = new.recentCounts, !.windowAt = new.windowAt]
    <3>1. "lastAt" \in DOMAIN state' /\ state'.lastAt = state.lastAt
      BY <2>4 DEF LastInv
    <3> QED  BY <1>1, <2>1, <3>1 DEF LastInv, LastResultIsNewest
  <2> QED  BY <2>1, <2>2, <2>3, <2>4 DEF upsertDerivedState
<1> QED  BY <1>3, <1>4, <1>5 DEF BackfillProbeDerived

LEMMA NextLast ==
  ASSUME BaseInv, LastInv, [Next]_vars
  PROVE  LastInv'
<1>1. CASE UNCHANGED <<state, hist, rollout, derived>>
  BY <1>1 DEF LastInv, LastResultIsNewest
<1>2. CASE UNCHANGED vars \/ Tick
  BY <1>1, <1>2 DEF vars, Tick, probeTables, jobs
<1>3. ASSUME NEW w \in Worker, Probe(w)  PROVE LastInv'
  BY <1>1, <1>3, ProbeWrites, ProbesLeaveJobs, CommitLast
<1>4. CASE Cleanup
  BY <1>1, <1>4 DEF Cleanup, StartCleanup, DeleteExpiredBatch, CleanupFails, probeTables
<1>5. CASE BackfillProbeHourlyRollups
  BY <1>1, <1>5 DEF BackfillProbeHourlyRollups, StartRollups, ReadChunk, WriteChunk, RollupsFail,
    probeTables
<1> QED  BY <1>2, <1>3, <1>4, <1>5, DerivedLast, StepCases DEF Jobs

\* A live result is never hidden: whatever the backfill read, and whenever, from the
\* first completion of the rollout on the state row's last result is the newest one.
THEOREM BackfillHidesNoResult == Spec => []LastResultIsNewest
<1>1. Init => LastInv
  BY InitLast
<1>2. BaseInv /\ LastInv /\ [Next]_vars => LastInv'
  BY NextLast
<1>3. LastInv => LastResultIsNewest
  BY DEF LastInv
<1> QED  BY <1>1, <1>2, <1>3, BaseHolds, PTL DEF Spec

-------------------------------------------------------------------------------
(* The latest of a set of results. *)

\* A part of a set that holds all that is newer than its own, and the latest of the
\* set, has the same latest ones.
LEMMA LatestOfPart ==
  ASSUME NEW S, IsFiniteSet(S), NEW T \in SUBSET S, NEW n \in Nat,
         LatestResults(S, n) \subseteq T,
         \A q \in S, r \in T : q.at > r.at => q \in T
  PROVE  LatestResults(T, n) = LatestResults(S, n)
<1>1. \A r \in T : {q \in T : q.at > r.at} = {q \in S : q.at > r.at}
  OBVIOUS
<1> QED  BY <1>1 DEF LatestResults

\* What is newer than one of the latest is one of them.
LEMMA LatestIsOnTop ==
  ASSUME NEW S \in SUBSET Result, IsFiniteSet(S), NEW n \in Nat,
         NEW r \in LatestResults(S, n), NEW q \in S, q.at > r.at
  PROVE  q \in LatestResults(S, n)
<1> DEFINE newer(x) == {p \in S : p.at > x.at}
<1>1. r \in S /\ Cardinality(newer(r)) < n
  BY DEF LatestResults
<1>2. newer(q) \in SUBSET newer(r) /\ IsFiniteSet(newer(r)) /\ IsFiniteSet(newer(q))
  BY <1>1, FS_Subset DEF Result
<1> HIDE DEF newer
<1>3. Cardinality(newer(q)) <= Cardinality(newer(r))
  BY <1>2, FS_Subset
<1>4. Cardinality(newer(q)) \in Nat /\ Cardinality(newer(r)) \in Nat
  BY <1>2, FS_CardinalityType
<1>5. Cardinality(newer(q)) < n
  BY <1>1, <1>3, <1>4
<1> QED  BY <1>5 DEF LatestResults, newer

\* With more results, fewer of the old ones are among the latest.
LEMMA LatestShrinks ==
  ASSUME NEW S, IsFiniteSet(S), NEW T \in SUBSET S, NEW n \in Nat, NEW m \in Nat, n <= m
  PROVE  LatestResults(S, n) \cap T \subseteq LatestResults(T, m)
<1> SUFFICES ASSUME NEW r \in LatestResults(S, n), r \in T  PROVE r \in LatestResults(T, m)
  OBVIOUS
<1> DEFINE inS == {q \in S : q.at > r.at}
           inT == {q \in T : q.at > r.at}
<1>1. inT \in SUBSET inS /\ IsFiniteSet(inS) /\ IsFiniteSet(inT) /\ Cardinality(inS) < n
  BY FS_Subset DEF LatestResults
<1> HIDE DEF inS, inT
<1>2. /\ Cardinality(inT) <= Cardinality(inS)
      /\ Cardinality(inT) \in Nat /\ Cardinality(inS) \in Nat
  BY <1>1, FS_Subset, FS_CardinalityType
<1>3. Cardinality(inT) < m
  BY <1>1, <1>2
<1> QED  BY <1>3 DEF LatestResults, inT

\* The newest result is a latest one.
LEMMA NewestIsLatest ==
  ASSUME NEW S \in SUBSET Result, NEW x \in Result, \A r \in S : r.at < x.at,
         NEW n \in Nat \ {0}
  PROVE  x \in LatestResults(S \cup {x}, n)
<1>1. {q \in S \cup {x} : q.at > x.at} = {}
  BY DEF Result
<1> QED  BY <1>1, FS_EmptySet DEF LatestResults

\* Only the latest results matter for the latest after another one.
LEMMA LatestWithNewest ==
  ASSUME NEW S \in SUBSET Result, IsFiniteSet(S), NEW x \in Result,
         \A r \in S : r.at < x.at, NEW m \in Nat, NEW n \in Nat, n <= m
  PROVE  LatestResults(LatestResults(S, m) \cup {x}, n) = LatestResults(S \cup {x}, n)
<1> DEFINE T == LatestResults(S, m) \cup {x}
<1>1. IsFiniteSet(S \cup {x}) /\ T \in SUBSET (S \cup {x})
  BY FS_AddElement DEF LatestResults
<1>2. LatestResults(S \cup {x}, n) \subseteq T
  <2>1. S \in SUBSET (S \cup {x}) /\ LatestResults(S \cup {x}, n) \subseteq S \cup {x}
    BY DEF LatestResults
  <2>2. LatestResults(S \cup {x}, n) \cap S \subseteq LatestResults(S, m)
    BY <1>1, <2>1, LatestShrinks
  <2> QED  BY <2>1, <2>2
<1>3. ASSUME NEW q \in S \cup {x}, NEW r \in T, q.at > r.at  PROVE q \in T
  <2>1. CASE q = x
    BY <2>1
  <2>2. CASE q # x
    <3>1. q \in S /\ r # x
      BY <1>3, <2>2 DEF Result
    <3> QED  BY <1>3, <3>1, LatestIsOnTop
  <2> QED  BY <2>1, <2>2
<1> HIDE DEF T
<1>4. LatestResults(T, n) = LatestResults(S \cup {x}, n)
  BY <1>1, <1>2, <1>3, LatestOfPart
<1> QED  BY <1>4 DEF T

\* The latest n of the latest m, n being no more than m.
LEMMA LatestOfLatest ==
  ASSUME NEW S \in SUBSET Result, IsFiniteSet(S), NEW m \in Nat, NEW n \in Nat, n <= m
  PROVE  LatestResults(LatestResults(S, m), n) = LatestResults(S, n)
<1> DEFINE T == LatestResults(S, m)
<1>1. T \in SUBSET S
  BY DEF LatestResults
<1>2. LatestResults(S, n) \subseteq T
  <2>1. LatestResults(S, n) \cap S \subseteq T
    BY LatestShrinks
  <2> QED  BY <2>1 DEF LatestResults
<1>3. \A q \in S, r \in T : q.at > r.at => q \in T
  BY LatestIsOnTop
<1> HIDE DEF T
<1>4. LatestResults(T, n) = LatestResults(S, n)
  BY <1>1, <1>2, <1>3, LatestOfPart
<1> QED  BY <1>4 DEF T

\* There are at most n latest results when no two have the same time.
LEMMA LatestAreFew ==
  ASSUME NEW S \in SUBSET Result, IsFiniteSet(S), NEW n \in Nat,
         \A r1, r2 \in S : r1.at = r2.at => r1 = r2
  PROVE  Cardinality(LatestResults(S, n)) <= n /\ IsFiniteSet(LatestResults(S, n))
<1> DEFINE newer(x) == {p \in S : p.at > x.at}
           L == LatestResults(S, n)
           rank == [r \in L |-> Cardinality(newer(r))]
<1>1. L \in SUBSET S /\ IsFiniteSet(L)
  BY FS_Subset DEF LatestResults
<1>2. \A r \in S : IsFiniteSet(newer(r)) /\ Cardinality(newer(r)) \in Nat
  BY FS_Subset, FS_CardinalityType
<1>3. \A r \in L : Cardinality(newer(r)) < n
  BY DEF LatestResults
<1>4. ASSUME NEW r1 \in S, NEW r2 \in S, r1.at > r2.at
      PROVE  Cardinality(newer(r1)) # Cardinality(newer(r2))
  <2>1. newer(r1) \in SUBSET newer(r2) /\ r1 \in newer(r2) /\ r1 \notin newer(r1)
    BY <1>4 DEF Result
  <2> HIDE DEF newer
  <2> QED  BY <1>2, <2>1, FS_Subset
<1>5. \A r1, r2 \in L : r1 # r2 => Cardinality(newer(r1)) # Cardinality(newer(r2))
  <2> SUFFICES ASSUME NEW r1 \in L, NEW r2 \in L, r1 # r2
               PROVE  Cardinality(newer(r1)) # Cardinality(newer(r2))
    OBVIOUS
  <2>1. r1.at > r2.at \/ r2.at > r1.at
    <3>1. r1.at # r2.at /\ r1.at \in Nat /\ r2.at \in Nat
      BY <1>1 DEF Result
    <3> QED  BY <3>1
  <2> QED  BY <1>1, <1>4, <2>1
<1> HIDE DEF newer, L
<1>6. rank \in Injection(L, 0..(n - 1))
  BY <1>1, <1>2, <1>3, <1>5 DEF Injection, IsInjective
<1> HIDE DEF rank
<1>7. IsFiniteSet(0..(n - 1)) /\ Cardinality(0..(n - 1)) = n
  BY FS_Interval
<1> QED  BY <1>1, <1>6, <1>7, FS_Injection DEF L

-------------------------------------------------------------------------------
(* Recent rows and the state row away from the rollout. *)

\* The row of a result that a completion recorded, and those of a set of them.
Row(r) == [at |-> r.at, ok |-> r.ok, from |-> Live]
Rows(S) == {Row(r) : r \in S}

\* What an open transaction prunes and counts is what its commit will need.
OpenInv(w) ==
  /\ work[w].phase \in {"prune", "commit"} =>
       (recent \ work[w].pruned) \cup {OwnRow(w)}
         = Rows(LatestResults(hist \cup {Own(w)}, RecentCap))
  /\ work[w].phase = "commit" =>
       work[w].counts = Counts(LatestResults(hist \cup {Own(w)}, RecentWindow))

\* The recent rows are those of the latest results, and the state row is the history's.
RecentInv ==
  ~rollout =>
    /\ recent = Rows(LatestResults(hist, RecentCap))
    /\ \A w \in Worker : OpenInv(w)
    /\ StateMatchesHistory

\* As many rows as results.
LEMMA RowsCount ==
  ASSUME NEW S \in SUBSET Result, IsFiniteSet(S)
  PROVE  IsFiniteSet(Rows(S)) /\ Cardinality(Rows(S)) = Cardinality(S)
<1> DEFINE f == [r \in S |-> Row(r)]
<1>1. \A r1, r2 \in S : Row(r1) = Row(r2) => r1 = r2
  <2> SUFFICES ASSUME NEW r1 \in S, NEW r2 \in S, Row(r1) = Row(r2)  PROVE r1 = r2
    OBVIOUS
  <2>1. r1 = [at |-> r1.at, ok |-> r1.ok] /\ r2 = [at |-> r2.at, ok |-> r2.ok]
    BY DEF Result
  <2>2. r1.at = Row(r1).at /\ r1.ok = Row(r1).ok /\ r2.at = Row(r2).at /\ r2.ok = Row(r2).ok
    BY DEF Row
  <2> QED  BY <2>1, <2>2
<1>2. f \in Bijection(S, Rows(S))
  BY <1>1 DEF Bijection, Injection, IsInjective, Surjection, Rows
<1>3. ExistsBijection(S, Rows(S))
  BY <1>2 DEF ExistsBijection
<1> QED  BY <1>3, FS_Bijection

\* Rows are ordered as their results are.
LEMMA LatestRows ==
  ASSUME NEW S \in SUBSET Result, IsFiniteSet(S), NEW n \in Nat
  PROVE  LatestRecent(Rows(S), n) = Rows(LatestResults(S, n))
<1>1. ASSUME NEW r \in S
      PROVE  Cardinality({q \in Rows(S) : Newer(q, Row(r))}) = Cardinality({q \in S : q.at > r.at})
  <2>1. \A q \in S : Newer(Row(q), Row(r)) <=> q.at > r.at
    BY DEF Newer, Row, Result, Live
  <2>2. {q \in Rows(S) : Newer(q, Row(r))} = Rows({q \in S : q.at > r.at})
    BY <2>1 DEF Rows
  <2>3. {q \in S : q.at > r.at} \in SUBSET Result /\ IsFiniteSet({q \in S : q.at > r.at})
    BY FS_Subset
  <2> QED  BY <2>2, <2>3, RowsCount
<1> QED  BY <1>1 DEF LatestRecent, LatestResults, Rows

\* Failed rows are those of failed results.
LEMMA FailedRows ==
  ASSUME NEW S \in SUBSET Result
  PROVE  Failures(Rows(S)) = Rows(Failures(S))
BY DEF Failures, Rows, Row

\* Counting the recent rows counts the results they stand for.
LEMMA CountRows ==
  ASSUME NEW S \in SUBSET Result, IsFiniteSet(S)
  PROVE  countRecentProbeResults(Rows(S)) = Counts(LatestResults(S, RecentWindow))
<1> DEFINE L == LatestResults(S, RecentWindow)
<1>1. RecentWindow \in Nat
  BY ResultsAssumption
<1>2. /\ L \in SUBSET Result /\ IsFiniteSet(L)
      /\ Failures(L) \in SUBSET Result /\ IsFiniteSet(Failures(L))
  BY FS_Subset DEF LatestResults, Failures
<1>3. LatestRecent(Rows(S), RecentWindow) = Rows(L)
  BY <1>1, LatestRows
<1> HIDE DEF L
<1>4. /\ Cardinality(Rows(L)) = Cardinality(L)
      /\ Cardinality(Failures(Rows(L))) = Cardinality(Failures(L))
  BY <1>2, RowsCount, FailedRows
<1>5. countRecentProbeResults(Rows(S)) = Counts(L)
  BY <1>3, <1>4 DEF countRecentProbeResults, Counts
<1> QED  BY <1>5 DEF L

\* Beginning to complete prunes down to the rows of the latest results.
LEMMA BeginRecent ==
  ASSUME BaseInv, NEW w \in Worker, BeginComplete(w),
         recent = Rows(LatestResults(hist, RecentCap))
  PROVE  (recent \ work'[w].pruned) \cup {OwnRow(w)}
           = Rows(LatestResults(hist \cup {Own(w)}, RecentCap))
<1> DEFINE x == Own(w)
           T == LatestResults(hist, RecentCap)
           view == recent \cup {OwnRow(w)}
           kept == LatestRecent(view, RecentCap)
<1>1. /\ x \in Result /\ hist \in SUBSET Result /\ IsFiniteSet(hist)
      /\ \A r \in hist : r.at < x.at
      /\ OwnRow(w) = Row(x) /\ RecentCap \in Nat \ {0}
  <2>1. \A r \in hist : r.at < work[w].at
    BY DEF BeginComplete, LeaseHeld, BaseInv, TimeInv
  <2>2. x \in Result /\ x.at = work[w].at /\ OwnRow(w) = Row(x)
    BY OwnRowType DEF BaseInv, Own, OwnRow, Row
  <2>3. RecentCap \in Nat \ {0}
    BY ResultsAssumption
  <2> QED  BY <2>1, <2>2, <2>3 DEF BaseInv, Typed
<1>2. /\ T \in SUBSET Result /\ IsFiniteSet(T)
      /\ T \cup {x} \in SUBSET Result /\ IsFiniteSet(T \cup {x})
  BY <1>1, FS_Subset, FS_AddElement DEF LatestResults
<1>3. view = Rows(T \cup {x})
  BY <1>1 DEF Rows
<1>4. work'[w].pruned = view \ kept
  BY DEF BeginComplete, BaseInv, Typed, WorkRecord
<1>5. kept = Rows(LatestResults(T \cup {x}, RecentCap))
  BY <1>1, <1>2, <1>3, LatestRows
<1>6. LatestResults(T \cup {x}, RecentCap) = LatestResults(hist \cup {x}, RecentCap)
  BY <1>1, LatestWithNewest
<1>7. OwnRow(w) \in kept /\ kept \subseteq view
  <2>1. x \in LatestResults(hist \cup {x}, RecentCap)
    BY <1>1, NewestIsLatest
  <2> QED  BY <1>1, <1>5, <1>6, <2>1 DEF Rows, LatestRecent
<1>8. (recent \ work'[w].pruned) \cup {OwnRow(w)} = kept
  BY <1>4, <1>7
<1> QED  BY <1>5, <1>6, <1>8

\* The state row after a commit is what the longer history says.
LEMMA CommitState ==
  ASSUME BaseInv, NEW w \in Worker, CommitComplete(w), ~rollout, StateMatchesHistory,
         work[w].counts = Counts(LatestResults(hist \cup {Own(w)}, RecentWindow))
  PROVE  StateMatchesHistory'
<1> DEFINE x == Own(w)
           new == hist \cup {x}
           goods(S) == {r \in S : r.ok}
<1>1. /\ x \in Result /\ hist \in SUBSET Result /\ IsFiniteSet(hist) /\ hist' = new
      /\ \A r \in hist : r.at < x.at
  BY CommitAdds
<1>2. LatestTime(new) = x.at
  BY <1>1, LatestTimeOfNewest
<1>3. (\E r \in new : r.ok /\ r.at = x.at) <=> x.ok
  BY <1>1 DEF Result
<1>4. LatestTime(goods(new)) = IF x.ok THEN x.at ELSE LatestTime(goods(hist))
  <2>1. goods(new) = IF x.ok THEN goods(hist) \cup {x} ELSE goods(hist)
    OBVIOUS
  <2>2. /\ goods(hist) \in SUBSET Result /\ IsFiniteSet(goods(hist))
        /\ \A r \in goods(hist) : r.at < x.at
    BY <1>1, FS_Subset
  <2> HIDE DEF goods, x
  <2> QED  BY <1>1, <2>1, <2>2, LatestTimeOfNewest
<1>5. LatestTime(Failures(new)) = IF x.ok THEN LatestTime(Failures(hist)) ELSE x.at
  <2>1. Failures(new) = IF x.ok THEN Failures(hist) ELSE Failures(hist) \cup {x}
    BY DEF Failures
  <2>2. /\ Failures(hist) \in SUBSET Result /\ IsFiniteSet(Failures(hist))
        /\ \A r \in Failures(hist) : r.at < x.at
    BY <1>1, FS_Subset DEF Failures
  <2> HIDE DEF x
  <2> QED  BY <1>1, <2>1, <2>2, LatestTimeOfNewest
<1>6. /\ LatestTime(goods(hist)) = IF state = NoState THEN NoTime ELSE state.successAt
      /\ LatestTime(Failures(hist)) = IF state = NoState THEN NoTime ELSE state.failureAt
  <2>1. CASE hist = {}
    <3>1. goods(hist) = {} /\ Failures(hist) = {} /\ state = NoState
      BY <2>1 DEF StateMatchesHistory, Failures
    <3> QED  BY <3>1 DEF LatestTime
  <2>2. CASE hist # {}
    <3>1. PICK latest : state = StateOf(hist, Counts(latest), LatestTime(hist))
      BY <2>2 DEF StateMatchesHistory
    <3>2. /\ state.lastAt = LatestTime(hist)
          /\ state.successAt = LatestTime(goods(hist))
          /\ state.failureAt = LatestTime(Failures(hist))
      BY <3>1 DEF StateOf
    <3>3. state # NoState
      <4>1. LatestTime(hist) \in Nat
        BY <1>1, <2>2, LatestTimeFact
      <4> QED  BY <3>2, <4>1 DEF NoState, NoTime
    <3> QED  BY <3>2, <3>3
  <2> QED  BY <2>1, <2>2
<1>7. state' = upsertServiceProbeState(x, work[w].counts)
  BY DEF CommitComplete, Own
<1>8. x.ok \in BOOLEAN
  BY <1>1 DEF Result
<1> HIDE DEF x
<1>9. state' = StateOf(new, work[w].counts, x.at)
  BY <1>2, <1>3, <1>4, <1>5, <1>6, <1>7, <1>8 DEF upsertServiceProbeState, StateOf
<1>10. new # {}
  OBVIOUS
<1>11. work[w].counts = Counts(LatestResults(new, RecentWindow))
  BY DEF x
<1> HIDE DEF new
<1> QED  BY <1>1, <1>2, <1>9, <1>10, <1>11 DEF StateMatchesHistory

\* A worker's step keeps recent rows and state row in step with the history.
LEMMA ProbeRecent ==
  ASSUME BaseInv, RecentInv, NEW w \in Worker, Probe(w), ~rollout
  PROVE  RecentInv'
<1>1. /\ recent = Rows(LatestResults(hist, RecentCap)) /\ StateMatchesHistory
      /\ \A v \in Worker : OpenInv(v)
      /\ work \in [Worker -> WorkRecord] /\ LockInv
  BY DEF RecentInv, BaseInv, Typed
<1>2. rollout' = rollout
  BY ProbesLeaveJobs
<1>3. ASSUME UNCHANGED <<recent, hist, state>>,
             \A v \in Worker \ {w} : work'[v] = work[v],
             OpenInv(w)'
      PROVE  RecentInv'
  <2>1. \A v \in Worker \ {w} : OpenInv(v)'
    BY <1>1, <1>3 DEF OpenInv, OwnRow, Own
  <2>2. StateMatchesHistory'
    BY <1>1, <1>2, <1>3 DEF StateMatchesHistory
  <2> QED  BY <1>1, <1>3, <2>1, <2>2 DEF RecentInv
<1>4. CASE ClaimDueProbeConfig(w) \/ FinishProbe(w) \/ LeaseNotFound(w) \/ GiveUp(w)
  <2>1. UNCHANGED <<recent, hist, state>> /\ \A v \in Worker \ {w} : work'[v] = work[v]
    BY <1>1, <1>4 DEF ClaimDueProbeConfig, FinishProbe, LeaseNotFound, GiveUp, probeTables
  <2>2. work'[w].phase \in {"probe", "write", "idle"}
    <3>1. CASE ClaimDueProbeConfig(w)
      BY <1>1, <3>1 DEF ClaimDueProbeConfig, IdleWork
    <3>2. CASE FinishProbe(w)
      BY <1>1, <3>2 DEF FinishProbe, WorkRecord
    <3>3. CASE LeaseNotFound(w) \/ GiveUp(w)
      BY <1>1, <3>3 DEF LeaseNotFound, GiveUp, IdleWork
    <3> QED  BY <1>4, <3>1, <3>2, <3>3
  <2> QED  BY <1>3, <2>1, <2>2 DEF OpenInv
<1>5. CASE BeginComplete(w)
  <2>1. UNCHANGED <<recent, hist, state>> /\ \A v \in Worker \ {w} : work'[v] = work[v]
    BY <1>1, <1>5 DEF BeginComplete, probeTables
  <2>2. /\ work'[w].phase = "prune"
        /\ work'[w].at = work[w].at /\ work'[w].ok = work[w].ok
    BY <1>1, <1>5 DEF BeginComplete, WorkRecord
  <2>3. OpenInv(w)'
    BY <1>1, <1>5, <2>1, <2>2, BeginRecent DEF OpenInv, OwnRow, Own
  <2> QED  BY <1>3, <2>1, <2>3
<1>6. CASE CountRecent(w)
  <2> DEFINE S == LatestResults(hist \cup {Own(w)}, RecentCap)
             counts == countRecentProbeResults((recent \ work[w].pruned) \cup {OwnRow(w)})
  <2>1. /\ UNCHANGED <<recent, hist, state>> /\ \A v \in Worker \ {w} : work'[v] = work[v]
        /\ work[w].phase = "prune"
    BY <1>1, <1>6 DEF CountRecent, probeTables
  <2>2. /\ work'[w].phase = "commit" /\ work'[w].pruned = work[w].pruned
        /\ work'[w].at = work[w].at /\ work'[w].ok = work[w].ok
        /\ work'[w].counts = counts
    BY <1>1, <1>6 DEF CountRecent, WorkRecord
  <2>3. (recent \ work[w].pruned) \cup {OwnRow(w)} = Rows(S)
    BY <1>1, <2>1 DEF OpenInv
  <2>4. /\ hist \cup {Own(w)} \in SUBSET Result /\ IsFiniteSet(hist \cup {Own(w)})
        /\ S \in SUBSET Result /\ IsFiniteSet(S)
        /\ RecentCap \in Nat /\ RecentWindow \in Nat /\ RecentWindow <= RecentCap
    <3>1. hist \cup {Own(w)} \in SUBSET Result /\ IsFiniteSet(hist \cup {Own(w)})
      BY OwnRowType, FS_AddElement DEF BaseInv, Typed, Own
    <3>2. S \in SUBSET (hist \cup {Own(w)})
      BY DEF LatestResults
    <3> HIDE DEF S
    <3>3. S \in SUBSET Result /\ IsFiniteSet(S)
      BY <3>1, <3>2, FS_Subset
    <3> QED  BY <3>1, <3>3, ResultsAssumption
  <2>5. counts = Counts(LatestResults(S, RecentWindow))
    <3> HIDE DEF S
    <3> QED  BY <2>3, <2>4, CountRows
  <2>6. LatestResults(S, RecentWindow) = LatestResults(hist \cup {Own(w)}, RecentWindow)
    BY <2>4, LatestOfLatest
  <2> HIDE DEF S, counts
  <2>7. OwnRow(w)' = OwnRow(w) /\ Own(w)' = Own(w)
    BY <2>2 DEF OwnRow, Own
  <2>8. OpenInv(w)'
    BY <2>1, <2>2, <2>3, <2>5, <2>6, <2>7 DEF OpenInv, S
  <2> QED  BY <1>3, <2>1, <2>8
<1>7. CASE CommitComplete(w)
  <2>1. /\ recent' = (recent \ work[w].pruned) \cup {OwnRow(w)}
        /\ work' = [work EXCEPT ![w] = IdleWork] /\ work[w].phase = "commit"
    BY <1>7 DEF CommitComplete
  <2>2. hist' = hist \cup {Own(w)}
    BY <1>7, CommitAdds
  <2>3. recent' = Rows(LatestResults(hist', RecentCap))
    BY <1>1, <2>1, <2>2 DEF OpenInv
  <2>4. \A v \in Worker : work'[v].phase \notin {"prune", "commit"}
    <3>1. work'[w].phase = "idle" /\ \A v \in Worker \ {w} : work'[v] = work[v]
      BY <1>1, <2>1, IdleWorkType
    <3> QED  BY <1>1, <2>1, <3>1 DEF LockInv
  <2>5. \A v \in Worker : OpenInv(v)'
    BY <2>4 DEF OpenInv
  <2>6. StateMatchesHistory'
    BY <1>1, <1>7, <2>1, CommitState DEF OpenInv
  <2> QED  BY <2>3, <2>5, <2>6 DEF RecentInv
<1> QED  BY <1>4, <1>5, <1>6, <1>7 DEF Probe

LEMMA NextRecent ==
  ASSUME BaseInv, RecentInv, [Next]_vars
  PROVE  RecentInv'
<1> SUFFICES ASSUME ~rollout'  PROVE RecentInv'
  BY DEF RecentInv
<1>1. CASE UNCHANGED <<recent, state, hist, rollout, work>>
  BY <1>1 DEF RecentInv, OpenInv, StateMatchesHistory, OwnRow, Own
<1>2. CASE UNCHANGED vars \/ Tick
  BY <1>1, <1>2 DEF vars, Tick, probeTables, leaseVars
<1>3. ASSUME NEW w \in Worker, Probe(w)  PROVE RecentInv'
  BY <1>3, ProbesLeaveJobs, ProbeRecent
<1>4. CASE Jobs
  <2>1. UNCHANGED <<hist, rollout, work>>
    BY <1>4, JobsLeaveProbes
  <2>2. Cleanup
    BY <1>4, <2>1 DEF Jobs, BaseInv, RolloutInv, BackfillProbeDerived, StartDerived, InsertDerived,
      ReadDerived, WriteDerived, DerivedFails, BackfillProbeHourlyRollups, StartRollups,
      ReadChunk, WriteChunk, RollupsFail
  <2>3. UNCHANGED <<recent, state>>
    BY <2>2 DEF Cleanup, StartCleanup, DeleteExpiredBatch, CleanupFails, probeTables
  <2> QED  BY <1>1, <2>1, <2>3
<1> QED  BY <1>2, <1>3, <1>4, StepCases

LEMMA InitRecent == ASSUME Init  PROVE RecentInv
<1> SUFFICES ASSUME ~rollout  PROVE RecentInv
  BY DEF RecentInv
<1>1. hist = {} /\ recent = {} /\ state = NoState /\ \A w \in Worker : work[w].phase = "idle"
  BY IdleWorkType DEF Init
<1>2. Rows(LatestResults({}, RecentCap)) = {}
  BY DEF Rows, LatestResults
<1> QED  BY <1>1, <1>2 DEF RecentInv, OpenInv, StateMatchesHistory

LEMMA RecentHolds == Spec => []RecentInv
<1>1. Init => RecentInv
  BY InitRecent
<1>2. BaseInv /\ RecentInv /\ [Next]_vars => RecentInv'
  BY NextRecent
<1> QED  BY <1>1, <1>2, BaseHolds, PTL DEF Spec

\* Whatever workers, expired leases, rollbacks and the cleaner do, the recent rows are
\* exactly the latest results ever recorded, and no more of them than the cap.
THEOREM RecentIsLatest == Spec => []RecentMatchesHistory
<1>1. BaseInv /\ RecentInv => RecentMatchesHistory
  <2> SUFFICES ASSUME BaseInv, RecentInv, ~rollout
               PROVE  /\ {[at |-> q.at, ok |-> q.ok] : q \in recent}
                           = LatestResults(hist, RecentCap)
                      /\ Cardinality(recent) <= RecentCap
    BY DEF RecentMatchesHistory
  <2> DEFINE L == LatestResults(hist, RecentCap)
  <2>1. recent = Rows(L)
    BY DEF RecentInv
  <2>2. /\ hist \in SUBSET Result /\ IsFiniteSet(hist) /\ RecentCap \in Nat
        /\ \A r1, r2 \in hist : r1.at = r2.at => r1 = r2
    BY ResultsAssumption DEF BaseInv, Typed, TimeInv
  <2>3. L \in SUBSET Result /\ IsFiniteSet(L) /\ Cardinality(L) <= RecentCap
    <3>1. L \in SUBSET hist
      BY DEF LatestResults
    <3> QED  BY <2>2, <3>1, LatestAreFew
  <2> HIDE DEF L
  <2>4. Cardinality(recent) <= RecentCap
    BY <2>1, <2>3, RowsCount
  <2>5. \A r \in L : [at |-> r.at, ok |-> r.ok] = r
    BY <2>3 DEF Result
  <2>6. {[at |-> q.at, ok |-> q.ok] : q \in Rows(L)} = L
    <3>1. \A r \in L : [at |-> Row(r).at, ok |-> Row(r).ok] = r
      BY <2>5 DEF Row
    <3> QED  BY <3>1 DEF Rows
  <2> QED  BY <2>1, <2>4, <2>6 DEF L
<1> QED  BY <1>1, BaseHolds, RecentHolds, PTL

\* The state row is what the history of results says, counters included, although each
\* completion overwrites it with no comparison of times.
THEOREM StateIsHistory == Spec => []StateMatchesHistory
<1>1. RecentInv => StateMatchesHistory
  BY DEF RecentInv, StateMatchesHistory
<1> QED  BY <1>1, RecentHolds, PTL

-------------------------------------------------------------------------------
(* The first k of a finite set, in a strict total order given as a set of pairs. *)

Ordered(S, R) ==
  /\ \A a \in S : <<a, a>> \notin R
  /\ \A a, b, c \in S : <<a, b>> \in R /\ <<b, c>> \in R => <<a, c>> \in R
  /\ \A a, b \in S : a = b \/ <<a, b>> \in R \/ <<b, a>> \in R

Above(S, R, x) == {y \in S : <<y, x>> \in R}
Top(S, R, k) == {x \in S : Cardinality(Above(S, R, x)) < k}

\* What is not at the top has the top above it ...
LEMMA TopIsAbove ==
  ASSUME NEW S, IsFiniteSet(S), NEW R, Ordered(S, R), NEW k \in Nat,
         NEW x \in S \ Top(S, R, k), NEW y \in Top(S, R, k)
  PROVE  <<y, x>> \in R
<1> SUFFICES ASSUME <<x, y>> \in R  PROVE FALSE
  BY DEF Ordered, Top
<1>1. Above(S, R, x) \in SUBSET Above(S, R, y)
  BY DEF Ordered, Above, Top
<1>2. IsFiniteSet(Above(S, R, x)) /\ IsFiniteSet(Above(S, R, y))
  BY FS_Subset DEF Above
<1>3. /\ Cardinality(Above(S, R, x)) <= Cardinality(Above(S, R, y))
      /\ Cardinality(Above(S, R, x)) \in Nat /\ Cardinality(Above(S, R, y)) \in Nat
  BY <1>1, <1>2, FS_Subset, FS_CardinalityType
<1>4. Cardinality(Above(S, R, y)) < k /\ ~(Cardinality(Above(S, R, x)) < k)
  BY DEF Top
<1> QED  BY <1>3, <1>4

\* ... and that is at least k.
LEMMA TopIsFull ==
  ASSUME NEW S, IsFiniteSet(S), NEW R, Ordered(S, R), NEW k \in Nat,
         NEW p \in S \ Top(S, R, k)
  PROVE  Cardinality({q \in Top(S, R, k) : <<q, p>> \in R}) >= k
<1> DEFINE rest == S \ Top(S, R, k)
           family == {Above(S, R, x) : x \in rest}
           best == {q \in Top(S, R, k) : <<q, p>> \in R}
<1>1. family \subseteq FiniteSubsetsOf(S) /\ family # {}
  <2>1. ASSUME NEW x \in rest  PROVE Above(S, R, x) \in FiniteSubsetsOf(S)
    <3>1. Above(S, R, x) \in SUBSET S
      BY DEF Above
    <3> QED  BY <3>1, FS_Subset DEF FiniteSubsetsOf
  <2> QED  BY <2>1
<1>2. PICK A \in family : \A B \in family : <<B, A>> \notin StrictSubsetOrdering(S)
  <2> HIDE DEF family
  <2> QED  BY <1>1, FS_StrictSubsetOrderingWellFounded, WFMin
<1>3. PICK x \in rest : A = Above(S, R, x)
  BY <1>2
<1>4. ASSUME NEW y \in rest, <<y, x>> \in R  PROVE FALSE
  <2>1. x \in S /\ y \in S
    OBVIOUS
  <2>2. /\ Above(S, R, y) \subseteq Above(S, R, x)
        /\ y \in Above(S, R, x) /\ y \notin Above(S, R, y)
    BY <1>4, <2>1 DEF Above, Ordered
  <2>3. Above(S, R, x) \subseteq S
    BY DEF Above
  <2>4. <<Above(S, R, y), Above(S, R, x)>> \in StrictSubsetOrdering(S)
    BY <2>2, <2>3 DEF StrictSubsetOrdering
  <2>5. Above(S, R, y) \in family
    OBVIOUS
  <2> QED  BY <1>2, <1>3, <2>4, <2>5
<1>5. Above(S, R, x) \in SUBSET best
  <2>1. p \in rest /\ x \in S /\ p \in S
    OBVIOUS
  <2>2. p = x \/ <<x, p>> \in R
    BY <1>4, <2>1 DEF Ordered
  <2>3. ASSUME NEW q \in S, <<q, x>> \in R  PROVE q \in best
    <3>1. q \in Top(S, R, k)
      BY <1>4, <2>3
    <3>2. <<q, p>> \in R
      BY <2>1, <2>2, <2>3 DEF Ordered
    <3> QED  BY <3>1, <3>2
  <2> QED  BY <2>3 DEF Above
<1>6. IsFiniteSet(best) /\ best \in SUBSET S
  BY FS_Subset DEF Top
<1>7. ~(Cardinality(Above(S, R, x)) < k)
  <2>1. x \in S /\ x \notin Top(S, R, k)
    OBVIOUS
  <2> QED  BY <2>1 DEF Top
<1> HIDE DEF best, rest, family
<1>8. Cardinality(Above(S, R, x)) <= Cardinality(best) /\ IsFiniteSet(Above(S, R, x))
  BY <1>5, <1>6, FS_Subset
<1>9. Cardinality(Above(S, R, x)) \in Nat /\ Cardinality(best) \in Nat
  BY <1>6, <1>8, FS_CardinalityType
<1> QED  BY <1>7, <1>8, <1>9 DEF best

\* A set is as large as any of its parts.
LEMMA AsMany ==
  ASSUME NEW T, IsFiniteSet(T), NEW S \in SUBSET T, NEW k \in Nat, Cardinality(S) >= k
  PROVE  Cardinality(T) >= k
<1>1. IsFiniteSet(S) /\ Cardinality(S) <= Cardinality(T)
  BY FS_Subset
<1>2. Cardinality(S) \in Nat /\ Cardinality(T) \in Nat
  BY <1>1, FS_CardinalityType
<1> QED  BY <1>1, <1>2

-------------------------------------------------------------------------------
(* Recent rows in the rollout: what pruning them keeps. *)

\* Rows of the same time are of the same result.
Alike(S) == \A p, q \in S : p.at = q.at => p.ok = q.ok

\* Pruning to a cap keeps rows that are newer than those it takes, and keeps so many.
LEMMA KeptAreNewer ==
  ASSUME NEW S \in SUBSET Recent, IsFiniteSet(S), Alike(S), NEW k \in Nat,
         NEW p \in S \ LatestRecent(S, k)
  PROVE  /\ \A q \in LatestRecent(S, k) : Newer(q, p)
         /\ Cardinality({q \in LatestRecent(S, k) : Newer(q, p)}) >= k
<1> DEFINE R == {e \in S \X S : Newer(e[1], e[2])}
<1>1. \A a, b \in S : <<a, b>> \in R <=> Newer(a, b)
  OBVIOUS
<1>2. Ordered(S, R)
  <2>1. \A a \in S : a \in Recent /\ a.at \in Nat /\ a.from \in Nat
    BY DEF Recent
  <2>2. \A a, b \in S : a = b \/ Newer(a, b) \/ Newer(b, a)
    <3> SUFFICES ASSUME NEW a \in S, NEW b \in S, a.at = b.at, a.from = b.from  PROVE a = b
      BY <2>1 DEF Newer
    <3>1. a.ok = b.ok
      BY DEF Alike
    <3>2. a = [at |-> a.at, ok |-> a.ok, from |-> a.from]
          /\ b = [at |-> b.at, ok |-> b.ok, from |-> b.from]
      BY DEF Recent
    <3> QED  BY <3>1, <3>2
  <2>3. \A a, b, c \in S : Newer(a, b) /\ Newer(b, c) => Newer(a, c)
    BY <2>1 DEF Newer
  <2>4. \A a \in S : ~Newer(a, a)
    BY <2>1 DEF Newer
  <2> HIDE DEF R
  <2> QED  BY <1>1, <2>2, <2>3, <2>4 DEF Ordered
<1> HIDE DEF R
<1>3. \A x \in S : Above(S, R, x) = {q \in S : Newer(q, x)}
  BY <1>1 DEF Above
<1>4. Top(S, R, k) = LatestRecent(S, k)
  BY <1>3 DEF Top, LatestRecent
<1>5. \A q \in LatestRecent(S, k) : <<q, p>> \in R
  BY <1>2, <1>4, TopIsAbove
<1>6. Cardinality({q \in LatestRecent(S, k) : <<q, p>> \in R}) >= k
  BY <1>2, <1>4, TopIsFull
<1>7. LatestRecent(S, k) \subseteq S
  BY DEF LatestRecent
<1>8. {q \in LatestRecent(S, k) : <<q, p>> \in R} = {q \in LatestRecent(S, k) : Newer(q, p)}
  BY <1>1, <1>7
<1> QED  BY <1>1, <1>5, <1>6, <1>7, <1>8

\* A result that is none of the latest k has k of those after it.
LEMMA LatestAreFull ==
  ASSUME NEW S \in SUBSET Result, IsFiniteSet(S), NEW k \in Nat,
         \A r1, r2 \in S : r1.at = r2.at => r1 = r2,
         NEW r \in S \ LatestResults(S, k)
  PROVE  Cardinality({q \in LatestResults(S, k) : q.at > r.at}) >= k
<1> DEFINE R == {e \in S \X S : e[1].at > e[2].at}
<1>1. \A a, b \in S : <<a, b>> \in R <=> a.at > b.at
  OBVIOUS
<1>2. \A a \in S : a.at \in Nat
  BY DEF Result
<1> HIDE DEF R
<1>3. Ordered(S, R)
  <2>1. \A a, b \in S : a = b \/ a.at > b.at \/ b.at > a.at
    BY <1>2
  <2>2. \A a, b, c \in S : a.at > b.at /\ b.at > c.at => a.at > c.at
    BY <1>2
  <2>3. \A a \in S : ~(a.at > a.at)
    BY <1>2
  <2> QED  BY <1>1, <2>1, <2>2, <2>3 DEF Ordered
<1>4. \A x \in S : Above(S, R, x) = {q \in S : q.at > x.at}
  BY <1>1 DEF Above
<1>5. Top(S, R, k) = LatestResults(S, k)
  BY <1>4 DEF Top, LatestResults
<1>6. Cardinality({q \in LatestResults(S, k) : <<q, r>> \in R}) >= k
  BY <1>3, <1>5, TopIsFull
<1>7. {q \in LatestResults(S, k) : <<q, r>> \in R} = {q \in LatestResults(S, k) : q.at > r.at}
  BY <1>1 DEF LatestResults
<1> QED  BY <1>6, <1>7

\* The rows S have one of the result r; they have a cap's worth of newer ones.
HasRow(S, r) == \E q \in S : ResultOf(q) = r
HasNewer(S, r) == Cardinality({q \in S : q.at > r.at}) >= RecentCap

\* What RecentKeepsNewest says, of any rows and results.
Settled(S, H) ==
  \A r \in H :
    r \notin Legacy \/ (\E q \in S : q.from # Live /\ q.at >= r.at) =>
      HasRow(S, r) \/ HasNewer(S, r)

NoTwoCopies(S) == \A p, q \in S : p.at = q.at /\ p # q => Live \in {p.from, q.from}

\* Settled rows stay so when those that go have a cap's worth of newer ones left.
LEMMA SettledStays ==
  ASSUME NEW S \in SUBSET Recent, NEW T \in SUBSET Recent, IsFiniteSet(T), Alike(S \cup T),
         NEW H \in SUBSET Result, Settled(S, H),
         \A q \in T : q \in S \/ q.from = Live,
         \A p \in S \ T : Cardinality({q \in T : Newer(q, p)}) >= RecentCap
  PROVE  Settled(T, H)
<1> SUFFICES ASSUME NEW r \in H,
                    r \notin Legacy \/ \E q \in T : q.from # Live /\ q.at >= r.at,
                    ~HasRow(T, r)
             PROVE  HasNewer(T, r)
  BY DEF Settled
<1>1. HasRow(S, r) \/ HasNewer(S, r)
  BY DEF Settled
<1>2. RecentCap \in Nat /\ r \in Result /\ r.at \in Nat /\ \A q \in S \cup T : q.at \in Nat
  BY ResultsAssumption DEF Result, Recent
<1>3. IsFiniteSet({q \in T : q.at > r.at})
  BY FS_Subset
\* A row of r that is gone, or one that is newer, leaves enough behind.
<1>4. ASSUME NEW p \in S \ T, p.at >= r.at, p.at = r.at => p.ok = r.ok  PROVE HasNewer(T, r)
  <2>1. \A q \in T : Newer(q, p) => q.at > r.at
    <3> SUFFICES ASSUME NEW q \in T, Newer(q, p)  PROVE q.at > r.at
      OBVIOUS
    <3>1. q.at > p.at \/ q.at = p.at
      BY DEF Newer
    <3>2. CASE q.at = r.at
      <4>1. p.at = r.at /\ q.at = p.at
        BY <1>2, <1>4, <3>1, <3>2
      <4>2. q.ok = r.ok
        BY <1>4, <4>1 DEF Alike
      <4>3. ResultOf(q) = r
        BY <1>2, <3>2, <4>2 DEF ResultOf, Result
      <4> QED  BY <4>3 DEF HasRow
    <3> QED  BY <1>2, <1>4, <3>1, <3>2
  <2>2. {q \in T : Newer(q, p)} \in SUBSET {q \in T : q.at > r.at}
    BY <2>1
  <2> QED  BY <1>2, <1>3, <1>4, <2>2, AsMany DEF HasNewer
<1>5. CASE HasRow(S, r)
  <2>1. PICK q \in S : ResultOf(q) = r
    BY <1>5 DEF HasRow
  <2>2. q \notin T
    BY <2>1 DEF HasRow
  <2>3. q.at = r.at /\ q.ok = r.ok
    BY <2>1 DEF ResultOf
  <2> QED  BY <1>2, <1>4, <2>2, <2>3
<1>6. CASE HasNewer(S, r)
  <2>1. CASE \E p \in S \ T : p.at > r.at
    <3>1. PICK p \in S \ T : p.at > r.at
      BY <2>1
    <3>2. p.at >= r.at /\ p.at # r.at
      BY <1>2, <3>1
    <3> QED  BY <1>4, <3>2
  <2>2. CASE \A p \in S \ T : ~(p.at > r.at)
    <3>1. {q \in S : q.at > r.at} \in SUBSET {q \in T : q.at > r.at}
      BY <2>2
    <3> QED  BY <1>2, <1>3, <1>6, <3>1, AsMany DEF HasNewer
  <2> QED  BY <2>1, <2>2
<1> QED  BY <1>1, <1>5, <1>6

-------------------------------------------------------------------------------
(* Recent rows in the rollout: the invariant. *)

\* Every row is a recorded result's, and the committed ones are settled.
KeptInv ==
  /\ \A q \in recent \cup derived.gone \cup derived.copies : ResultOf(q) \in hist
  /\ \A q \in recent : q.from <= runs.derived
  /\ Settled(recent, hist) /\ NoTwoCopies(recent)

\* What the backfill deletes is older than what it leaves, its copies are its own, and
\* its view is settled from the insertion on.
CopiesInv ==
  /\ derived.gone \subseteq Recent
  /\ derived.phase = "idle" => derived.gone = {} /\ derived.copies = {}
  /\ derived.phase # "idle" => runs.derived > 0 /\ \A q \in recent : q.from < runs.derived
  /\ \A q \in derived.copies : q.from = runs.derived
  /\ \A g \in derived.gone, p \in recent \ derived.gone : Newer(p, g)
  /\ derived.phase = "insert" =>
       /\ derived.copies = {}
       /\ \A g \in derived.gone : g.at < derived.cutoff
       /\ \A p \in recent \ derived.gone : p.at < derived.cutoff => p.from = Live
  /\ derived.phase \in {"read", "write"} =>
       Settled(DerivedView, hist) /\ NoTwoCopies(DerivedView)

\* What an open completion deletes is none of the backfill's copies, leaves a cap's worth
\* of newer rows, and once it has waited is none of what the backfill has deleted.
PrunedInv(w) ==
  work[w].phase \in {"prune", "commit"} =>
    /\ \A p \in work[w].pruned :
         p.from <= runs.derived /\ (derived.phase # "idle" => p.from < runs.derived)
    /\ \A p \in work[w].pruned \cap recent :
         Cardinality({q \in (recent \ work[w].pruned) \cup {OwnRow(w)} : Newer(q, p)}) >= RecentCap
    /\ work[w].phase = "commit" => work[w].pruned \cap derived.gone = {}

RolloutRecentInv == rollout => KeptInv /\ CopiesInv /\ \A w \in Worker : PrunedInv(w)

\* Rows of recorded results are alike.
LEMMA RecordedAreAlike ==
  ASSUME NEW H, \A r1, r2 \in H : r1.at = r2.at => r1 = r2,
         NEW S, \A q \in S : ResultOf(q) \in H
  PROVE  Alike(S)
<1> SUFFICES ASSUME NEW p \in S, NEW q \in S, p.at = q.at  PROVE p.ok = q.ok
  BY DEF Alike
<1>1. ResultOf(p).at = p.at /\ ResultOf(q).at = q.at /\ ResultOf(p).ok = p.ok /\ ResultOf(q).ok = q.ok
  BY DEF ResultOf
<1> QED  BY <1>1

LEMMA InitRolloutRecent == ASSUME Init  PROVE RolloutRecentInv
<1> SUFFICES ASSUME rollout  PROVE KeptInv /\ CopiesInv /\ \A w \in Worker : PrunedInv(w)
  BY DEF RolloutRecentInv
<1>1. /\ hist = Legacy /\ recent = {}
      /\ derived.phase = "idle" /\ derived.gone = {} /\ derived.copies = {}
      /\ \A w \in Worker : work[w].phase = "idle"
  BY IdleWorkType DEF Init, IdleDerived
<1>2. Settled(recent, hist) /\ NoTwoCopies(recent)
  BY <1>1 DEF Settled, NoTwoCopies
<1> QED  BY <1>1, <1>2 DEF KeptInv, CopiesInv, PrunedInv

\* A step that leaves the tables and the backfill alone.
LEMMA TablesSame ==
  ASSUME RolloutRecentInv, NEW w \in Worker, rollout,
         UNCHANGED <<recent, hist, derived, rollout>>, runs'.derived = runs.derived,
         \A v \in Worker \ {w} : work'[v] = work[v], PrunedInv(w)'
  PROVE  RolloutRecentInv'
<1>1. KeptInv /\ CopiesInv /\ \A v \in Worker : PrunedInv(v)
  BY DEF RolloutRecentInv
<1>2. KeptInv' /\ CopiesInv'
  BY <1>1 DEF KeptInv, CopiesInv, DerivedView
<1>3. \A v \in Worker \ {w} : PrunedInv(v)'
  BY <1>1 DEF PrunedInv, OwnRow
<1> QED  BY <1>2, <1>3 DEF RolloutRecentInv

\* Beginning to complete prunes down to the cap.
LEMMA BeginPrunes ==
  ASSUME BaseInv, KeptInv, CopiesInv, NEW w \in Worker, BeginComplete(w)
  PROVE  PrunedInv(w)'
<1> DEFINE own == OwnRow(w)
           view == recent \cup {own}
           left == LatestRecent(view, RecentCap)
<1>1. /\ work'[w].pruned = view \ left /\ work'[w].phase = "prune" /\ OwnRow(w)' = own
      /\ UNCHANGED <<recent, derived, runs>>
  BY DEF BeginComplete, BaseInv, Typed, WorkRecord, probeTables, jobs, OwnRow
<1>2. /\ own \in Recent /\ own.from = 0 /\ ResultOf(own) = Own(w)
      /\ Own(w).at = work[w].at /\ Own(w) \in Result
  BY OwnRowType DEF BaseInv, OwnRow, Own, ResultOf, Live
<1>3. \A r \in hist : r.at < Own(w).at /\ r.at \in Nat
  BY <1>2 DEF BeginComplete, LeaseHeld, BaseInv, TimeInv, Typed, Result
<1> HIDE DEF own
<1>4. view \in SUBSET Recent /\ IsFiniteSet(view) /\ RecentCap \in Nat
  BY <1>2, FS_AddElement, ResultsAssumption DEF BaseInv, Typed
<1>5. Alike(view)
  <2> DEFINE H == hist \cup {Own(w)}
  <2>1. \A r1, r2 \in H : r1.at = r2.at => r1 = r2
    BY <1>2, <1>3 DEF BaseInv, TimeInv, Result
  <2>2. \A q \in view : ResultOf(q) \in H
    BY <1>2 DEF KeptInv
  <2> HIDE DEF H, view
  <2> QED  BY <2>1, <2>2, RecordedAreAlike
<1>6. \A p \in view : p.from <= runs.derived /\ (derived.phase # "idle" => p.from < runs.derived)
  <2>1. runs.derived \in Nat
    BY DEF BaseInv, Typed
  <2> QED  BY <1>2, <2>1 DEF KeptInv, CopiesInv
<1>7. ASSUME NEW p \in view \ left
      PROVE  Cardinality({q \in (recent \ (view \ left)) \cup {own} : Newer(q, p)}) >= RecentCap
  <2>1. Cardinality({q \in left : Newer(q, p)}) >= RecentCap
    BY <1>4, <1>5, KeptAreNewer
  <2>2. left \subseteq view
    BY DEF LatestRecent
  <2> HIDE DEF left
  <2>3. /\ {q \in left : Newer(q, p)} \in SUBSET {q \in (recent \ (view \ left)) \cup {own} : Newer(q, p)}
        /\ {q \in (recent \ (view \ left)) \cup {own} : Newer(q, p)} \in SUBSET view
    BY <2>2
  <2> QED  BY <1>4, <2>1, <2>3, FS_Subset, AsMany
<1> HIDE DEF view, left
<1> QED  BY <1>1, <1>6, <1>7 DEF PrunedInv

\* What is newer than a row that the backfill leaves is not deleted by it.
LEMMA NewerIsLeft ==
  ASSUME BaseInv, CopiesInv, NEW p \in recent \ derived.gone, NEW q \in Recent, Newer(q, p)
  PROVE  q \notin derived.gone
<1> SUFFICES ASSUME q \in derived.gone  PROVE FALSE
  OBVIOUS
<1>1. Newer(p, q)
  BY DEF CopiesInv
<1>2. p.at \in Nat /\ q.at \in Nat /\ p.from \in Nat /\ q.from \in Nat
  BY DEF BaseInv, Typed, Recent
<1> QED  BY <1>1, <1>2 DEF Newer

\* A commit adds a row that is newer than all, and takes only rows with enough newer ones.
LEMMA CommitKeeps ==
  ASSUME BaseInv, KeptInv, CopiesInv, NEW w \in Worker, PrunedInv(w), CommitComplete(w)
  PROVE  (KeptInv /\ CopiesInv /\ \A v \in Worker : PrunedInv(v))'
<1> DEFINE x == Own(w)
           own == OwnRow(w)
           rows == recent \cup derived.gone \cup derived.copies
<1>1. /\ x \in Result /\ hist \in SUBSET Result /\ IsFiniteSet(hist)
      /\ hist' = hist \cup {x} /\ UNCHANGED <<derived, runs>>
      /\ \A r \in hist : r.at < x.at
  BY CommitAdds
<1>2. /\ recent' = (recent \ work[w].pruned) \cup {own}
      /\ work' = [work EXCEPT ![w] = IdleWork] /\ work[w].phase = "commit"
  BY DEF CommitComplete
<1>3. own \in Recent /\ ResultOf(own) = x /\ own.from = Live /\ own.at = x.at
  BY OwnRowType DEF BaseInv, OwnRow, Own, ResultOf
<1>4. \A r1, r2 \in hist' : r1.at = r2.at => r1 = r2
  <2>1. \A r \in hist : r.at \in Nat /\ x.at \in Nat /\ r.at # x.at
    BY <1>1 DEF Result
  <2> QED  BY <1>1, <2>1 DEF BaseInv, TimeInv
<1>5. \A v \in Worker : PrunedInv(v)'
  <2>1. work'[w].phase = "idle" /\ \A v \in Worker \ {w} : work'[v] = work[v]
    BY <1>2, IdleWorkType DEF BaseInv, Typed
  <2>2. \A v \in Worker : work'[v].phase \notin {"prune", "commit"}
    BY <1>2, <2>1 DEF BaseInv, LockInv
  <2> QED  BY <2>2 DEF PrunedInv
<1> HIDE DEF x, own
<1>6. \A q \in rows : ResultOf(q) \in hist /\ q.at < own.at /\ q.at # own.at
  <2> SUFFICES ASSUME NEW q \in rows
               PROVE  ResultOf(q) \in hist /\ q.at < own.at /\ q.at # own.at
    OBVIOUS
  <2>1. ResultOf(q) \in hist /\ ResultOf(q).at = q.at
    BY DEF KeptInv, ResultOf
  <2>2. q.at \in Nat /\ x.at \in Nat
    BY <1>1, <2>1 DEF Result
  <2> QED  BY <1>1, <1>3, <2>1, <2>2
<1>7. \A q \in rows \cup {own} : ResultOf(q) \in hist'
  BY <1>1, <1>3, <1>6
<1>8. /\ recent \in SUBSET Recent /\ IsFiniteSet(recent) /\ derived.copies \in SUBSET Recent
      /\ IsFiniteSet(derived.copies) /\ runs.derived \in Nat
  BY DEF BaseInv, Typed, TypedJobs
<1>9. recent' \in SUBSET Recent /\ IsFiniteSet(recent')
  <2>1. recent \ work[w].pruned \in SUBSET recent
    OBVIOUS
  <2>2. IsFiniteSet(recent \ work[w].pruned)
    BY <1>8, <2>1, FS_Subset
  <2>3. IsFiniteSet((recent \ work[w].pruned) \cup {own})
    BY <2>2, FS_AddElement
  <2> QED  BY <1>2, <1>3, <1>8, <2>3
<1>10. \A p \in work[w].pruned \cap recent :
         Cardinality({q \in recent' : Newer(q, p)}) >= RecentCap
  BY <1>2 DEF PrunedInv, own
\* Settled rows that get the commit's own row are settled with its result.
<1>11. ASSUME NEW T, own \in T, Settled(T, hist)  PROVE Settled(T, hist')
  BY <1>1, <1>3, <1>11 DEF Settled, HasRow
<1>12. Settled(recent, hist)'
  <2>1. Alike(recent \cup recent')
    <3>1. \A q \in recent \cup recent' : ResultOf(q) \in hist'
      BY <1>2, <1>7
    <3> QED  BY <1>4, <3>1, RecordedAreAlike
  <2>2. \A q \in recent' : q \in recent \/ q.from = Live
    BY <1>2, <1>3
  <2>3. \A p \in recent \ recent' : Cardinality({q \in recent' : Newer(q, p)}) >= RecentCap
    BY <1>2, <1>10
  <2>4. Settled(recent', hist)
    BY <1>1, <1>8, <1>9, <2>1, <2>2, <2>3, SettledStays DEF KeptInv
  <2> QED  BY <1>2, <1>11, <2>4
<1>13. NoTwoCopies(recent)'
  BY <1>2, <1>6 DEF NoTwoCopies, KeptInv
<1>14. \A q \in recent' : q.from <= runs.derived /\ (derived.phase # "idle" => q.from < runs.derived)
  BY <1>2, <1>3, <1>8 DEF KeptInv, CopiesInv, Live
<1>15. KeptInv'
  BY <1>1, <1>2, <1>7, <1>12, <1>13, <1>14 DEF KeptInv
<1>16. \A g \in derived.gone, p \in recent' \ derived.gone : Newer(p, g)
  <2>1. \A g \in derived.gone : own.at > g.at
    <3>1. \A g \in derived.gone : g.at \in Nat /\ own.at \in Nat
      BY <1>3 DEF CopiesInv, Recent
    <3> QED  BY <1>6, <3>1
  <2> QED  BY <1>2, <2>1 DEF CopiesInv, Newer
<1>17. ASSUME derived.phase \in {"read", "write"}
       PROVE  (Settled(DerivedView, hist) /\ NoTwoCopies(DerivedView))'
  <2> DEFINE T == (recent' \ derived.gone) \cup derived.copies
  <2>1. DerivedView' = T
    BY <1>1 DEF DerivedView
  <2>2. DerivedView \in SUBSET rows /\ DerivedView \in SUBSET Recent
    BY <1>8 DEF DerivedView
  <2>3. T \in SUBSET (rows \cup {own}) /\ T \in SUBSET Recent /\ IsFiniteSet(T)
    BY <1>2, <1>8, <1>9, FS_Subset, FS_Union
  <2>4. own \in T /\ \A q \in T : q \in DerivedView \/ q.from = Live
    BY <1>2, <1>3, <1>6 DEF DerivedView
  <2>5. Alike(DerivedView \cup T)
    <3>1. \A q \in DerivedView \cup T : ResultOf(q) \in hist'
      BY <1>7, <2>2, <2>3
    <3> QED  BY <1>4, <3>1, RecordedAreAlike
  <2>6. ASSUME NEW p \in DerivedView \ T
        PROVE  Cardinality({q \in T : Newer(q, p)}) >= RecentCap
    <3>1. p \in recent \ derived.gone /\ p \in work[w].pruned
      BY <1>2, <2>6 DEF DerivedView
    <3>2. \A q \in recent' : Newer(q, p) => q \in T
      BY <1>9, <3>1, NewerIsLeft
    <3> HIDE DEF T
    <3>3. {q \in recent' : Newer(q, p)} \in SUBSET {q \in T : Newer(q, p)}
      BY <3>2
    <3>4. IsFiniteSet({q \in T : Newer(q, p)})
      BY <2>3, FS_Subset
    <3>5. Cardinality({q \in recent' : Newer(q, p)}) >= RecentCap /\ RecentCap \in Nat
      BY <1>10, <3>1, ResultsAssumption
    <3> QED  BY <3>3, <3>4, <3>5, AsMany
  <2>7. Settled(DerivedView, hist) /\ NoTwoCopies(DerivedView)
    BY <1>17 DEF CopiesInv
  <2>8. NoTwoCopies(T)
    <3>1. \A q \in T : q = own \/ (q \in DerivedView /\ q.at # own.at)
      BY <1>2, <1>6, <2>2 DEF DerivedView
    <3> QED  BY <2>7, <3>1 DEF NoTwoCopies
  <2> HIDE DEF T
  <2>9. Settled(T, hist)
    BY <1>1, <2>2, <2>3, <2>4, <2>5, <2>6, <2>7, SettledStays
  <2> QED  BY <1>11, <2>1, <2>4, <2>8, <2>9
<1>18. CopiesInv'
  <2>1. derived'.phase = "insert" =>
          \A p \in recent' \ derived'.gone : p.at < derived'.cutoff => p.from = Live
    BY <1>1, <1>2, <1>3 DEF CopiesInv
  <2> QED  BY <1>1, <1>14, <1>16, <1>17, <2>1 DEF CopiesInv
<1> QED  BY <1>5, <1>15, <1>18

\* The probe workers' steps.
LEMMA ProbeKeeps ==
  ASSUME BaseInv, RolloutRecentInv, NEW w \in Worker, Probe(w)
  PROVE  RolloutRecentInv'
<1>1. UNCHANGED <<derived, runs, rollout>> /\ work \in [Worker -> WorkRecord]
  BY ProbesLeaveJobs DEF BaseInv, Typed
<1> SUFFICES ASSUME rollout  PROVE RolloutRecentInv'
  BY <1>1 DEF RolloutRecentInv
<1>2. KeptInv /\ CopiesInv /\ \A v \in Worker : PrunedInv(v)
  BY DEF RolloutRecentInv
<1>3. CASE CommitComplete(w)
  BY <1>2, <1>3, CommitKeeps DEF RolloutRecentInv
<1>4. CASE ~CommitComplete(w)
  <2>1. UNCHANGED <<recent, hist>>
    BY <1>4, ProbeWrites
  <2>2. \A v \in Worker \ {w} : work'[v] = work[v]
    <3>1. PICK record : work' = [work EXCEPT ![w] = record]
      BY <1>4 DEF Probe, ClaimDueProbeConfig, FinishProbe, BeginComplete, CountRecent,
        LeaseNotFound, GiveUp
    <3> QED  BY <1>1, <3>1
  <2>3. PrunedInv(w)'
    <3>1. CASE ClaimDueProbeConfig(w)
      BY <1>1, <3>1 DEF ClaimDueProbeConfig, IdleWork, PrunedInv
    <3>2. CASE FinishProbe(w)
      <4>1. work'[w].phase = "write"
        BY <1>1, <3>2 DEF FinishProbe, WorkRecord
      <4> QED  BY <4>1 DEF PrunedInv
    <3>3. CASE BeginComplete(w)
      BY <1>2, <3>3, BeginPrunes
    <3>4. CASE CountRecent(w)
      <4>1. /\ work'[w].at = work[w].at /\ work'[w].ok = work[w].ok
            /\ work'[w].pruned = work[w].pruned /\ work[w].phase = "prune"
            /\ work[w].pruned \cap derived.gone = {}
        BY <1>1, <3>4 DEF CountRecent, WorkRecord
      <4> QED  BY <1>1, <1>2, <2>1, <4>1 DEF PrunedInv, OwnRow
    <3>5. CASE LeaseNotFound(w) \/ GiveUp(w)
      BY <1>1, <3>5 DEF LeaseNotFound, GiveUp, IdleWork, PrunedInv
    <3> QED  BY <1>4, <3>1, <3>2, <3>3, <3>4, <3>5 DEF Probe
  <2> QED  BY <1>1, <2>1, <2>2, <2>3, TablesSame
<1> QED  BY <1>3, <1>4

\* The backfill begins: what it deletes lies before its cutoff.
LEMMA StartKeeps ==
  ASSUME BaseInv, KeptInv, CopiesInv, \A w \in Worker : PrunedInv(w),
         NEW cutoff \in Cutoffs, StartDerived(cutoff)
  PROVE  (KeptInv /\ CopiesInv /\ \A w \in Worker : PrunedInv(w))'
<1>1. /\ UNCHANGED <<recent, hist, work>>
      /\ derived'.phase = "insert" /\ derived'.cutoff = cutoff
      /\ derived'.gone = {r \in recent : r.at < cutoff} /\ derived'.copies = {}
      /\ runs'.derived = runs.derived + 1 /\ runs.derived \in Nat /\ cutoff \in Nat
      /\ recent \subseteq Recent /\ derived'.gone \cap Pruned = {}
  BY ResultsAssumption DEF StartDerived, RecentBefore, IdleDerived, probeTables, leaseVars,
    BaseInv, Typed
<1>2. \A q \in recent : q.at \in Nat /\ q.from \in Nat /\ q.from <= runs.derived
  BY <1>1 DEF KeptInv, Recent
<1>3. KeptInv'
  BY <1>1, <1>2 DEF KeptInv
<1>4. CopiesInv'
  <2>1. \A g \in derived'.gone, p \in recent' \ derived'.gone : Newer(p, g)
    <3> SUFFICES ASSUME NEW g \in recent, g.at < cutoff, NEW p \in recent, ~(p.at < cutoff)
                 PROVE  p.at > g.at
      BY <1>1 DEF Newer
    <3> QED  BY <1>1, <1>2
  <2>2. \A q \in recent' : q.from < runs'.derived
    BY <1>1, <1>2
  <2> QED  BY <1>1, <2>1, <2>2 DEF CopiesInv
<1>5. ASSUME NEW w \in Worker  PROVE PrunedInv(w)'
  <2> SUFFICES ASSUME work[w].phase \in {"prune", "commit"}  PROVE PrunedInv(w)'
    BY <1>1 DEF PrunedInv
  <2>1. work[w].pruned \subseteq Pruned /\ work[w].pruned \subseteq Recent
    BY DEF Pruned, BaseInv, Typed, WorkRecord
  <2>2. \A p \in work[w].pruned : p.from < runs'.derived /\ p.from <= runs'.derived
    BY <1>1, <2>1 DEF PrunedInv, Recent
  <2> QED  BY <1>1, <2>1, <2>2 DEF PrunedInv, OwnRow
<1> QED  BY <1>3, <1>4, <1>5

\* The copies of what lies before the cutoff, and the rows from it on, are settled; and
\* so is what the pruning leaves of them.
LEMMA InsertKeeps ==
  ASSUME BaseInv, KeptInv, CopiesInv, \A w \in Worker : PrunedInv(w), rollout, InsertDerived
  PROVE  (KeptInv /\ CopiesInv /\ \A w \in Worker : PrunedInv(w))'
<1> DEFINE c == derived.cutoff
           n == runs.derived
           before == RawBefore(c)
           L == LatestResults(before, RecentCap)
           Copy(r) == [at |-> r.at, ok |-> r.ok, from |-> n]
           copies == {Copy(r) : r \in L}
           rest == recent \ derived.gone
           view == rest \cup copies
           left == LatestRecent(view, RecentCap)
           over == view \ left
<1>1. /\ derived.phase = "insert" /\ c \in Nat /\ n \in Nat /\ n > 0
      /\ \A q \in recent : q.from < n
      /\ \A g \in derived.gone : g.at < c
      /\ \A p \in rest : p.at < c => p.from = Live
  BY DEF InsertDerived, CopiesInv, BaseInv, Typed, TypedJobs
<1>2. /\ derived'.gone = derived.gone \cup (over \cap recent)
      /\ derived'.copies = copies \ over /\ derived'.phase = "read"
      /\ UNCHANGED <<recent, hist, work, runs>> /\ over \cap Pruned = {}
  BY DEF InsertDerived, probeTables, leaseVars, BaseInv, TypedJobs
<1>3. /\ hist \in SUBSET Result /\ recent \in SUBSET Recent /\ IsFiniteSet(recent)
      /\ RecentCap \in Nat /\ \A r1, r2 \in hist : r1.at = r2.at => r1 = r2
  BY ResultsAssumption DEF BaseInv, Typed, TimeInv
<1>4. before = {r \in hist : r.at < c} /\ IsFiniteSet(before)
  BY FS_Subset DEF RawBefore, BaseInv, RolloutInv, Typed
<1>5. L \subseteq before /\ IsFiniteSet(L)
  BY <1>4, FS_Subset DEF LatestResults
<1> HIDE DEF before
<1>6. \A r \in L : /\ Copy(r) \in Recent /\ ResultOf(Copy(r)) = r
                   /\ Copy(r).at = r.at /\ Copy(r).from = n
  BY <1>1, <1>3, <1>4, <1>5 DEF ResultOf, Result, Recent
<1>7. copies \in SUBSET Recent /\ IsFiniteSet(copies)
  <2>1. L \in SUBSET Result
    BY <1>3, <1>4, <1>5
  <2> QED  BY <1>1, <1>5, <2>1, CopiesType
<1> HIDE DEF L, Copy
<1>8. \A q \in copies : ResultOf(q) \in L /\ q.from = n /\ q.from # Live /\ q.at < c /\ q.at \in Nat
  <2>1. \A q \in copies : q.at \in Nat
    BY <1>7 DEF Recent
  <2> QED  BY <1>1, <1>4, <1>5, <1>6, <2>1 DEF Live
<1> HIDE DEF copies
<1>9. view \in SUBSET Recent /\ IsFiniteSet(view)
  BY <1>3, <1>7, FS_Subset, FS_Union
<1>10. \A q \in view : ResultOf(q) \in hist
  BY <1>4, <1>5, <1>8 DEF KeptInv
<1>11. Alike(view)
  BY <1>3, <1>10, RecordedAreAlike
<1>12. Settled(view, hist)
  <2> SUFFICES ASSUME NEW r \in hist,
                      r \notin Legacy \/ \E q \in view : q.from # Live /\ q.at >= r.at
               PROVE  HasRow(view, r) \/ HasNewer(view, r)
    BY DEF Settled
  <2>1. r.at \in Nat /\ \A q \in recent : q.at \in Nat
    BY <1>3 DEF Result, Recent
  <2>2. CASE r.at < c
    <3>1. CASE r \in L
      <4>1. Copy(r) \in copies /\ ResultOf(Copy(r)) = r
        BY <1>6, <3>1 DEF copies
      <4> QED  BY <4>1 DEF HasRow
    <3>2. CASE r \notin L
      <4> DEFINE after == {q \in L : q.at > r.at}
                 f == [q \in after |-> Copy(q)]
                 newer == {q \in view : q.at > r.at}
      <4>1. r \in before /\ before \in SUBSET Result
            /\ \A r1, r2 \in before : r1.at = r2.at => r1 = r2
        BY <1>3, <1>4, <2>2
      <4>2. Cardinality(after) >= RecentCap
        BY <1>3, <1>4, <3>2, <4>1, LatestAreFull DEF L
      <4>3. \A q \in after : Copy(q) \in newer
        BY <1>6 DEF copies
      <4>4. \A q1, q2 \in after : Copy(q1) = Copy(q2) => q1 = q2
        <5>1. \A q1, q2 \in after : Copy(q1) = Copy(q2) => q1.at = q2.at
          BY <1>6
        <5> QED  BY <1>5, <4>1, <5>1
      <4>5. f \in Injection(after, newer)
        BY <4>3, <4>4 DEF Injection, IsInjective
      <4>6. IsFiniteSet(newer)
        BY <1>9, FS_Subset
      <4> HIDE DEF after, newer, f
      <4>7. IsFiniteSet(after) /\ Cardinality(after) <= Cardinality(newer)
        BY <4>5, <4>6, FS_Injection
      <4>8. Cardinality(after) \in Nat /\ Cardinality(newer) \in Nat
        BY <4>6, <4>7, FS_CardinalityType
      <4>9. Cardinality(newer) >= RecentCap
        BY <1>3, <4>2, <4>7, <4>8
      <4> QED  BY <4>9 DEF HasNewer, newer
    <3> QED  BY <3>1, <3>2
  <2>3. CASE ~(r.at < c)
    <3>1. \A q \in view : q.at >= r.at => q \in rest
      BY <1>1, <1>8, <2>1, <2>3
    <3>2. HasRow(recent, r) \/ HasNewer(recent, r)
      BY <3>1 DEF KeptInv, Settled
    <3>3. \A q \in recent : q.at >= r.at => q \in view
      BY <1>1, <2>1, <2>3
    <3>4. ASSUME HasRow(recent, r)  PROVE HasRow(view, r)
      <4>1. PICK q \in recent : ResultOf(q) = r
        BY <3>4 DEF HasRow
      <4>2. q.at = r.at
        BY <4>1 DEF ResultOf
      <4> QED  BY <2>1, <3>3, <4>1, <4>2 DEF HasRow
    <3>5. ASSUME HasNewer(recent, r)  PROVE HasNewer(view, r)
      <4>1. {q \in recent : q.at > r.at} \in SUBSET {q \in view : q.at > r.at}
        BY <2>1, <3>3
      <4>2. IsFiniteSet({q \in view : q.at > r.at})
        BY <1>9, FS_Subset
      <4> HIDE DEF view
      <4> QED  BY <1>3, <3>5, <4>1, <4>2, AsMany DEF HasNewer
    <3> QED  BY <3>2, <3>4, <3>5
  <2> QED  BY <2>2, <2>3
<1>13. NoTwoCopies(view)
  <2> SUFFICES ASSUME NEW p \in view, NEW q \in view, p.at = q.at, p.from # Live, q.from # Live
               PROVE  p = q
    BY DEF NoTwoCopies
  <2>1. CASE p \in copies /\ q \in copies
    <3>1. p.ok = q.ok /\ p.from = q.from
      BY <1>8, <1>11, <2>1 DEF Alike
    <3>2. p = [at |-> p.at, ok |-> p.ok, from |-> p.from]
          /\ q = [at |-> q.at, ok |-> q.ok, from |-> q.from]
      BY <1>9 DEF Recent
    <3> QED  BY <3>1, <3>2
  <2>2. CASE p \in rest /\ q \in rest
    BY <2>2 DEF KeptInv, NoTwoCopies
  <2>3. CASE (p \in copies /\ q \in rest) \/ (p \in rest /\ q \in copies)
    BY <1>1, <1>8, <2>3
  <2> QED  BY <2>1, <2>2, <2>3
<1>14. left \subseteq view
  BY DEF LatestRecent
<1>15. \A p \in over : /\ \A q \in left : Newer(q, p)
                       /\ Cardinality({q \in left : Newer(q, p)}) >= RecentCap
  <2> HIDE DEF view
  <2> QED  BY <1>3, <1>9, <1>11, KeptAreNewer
<1>16. left \in SUBSET Recent /\ IsFiniteSet(left) /\ view \ left = over
  BY <1>9, <1>14, FS_Subset
<1> HIDE DEF left
<1>17. DerivedView' = left
  <2>1. DerivedView' = (recent \ (derived.gone \cup (over \cap recent))) \cup (copies \ over)
    BY <1>2 DEF DerivedView
  <2> QED  BY <1>14, <2>1
<1>18. (Settled(DerivedView, hist) /\ NoTwoCopies(DerivedView))'
  <2>1. Alike(view \cup left) /\ \A q \in left : q \in view \/ q.from = Live
    <3>1. view \cup left = view
      BY <1>14
    <3> QED  BY <1>11, <1>14, <3>1
  <2>2. NoTwoCopies(left)
    BY <1>13, <1>14 DEF NoTwoCopies
  <2> HIDE DEF view, over
  <2>3. Settled(left, hist)
    BY <1>3, <1>9, <1>12, <1>15, <1>16, <2>1, SettledStays
  <2> QED  BY <1>2, <1>17, <2>2, <2>3
<1>19. KeptInv'
  <2>1. \A q \in recent \cup derived'.gone \cup derived'.copies : ResultOf(q) \in hist
    BY <1>2, <1>10 DEF KeptInv
  <2> QED  BY <1>2, <2>1 DEF KeptInv
<1>20. CopiesInv'
  <2>1. \A g \in derived'.gone, p \in recent \ derived'.gone : Newer(p, g)
    <3> SUFFICES ASSUME NEW g \in derived'.gone, NEW p \in recent, p \notin derived'.gone
                 PROVE  Newer(p, g)
      OBVIOUS
    <3>1. p \in rest /\ p \notin over
      BY <1>2
    <3>2. p \in left
      BY <1>16, <3>1
    <3>3. g \in derived.gone \/ g \in over
      BY <1>2
    <3> QED  BY <1>15, <3>1, <3>2, <3>3 DEF CopiesInv
  <2>2. derived'.gone \subseteq Recent /\ \A q \in derived'.copies : q.from = n
    BY <1>2, <1>3, <1>8 DEF CopiesInv
  <2> QED  BY <1>1, <1>2, <1>18, <2>1, <2>2 DEF CopiesInv
<1>21. ASSUME NEW w \in Worker  PROVE PrunedInv(w)'
  <2> SUFFICES ASSUME work[w].phase \in {"prune", "commit"}  PROVE PrunedInv(w)'
    BY <1>2 DEF PrunedInv
  <2>1. work[w].pruned \subseteq Pruned
    BY DEF Pruned
  <2>2. work[w].pruned \cap over = {}
    BY <1>2, <2>1
  <2> HIDE DEF over
  <2> QED  BY <1>1, <1>2, <2>2 DEF PrunedInv, OwnRow
<1> QED  BY <1>19, <1>20, <1>21

\* The backfill commits: what an open completion is about to delete still has newer rows.
LEMMA WriteKeeps ==
  ASSUME BaseInv, KeptInv, CopiesInv, \A w \in Worker : PrunedInv(w), WriteDerived
  PROVE  (KeptInv /\ CopiesInv /\ \A w \in Worker : PrunedInv(w))'
<1>1. /\ recent' = DerivedView /\ UNCHANGED <<hist, work, runs>> /\ derived.phase = "write"
      /\ derived'.phase = "idle" /\ derived'.gone = {} /\ derived'.copies = {}
  BY DEF WriteDerived, IdleDerived, leaseVars
<1>2. \A q \in derived.copies : q.from = runs.derived /\ runs.derived \in Nat
  BY DEF CopiesInv, BaseInv, Typed
<1>3. KeptInv'
  <2>1. \A q \in DerivedView : ResultOf(q) \in hist
    BY DEF DerivedView, KeptInv
  <2>2. \A q \in DerivedView : q.from <= runs.derived
    BY <1>2 DEF DerivedView, KeptInv
  <2> QED  BY <1>1, <2>1, <2>2 DEF KeptInv, CopiesInv
<1>4. CopiesInv'
  BY <1>1 DEF CopiesInv
<1>5. ASSUME NEW w \in Worker, work[w].phase \in {"prune", "commit"}  PROVE PrunedInv(w)'
  <2> DEFINE own == OwnRow(w)
             after == (recent \ work[w].pruned) \cup {own}
             later == (DerivedView \ work[w].pruned) \cup {own}
  <2>1. /\ recent \subseteq Recent /\ IsFiniteSet(recent) /\ IsFiniteSet(derived.copies)
        /\ own \in Recent /\ RecentCap \in Nat
    BY OwnRowType, ResultsAssumption DEF BaseInv, Typed, TypedJobs
  <2>2. IsFiniteSet(later)
    <3>1. IsFiniteSet(DerivedView)
      BY <2>1, FS_Subset, FS_Union DEF DerivedView
    <3>2. DerivedView \ work[w].pruned \in SUBSET DerivedView
      OBVIOUS
    <3>3. IsFiniteSet(DerivedView \ work[w].pruned)
      BY <3>1, <3>2, FS_Subset
    <3> QED  BY <3>3, FS_AddElement
  <2>3. ASSUME NEW p \in work[w].pruned \cap DerivedView
        PROVE  Cardinality({q \in later : Newer(q, p)}) >= RecentCap
    <3>1. p.from < runs.derived
      BY <1>1, <1>5 DEF PrunedInv
    <3>2. p \in recent \ derived.gone
      BY <1>2, <3>1 DEF DerivedView
    <3>3. \A q \in after : Newer(q, p) => q \in later
      <4> SUFFICES ASSUME NEW q \in recent \ work[w].pruned, Newer(q, p)  PROVE q \in DerivedView
        OBVIOUS
      <4>1. q \notin derived.gone
        BY <2>1, <3>2, NewerIsLeft
      <4> QED  BY <4>1 DEF DerivedView
    <3>4. Cardinality({q \in after : Newer(q, p)}) >= RecentCap
      BY <1>5, <3>2 DEF PrunedInv
    <3> HIDE DEF after, later
    <3>5. {q \in after : Newer(q, p)} \in SUBSET {q \in later : Newer(q, p)}
      BY <3>3
    <3>6. IsFiniteSet({q \in later : Newer(q, p)})
      BY <2>2, FS_Subset
    <3> QED  BY <2>1, <3>4, <3>5, <3>6, AsMany
  <2>4. \A p \in work[w].pruned : p.from <= runs.derived
    BY <1>5 DEF PrunedInv
  <2> QED  BY <1>1, <2>3, <2>4 DEF PrunedInv, OwnRow
<1>6. \A w \in Worker : PrunedInv(w)'
  BY <1>1, <1>5 DEF PrunedInv
<1> QED  BY <1>3, <1>4, <1>6

\* The backfill's steps.
LEMMA DerivedKeeps ==
  ASSUME BaseInv, RolloutRecentInv, BackfillProbeDerived
  PROVE  RolloutRecentInv'
<1>1. rollout /\ UNCHANGED <<hist, work, rollout>>
  BY JobsLeaveProbes DEF Jobs, BaseInv, RolloutInv, BackfillProbeDerived, StartDerived,
    InsertDerived, ReadDerived, WriteDerived, DerivedFails
<1>2. KeptInv /\ CopiesInv /\ \A w \in Worker : PrunedInv(w)
  BY <1>1 DEF RolloutRecentInv
<1>3. ASSUME NEW cutoff \in Cutoffs, StartDerived(cutoff)  PROVE RolloutRecentInv'
  BY <1>2, <1>3, StartKeeps DEF RolloutRecentInv
<1>4. CASE InsertDerived
  BY <1>1, <1>2, <1>4, InsertKeeps DEF RolloutRecentInv
<1>5. CASE ReadDerived
  <2>1. /\ UNCHANGED <<recent, runs>> /\ derived.phase = "read" /\ derived'.phase = "write"
        /\ derived'.cutoff = derived.cutoff /\ derived'.gone = derived.gone
        /\ derived'.copies = derived.copies
    BY <1>5 DEF ReadDerived, probeTables, BaseInv, TypedJobs
  <2>2. KeptInv' /\ CopiesInv'
    BY <1>1, <1>2, <2>1 DEF KeptInv, CopiesInv, DerivedView
  <2>3. \A w \in Worker : PrunedInv(w)'
    BY <1>1, <1>2, <2>1 DEF PrunedInv, OwnRow
  <2> QED  BY <2>2, <2>3 DEF RolloutRecentInv
<1>6. CASE WriteDerived
  BY <1>2, <1>6, WriteKeeps DEF RolloutRecentInv
<1>7. CASE DerivedFails
  <2>1. /\ UNCHANGED <<recent, runs>>
        /\ derived'.phase = "idle" /\ derived'.gone = {} /\ derived'.copies = {}
    BY <1>7 DEF DerivedFails, IdleDerived, probeTables
  <2>2. KeptInv' /\ CopiesInv'
    BY <1>1, <1>2, <2>1 DEF KeptInv, CopiesInv
  <2>3. \A w \in Worker : PrunedInv(w)'
    BY <1>1, <1>2, <2>1 DEF PrunedInv, OwnRow
  <2> QED  BY <2>2, <2>3 DEF RolloutRecentInv
<1> QED  BY <1>3, <1>4, <1>5, <1>6, <1>7 DEF BackfillProbeDerived

\* Every step, whatever the cutoff.
LEMMA NextKeeps ==
  ASSUME BaseInv, RolloutRecentInv, [Next]_vars
  PROVE  RolloutRecentInv'
<1>1. CASE UNCHANGED <<recent, hist, work, derived, rollout>> /\ runs'.derived = runs.derived
  <2> SUFFICES ASSUME rollout  PROVE (KeptInv /\ CopiesInv /\ \A w \in Worker : PrunedInv(w))'
    BY <1>1 DEF RolloutRecentInv
  <2>1. KeptInv /\ CopiesInv /\ \A w \in Worker : PrunedInv(w)
    BY DEF RolloutRecentInv
  <2>2. KeptInv' /\ CopiesInv'
    BY <1>1, <2>1 DEF KeptInv, CopiesInv, DerivedView
  <2>3. \A w \in Worker : PrunedInv(w)'
    BY <1>1, <2>1 DEF PrunedInv, OwnRow
  <2> QED  BY <2>2, <2>3
<1>2. CASE UNCHANGED vars \/ Tick
  BY <1>1, <1>2 DEF vars, Tick, probeTables, jobs, leaseVars
<1>3. ASSUME NEW w \in Worker, Probe(w)  PROVE RolloutRecentInv'
  BY <1>3, ProbeKeeps
<1>4. CASE Cleanup
  <2>1. ~rollout'
    BY <1>4, JobsLeaveProbes DEF Jobs, Cleanup, StartCleanup, DeleteExpiredBatch, CleanupFails,
      BaseInv, RolloutInv
  <2> QED  BY <2>1 DEF RolloutRecentInv
<1>5. CASE BackfillProbeHourlyRollups
  <2>1. UNCHANGED <<recent, hist, work, derived, rollout>>
    BY <1>5, JobsLeaveProbes, RollupsTypes DEF Jobs, BaseInv
  <2>2. runs'.derived = runs.derived
    BY <1>5 DEF BackfillProbeHourlyRollups, StartRollups, ReadChunk, WriteChunk, RollupsFail,
      BaseInv, Typed
  <2> QED  BY <1>1, <2>1, <2>2
<1> QED  BY <1>2, <1>3, <1>4, <1>5, DerivedKeeps, StepCases DEF Jobs

\* Whatever cutoffs an operator passes, however often the backfill of the derived tables
\* is run or fails, and whatever completes meanwhile: the recent rows have every result of
\* the new workers, and every one from before that a backfilled row is no older than, that
\* a cap's worth of newer rows does not replace; and no result twice, but for a completion
\* that a backfill has overtaken.
THEOREM BackfillKeepsNewest == Spec => []RecentKeepsNewest
<1>1. Init => RolloutRecentInv
  BY InitRolloutRecent
<1>2. BaseInv /\ RolloutRecentInv /\ [Next]_vars => RolloutRecentInv'
  BY NextKeeps
<1>3. RolloutRecentInv => RecentKeepsNewest
  BY DEF RolloutRecentInv, KeptInv, Settled, HasRow, HasNewer, NoTwoCopies, RecentKeepsNewest
<1> QED  BY <1>1, <1>2, <1>3, BaseHolds, PTL DEF Spec
===============================================================================
