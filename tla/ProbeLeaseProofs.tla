--------------------------- MODULE ProbeLeaseProofs ---------------------------
(***************************************************************************)
(* Theorems about ProbeLease, for every set of configs and workers, every  *)
(* cadence, lease length and batch size, and with no bound on time, leases *)
(* or crashes that matters (MaxTime, MaxClaims and MaxCrashes are          *)
(* arbitrary).                                                             *)
(***************************************************************************)
EXTENDS ProbeLeaseTimed, TLAPS

-------------------------------------------------------------------------------
(* The cadence arithmetic of ProbeSchedule, for every interval and minimum *)
(* lease.                                                                  *)

\* The quotient of a division by the interval leaves a remainder below it
\* (missedIntervals of nextProbeRunAt is such a quotient).
LEMMA QuotientBounds ==
  ASSUME NEW d \in Nat
  PROVE  /\ d \div Interval \in Nat
         /\ (d \div Interval) * Interval \in Nat
         /\ (d \div Interval) * Interval <= d
         /\ d < (d \div Interval) * Interval + Interval
<1> DEFINE q == d \div Interval
           r == d % Interval
<1>1. q \in Nat /\ r \in Nat /\ r < Interval /\ d = Interval * q + r
  BY CadenceAssumption, SMT
<1>2. Interval * q = q * Interval /\ q * Interval \in Nat
  BY <1>1, CadenceAssumption, SMT
<1>3. QED
  BY <1>1, <1>2, CadenceAssumption, SMT

\* A claim always moves the config's next run beyond the clock reading it used,
\* never backwards, and by less than one interval more than it has to: no slot
\* that is still ahead is given up (storage/probes.go nextProbeRunAt).
THEOREM NextRunBounds ==
  ASSUME NEW current \in Time, NEW at \in Time, NEW jitter \in Nat
  PROVE  LET next == nextProbeRunAt(current, at, jitter) IN
         /\ next \in Time
         /\ next > at
         /\ next >= current
         /\ next = current \/ next - Interval <= at
<1> DEFINE d == at - current
           m == (d \div Interval) * Interval
<1>1. CASE current > at
  BY <1>1 DEF nextProbeRunAt, Time, NoTime
<1>2. CASE current <= at
  <2>1. d \in Nat
    BY <1>2 DEF Time
  <2>2. m \in Nat /\ m <= d /\ d < m + Interval
    BY <2>1, QuotientBounds
  <2>3. d \div Interval \in Nat
    BY <2>1, QuotientBounds
  <2>4. (d \div Interval + 1) * Interval = m + Interval
    BY <2>3, CadenceAssumption, SMT
  <2>5. nextProbeRunAt(current, at, jitter) = current + (m + Interval)
    BY <1>2, <2>4 DEF nextProbeRunAt, Time, NoTime
  <2> HIDE DEF m
  <2>6. QED
    BY <2>2, <2>5, CadenceAssumption DEF Time
<1>3. QED
  BY <1>1, <1>2 DEF Time

\* A claim moves the next run by a whole number of intervals: the phase given by
\* the config's jitter is kept for ever (storage/probes.go nextProbeRunAt).
THEOREM NextRunKeepsPhase ==
  ASSUME NEW current \in Time, NEW at \in Time, NEW jitter \in Nat
  PROVE  \E k \in Nat : nextProbeRunAt(current, at, jitter) = current + k * Interval
<1>1. CASE current > at
  <2>1. nextProbeRunAt(current, at, jitter) = current + 0 * Interval
    BY <1>1, CadenceAssumption DEF nextProbeRunAt, Time, NoTime
  <2>2. QED
    BY <2>1
<1>2. CASE current <= at
  <2>1. at - current \in Nat
    BY <1>2 DEF Time
  <2>2. (at - current) \div Interval + 1 \in Nat
    BY <2>1, QuotientBounds
  <2>3. nextProbeRunAt(current, at, jitter)
          = current + ((at - current) \div Interval + 1) * Interval
    BY <1>2 DEF nextProbeRunAt, Time, NoTime
  <2>4. QED
    BY <2>2, <2>3
<1>3. QED
  BY <1>1, <1>2 DEF Time

LEMMA MultipleHasNoRemainder ==
  ASSUME NEW a \in Nat, NEW b \in Nat, NEW k \in Nat, b = a + k * Interval
  PROVE  (b - a) % Interval = 0
<1>1. Interval \in Nat /\ Interval > 0 /\ k * Interval \in Nat
  BY CadenceAssumption
<1>2. b - a = k * Interval
  BY <1>1
<1>3. (k * Interval) % Interval = 0
  BY <1>1
<1>4. QED
  BY <1>2, <1>3

\* A lease lasts at least twice the request's timeout and is never empty, so that
\* a single probe always ends within its lease (probeLeaseDuration).
LEMMA LeaseCoversTimeout ==
  ASSUME NEW timeout \in Nat
  PROVE  /\ probeLeaseDuration(timeout) \in Nat \ {0}
         /\ probeLeaseDuration(timeout) > normalizedProbeTimeout(timeout)
BY CadenceAssumption DEF probeLeaseDuration, normalizedProbeTimeout

\* The claim query's WHERE clause and the Go predicate that the unit tests
\* exercise (shouldClaimProbeConfig) decide alike on every row.
THEOREM DuePredicatesAgree ==
  ASSUME NEW enabled \in BOOLEAN, NEW nextRun \in OptTime, NEW expires \in OptTime,
         NEW at \in Time
  PROVE  ClaimableInSQL(enabled, nextRun, expires, at)
           <=> shouldClaimProbeConfig(enabled, nextRun, expires, at)
BY DEF ClaimableInSQL, shouldClaimProbeConfig, OptTime, Time, NoTime

-------------------------------------------------------------------------------
(* The inductive invariant. *)

\* The claims worker w has in memory and may still complete.
Held(w) ==
  sweep[w].todo \cup (IF sweep[w].phase \in {"probe", "write"} THEN {sweep[w].head} ELSE {})

\* A lease has a token and an expiry or neither; no token is ahead of `issued`;
\* what is not stored was never claimed.
LeaseInv ==
  \A c \in Config :
    /\ cfg[c].token = NoToken <=> cfg[c].expires = NoTime
    /\ cfg[c].token <= issued[c]
    /\ c \notin stored => issued[c] = 0

\* A worker inside a probe has a claim at hand; what it holds was issued, and
\* agrees with the row as long as the row has its token.
ClaimInv ==
  \A w \in Worker :
    /\ sweep[w].phase \in {"probe", "write"} => sweep[w].head \in Claim
    /\ \A p \in Held(w) :
         /\ p.token <= issued[p.config]
         /\ cfg[p.config].token = p.token => p.nextRun = cfg[p.config].nextRun

\* Every result belongs to a slot the schedule has reached, and a config under
\* lease has no result yet for the slot that the lease serves.
RowInv ==
  \A r \in rows :
    /\ r.token <= issued[r.config]
    /\ r.slot <= cfg[r.config].nextRun
    /\ cfg[r.config].token # NoToken
         => r.token < cfg[r.config].token /\ r.slot < cfg[r.config].nextRun

\* last_checked_at is the latest of the results' times, and no worker that still
\* owns its lease brings an earlier one.
TimeInv ==
  /\ \A c \in Config : cfg[c].lastChecked <= now
  /\ \A r \in rows : r.checkedAt <= cfg[r.config].lastChecked
  /\ \A w \in Worker :
       /\ sweep[w].at <= now
       /\ sweep[w].phase = "write" =>
            /\ sweep[w].checkedAt <= now
            /\ cfg[sweep[w].head.config].token = sweep[w].head.token
                 => cfg[sweep[w].head.config].lastChecked <= sweep[w].checkedAt

\* A lease taken away is never the current one again.
RevokedInv ==
  \A x \in revoked : x[2] <= issued[x[1]] /\ x[2] # cfg[x[1]].token /\ x[2] # NoToken

\* What a sweep has claimed is not due at the sweep's clock reading.
SweepInv ==
  \A w \in Worker : \A c \in sweep[w].claimed :
    /\ c \in stored
    /\ cfg[c].nextRun > sweep[w].at
    /\ cfg[c].expires = NoTime \/ cfg[c].expires > sweep[w].at

\* The three properties of the results that the invariant carries.
ResultInv == OneRowPerSlot /\ RowsInClaimOrder /\ RevokedNeverRecorded

IInv ==
  /\ TypeOK
  /\ LeaseInv
  /\ ClaimInv
  /\ RowInv
  /\ TimeInv
  /\ RevokedInv
  /\ SweepInv
  /\ ResultInv

-------------------------------------------------------------------------------
(* Type correctness. *)

LEMMA InitType == Init => TypeOK
<1> SUFFICES ASSUME Init PROVE TypeOK
  OBVIOUS
<1>1. \A c \in Config : DefaultProbeConfig(c, 0) \in ProbeConfig
  BY LeaseAssumption, CadenceAssumption
  DEF DefaultProbeConfig, ProbeConfig, initialProbeRunAt, Time, OptTime, NoTime, NoToken
<1>2. IdleSweep \in Sweep
  BY DEF IdleSweep, Sweep, Phase, Time
<1>3. QED
  BY <1>1, <1>2 DEF Init, TypeOK, Time

\* What a claim hands to the worker is a claim, and what it writes is a config row
\* whose lease ends, and whose next run lies, after the clock reading it used.
LEMMA ClaimType ==
  ASSUME TypeOK, NEW c \in Config, NEW at \in Time
  PROVE  /\ ClaimOf(c, at) \in Claim
         /\ ClaimOf(c, at).config = c
         /\ ClaimOf(c, at).token = issued[c] + 1
         /\ ClaimOf(c, at).nextRun = LeasedRow(c, at).nextRun
         /\ LeasedRow(c, at) \in ProbeConfig
         /\ LeasedRow(c, at).token = issued[c] + 1
         /\ LeasedRow(c, at).lastChecked = cfg[c].lastChecked
         /\ LeasedRow(c, at).expires > at
         /\ LeasedRow(c, at).nextRun > at
         /\ LeasedRow(c, at).nextRun >= cfg[c].nextRun
<1> DEFINE next == nextProbeRunAt(cfg[c].nextRun, at, Jitter[c])
           expiry == at + probeLeaseDuration(cfg[c].timeout)
<1>1. cfg[c] \in ProbeConfig /\ issued[c] \in Nat /\ Jitter[c] \in Nat
  BY LeaseAssumption DEF TypeOK
<1>2. cfg[c].nextRun \in Time /\ cfg[c].timeout \in Timeout \cup {DefaultTimeout}
  BY <1>1 DEF ProbeConfig
<1>3. next \in Time /\ next > at /\ next >= cfg[c].nextRun
  BY <1>1, <1>2, NextRunBounds
<1>4. probeLeaseDuration(cfg[c].timeout) \in Nat \ {0}
  BY <1>2, LeaseCoversTimeout, LeaseAssumption, CadenceAssumption
<1>5. expiry \in Time /\ expiry > at
  BY <1>4 DEF Time
<1> HIDE DEF next, expiry
<1>6. LeasedRow(c, at)
        = [cfg[c] EXCEPT !.token = issued[c] + 1, !.expires = expiry, !.nextRun = next]
  BY DEF LeasedRow, next, expiry
<1>7. ClaimOf(c, at) = [config |-> c, token |-> issued[c] + 1, due |-> cfg[c].nextRun,
                        nextRun |-> next, timeout |-> cfg[c].timeout]
  BY DEF ClaimOf, next
<1>8. ClaimOf(c, at) \in Claim
  BY <1>1, <1>2, <1>3, <1>7 DEF Claim, NoToken
<1>9. LeasedRow(c, at) \in ProbeConfig
  <2>1. issued[c] + 1 \in Nat /\ expiry \in OptTime
    BY <1>1, <1>5 DEF OptTime, Time
  <2>2. QED
    BY <1>1, <1>3, <1>6, <2>1 DEF ProbeConfig
<1>10. /\ LeasedRow(c, at).token = issued[c] + 1
       /\ LeasedRow(c, at).expires = expiry
       /\ LeasedRow(c, at).nextRun = next
       /\ LeasedRow(c, at).lastChecked = cfg[c].lastChecked
  BY <1>1, <1>6 DEF ProbeConfig
<1>11. QED
  BY <1>3, <1>5, <1>7, <1>8, <1>9, <1>10

\* The sweep after a claim, field by field.
LEMMA BatchSweepType ==
  ASSUME TypeOK, NEW w \in Worker, NEW batch \in SUBSET Config
  PROVE  /\ BatchSweep(sweep[w], batch) \in Sweep
         /\ batch # {} =>
              /\ BatchSweep(sweep[w], batch).todo = {ClaimOf(c, sweep[w].at) : c \in batch}
              /\ BatchSweep(sweep[w], batch).phase = "next"
              /\ BatchSweep(sweep[w], batch).at = sweep[w].at
              /\ BatchSweep(sweep[w], batch).claimed = sweep[w].claimed \cup batch
<1> DEFINE at == sweep[w].at
           claims == {ClaimOf(c, at) : c \in batch}
           whole == (Cardinality(batch) = BatchSize)
<1>1. sweep[w] \in Sweep /\ at \in Time
  BY DEF TypeOK, Sweep
<1>2. claims \in SUBSET Claim
  BY <1>1, ClaimType
<1>3. IdleSweep \in Sweep
  BY DEF IdleSweep, Sweep, Phase, Time
<1>4. whole \in BOOLEAN
  OBVIOUS
<1> HIDE DEF claims, whole
<1>5. CASE batch # {}
  <2>1. BatchSweep(sweep[w], batch) = [sweep[w] EXCEPT !.phase = "next", !.todo = claims,
                                         !.full = whole, !.claimed = @ \cup batch]
    BY <1>5 DEF BatchSweep, claims, whole
  <2>2. QED
    BY <1>1, <1>2, <1>4, <1>5, <2>1 DEF Sweep, Phase, claims
<1>6. CASE batch = {}
  BY <1>3, <1>6 DEF BatchSweep
<1>7. QED
  BY <1>5, <1>6

LEMMA TypeStep == TypeOK /\ ClaimInv /\ [Next]_vars => TypeOK'
<1> SUFFICES ASSUME TypeOK, ClaimInv, [Next]_vars PROVE TypeOK'
  OBVIOUS
<1> USE DEF TypeOK
<1>1. CASE Tick
  BY <1>1 DEF Tick, Time
<1>2. ASSUME NEW c \in Config, EnsureDefaultProbeConfig(c) PROVE TypeOK'
  <2>1. DefaultProbeConfig(c, now) \in ProbeConfig
    BY LeaseAssumption, CadenceAssumption
    DEF DefaultProbeConfig, ProbeConfig, initialProbeRunAt, Time, OptTime, NoTime, NoToken
  <2>2. QED
    BY <1>2, <2>1 DEF EnsureDefaultProbeConfig
<1>3. ASSUME NEW c \in Config, NEW b \in BOOLEAN, UpdateService(c, b) PROVE TypeOK'
  BY <1>3 DEF UpdateService
<1>4. ASSUME NEW c \in Config, NEW b \in BOOLEAN, NEW t \in Timeout,
             UpsertNewProbeConfig(c, b, t)
      PROVE  TypeOK'
  <2> DEFINE given == IF t = 0 THEN DefaultTimeout ELSE t
  <2>1. DefaultProbeConfig(c, now) \in ProbeConfig
    BY LeaseAssumption, CadenceAssumption
    DEF DefaultProbeConfig, ProbeConfig, initialProbeRunAt, Time, OptTime, NoTime, NoToken
  <2>2. [cfg[c] EXCEPT !.enabled = b, !.timeout = t] \in ProbeConfig
    BY DEF ProbeConfig
  <2>3. [DefaultProbeConfig(c, now) EXCEPT !.timeout = given] \in ProbeConfig
    BY <2>1 DEF ProbeConfig
  <2>4. cfg' = [cfg EXCEPT ![c] =
                  IF c \in stored THEN [cfg[c] EXCEPT !.enabled = b, !.timeout = t]
                  ELSE [DefaultProbeConfig(c, now) EXCEPT !.timeout = given]]
    BY <1>4 DEF UpsertNewProbeConfig
  <2> HIDE DEF given
  <2>5. QED
    BY <1>4, <2>2, <2>3, <2>4 DEF UpsertNewProbeConfig
<1>5. ASSUME NEW c \in Config, NEW b \in BOOLEAN, NEW t \in Timeout,
             UpsertProbeConfig(c, b, t)
      PROVE  TypeOK'
  <2>1. cfg' \in [Config -> ProbeConfig]
    <3>1. cfg[c] \in ProbeConfig /\ NoTime \in OptTime /\ NoToken \in Nat
      BY DEF OptTime, NoToken
    <3>2. [cfg[c] EXCEPT !.enabled = TRUE, !.timeout = t] \in ProbeConfig
      BY <3>1 DEF ProbeConfig
    <3>3. [cfg[c] EXCEPT !.enabled = FALSE, !.timeout = t, !.token = NoToken,
             !.expires = NoTime] \in ProbeConfig
      BY <3>1 DEF ProbeConfig
    <3>4. QED
      BY <1>5, <3>2, <3>3 DEF UpsertProbeConfig
  <2>2. revoked' \in SUBSET (Config \X Nat)
    BY <1>5 DEF UpsertProbeConfig, ProbeConfig
  <2>3. QED
    BY <1>5, <2>1, <2>2 DEF UpsertProbeConfig
<1>6. ASSUME NEW w \in Worker, StartSweep(w) PROVE TypeOK'
  BY <1>6 DEF StartSweep, Sweep, IdleSweep, Phase, Time
<1>7. ASSUME NEW w \in Worker, NEW skipped \in SUBSET stored,
             ClaimDueProbeConfigs(w, skipped)
      PROVE  TypeOK'
  <2> DEFINE at == sweep[w].at
  <2>1. at \in Time
    BY DEF Sweep
  <2>2. PICK batch \in FirstByNextRun(Due(at) \ skipped, BatchSize) : GrantLeases(w, batch)
    BY <1>7 DEF ClaimDueProbeConfigs
  <2>3. batch \in SUBSET Config
    BY DEF FirstByNextRun, Due
  <2>4. cfg' \in [Config -> ProbeConfig]
    BY <2>1, <2>2, <2>3, ClaimType DEF GrantLeases
  <2>5. issued' \in [Config -> Nat]
    BY <2>2, <2>3 DEF GrantLeases
  <2>6. BatchSweep(sweep[w], batch) \in Sweep
    BY <2>3, BatchSweepType
  <2>7. sweep' \in [Worker -> Sweep]
    BY <2>2, <2>6 DEF GrantLeases
  <2>8. QED
    BY <1>7, <2>4, <2>5, <2>7 DEF ClaimDueProbeConfigs
<1>8. ASSUME NEW w \in Worker, ClaimFails(w) PROVE TypeOK'
  BY <1>8 DEF ClaimFails, Sweep, IdleSweep, Phase, Time
<1>9. ASSUME NEW w \in Worker, StartProbe(w) PROVE TypeOK'
  <2>1. PICK p \in sweep[w].todo : sweep' = [sweep EXCEPT ![w] = ProbingSweep(@, p)]
    BY <1>9 DEF StartProbe
  <2>2. p \in Claim
    BY DEF Sweep
  <2>3. ProbingSweep(sweep[w], p) \in Sweep
    BY <2>2 DEF ProbingSweep, Sweep, Phase
  <2>4. QED
    BY <1>9, <2>1, <2>3 DEF StartProbe
<1>10. ASSUME NEW w \in Worker, FinishProbe(w) PROVE TypeOK'
  BY <1>10 DEF FinishProbe, Sweep, Phase
<1>11. ASSUME NEW w \in Worker, NextProbe(w) PROVE sweep' \in [Worker -> Sweep]
  <2> DEFINE s == [sweep[w] EXCEPT !.phase = "next", !.head = NoClaim, !.started = 0,
                                   !.checkedAt = 0]
  <2>1. sweep[w] \in Sweep
    OBVIOUS
  <2>2. s \in Sweep
    BY <2>1 DEF Sweep, Phase, Time
  <2>3. sweep' = [sweep EXCEPT ![w] = s]
    BY <1>11 DEF NextProbe
  <2> HIDE DEF s
  <2>4. QED
    BY <2>2, <2>3
<1>12. ASSUME NEW w \in Worker, CompleteProbeLease(w) PROVE TypeOK'
  <2>1. sweep[w].head \in Claim /\ sweep[w].checkedAt \in Time
    BY <1>12 DEF CompleteProbeLease, ClaimInv, Sweep
  <2>2. sweep[w].head.config \in Config /\ RowOf(w) \in Row
    BY <2>1 DEF Claim, RowOf, Row
  <2>3. rows' \in SUBSET Row
    BY <1>12, <2>2 DEF CompleteProbeLease
  <2>4. cfg' \in [Config -> ProbeConfig]
    BY <1>12, <2>1, <2>2 DEF CompleteProbeLease, ProbeConfig, OptTime, NoTime, NoToken, Time
  <2>5. sweep' \in [Worker -> Sweep]
    BY <1>11, <1>12 DEF CompleteProbeLease
  <2>6. QED
    BY <1>12, <2>3, <2>4, <2>5 DEF CompleteProbeLease
<1>13. ASSUME NEW w \in Worker, LeaseNotFound(w) PROVE TypeOK'
  BY <1>11, <1>13 DEF LeaseNotFound
<1>14. ASSUME NEW w \in Worker, ProbeFails(w) PROVE TypeOK'
  BY <1>11, <1>14 DEF ProbeFails
<1>15. ASSUME NEW w \in Worker, EndBatch(w) PROVE TypeOK'
  BY <1>15 DEF EndBatch, Sweep, IdleSweep, Phase, Time
<1>16. ASSUME NEW w \in Worker, Crash(w) PROVE TypeOK'
  BY <1>16 DEF Crash, Sweep, IdleSweep, Phase, Time
<1>17. CASE UNCHANGED vars
  BY <1>17 DEF vars
<1>18. QED
  BY <1>1, <1>2, <1>3, <1>4, <1>5, <1>6, <1>7, <1>8, <1>9, <1>10, <1>12, <1>13, <1>14,
     <1>15, <1>16, <1>17 DEF Next, Edit, WorkerStep, WorkerFault

-------------------------------------------------------------------------------
(* The inductive invariant is preserved. *)

\* What a worker holds are claims.
LEMMA HeldType ==
  ASSUME TypeOK, ClaimInv, NEW w \in Worker, NEW p \in Held(w)
  PROVE  /\ p \in Claim
         /\ p.config \in Config /\ p.token \in Nat /\ p.token # NoToken /\ p.nextRun \in Time
<1>1. p \in Claim
  BY DEF TypeOK, ClaimInv, Held, Sweep
<1>2. QED
  BY <1>1 DEF Claim

\* Rows of the tables, with the types of their fields.
LEMMA FieldTypes ==
  ASSUME TypeOK, NEW c \in Config
  PROVE  /\ cfg[c].token \in Nat /\ cfg[c].nextRun \in Nat /\ issued[c] \in Nat
         /\ cfg[c].expires \in OptTime /\ cfg[c].lastChecked \in Int
BY DEF TypeOK, ProbeConfig, Time, OptTime, NoTime

LEMMA RowTypes ==
  ASSUME TypeOK, NEW r \in rows
  PROVE  /\ r \in Row
         /\ r.config \in Config /\ r.token \in Nat /\ r.token # NoToken
         /\ r.slot \in Nat /\ r.checkedAt \in Nat
BY DEF TypeOK, Row, Time

\* A step that leaves the tables alone, and in which every worker only drops
\* claims, starts a new sweep or reads the clock, preserves the invariant.
LEMMA MemoryStep ==
  ASSUME IInv, TypeOK', UNCHANGED <<stored, cfg, rows, issued, revoked>>, now' >= now,
         \A w \in Worker :
           /\ Held(w)' \subseteq Held(w)
           /\ sweep'[w].phase \in {"probe", "write"} => sweep'[w].head \in Held(w)
           /\ sweep'[w].at <= now'
           /\ \/ sweep'[w].claimed = {}
              \/ sweep'[w].claimed = sweep[w].claimed /\ sweep'[w].at = sweep[w].at
           /\ sweep'[w].phase = "write" =>
                \/ sweep'[w] = sweep[w]
                \/ sweep'[w].checkedAt = now'
  PROVE  IInv'
<1> USE DEF IInv
<1>1. LeaseInv' /\ RowInv' /\ RevokedInv' /\ ResultInv'
  BY DEF LeaseInv, RowInv, RevokedInv, ResultInv, OneRowPerSlot, RowsInClaimOrder,
         RevokedNeverRecorded
<1>2. ClaimInv'
  BY HeldType DEF ClaimInv
<1>3. SweepInv'
  BY DEF SweepInv
<1>4. TimeInv'
  <2>1. \A c \in Config : cfg'[c].lastChecked <= now'
    BY FieldTypes DEF TimeInv, TypeOK, Time
  <2>2. \A r \in rows' : r.checkedAt <= cfg'[r.config].lastChecked
    BY DEF TimeInv
  <2>3. ASSUME NEW w \in Worker, sweep'[w].phase = "write"
        PROVE  /\ sweep'[w].checkedAt <= now'
               /\ cfg'[sweep'[w].head.config].lastChecked <= sweep'[w].checkedAt
                  \/ cfg'[sweep'[w].head.config].token # sweep'[w].head.token
    <3>1. CASE sweep'[w] = sweep[w]
      <4>1. sweep[w].checkedAt \in Nat /\ now \in Nat /\ now' \in Nat
        BY DEF TypeOK, Sweep, Time
      <4>2. QED
        BY <2>3, <3>1, <4>1 DEF TimeInv
    <3>2. CASE sweep'[w].checkedAt = now'
      <4>1. sweep'[w].head.config \in Config
        BY <2>3, HeldType
      <4>2. cfg'[sweep'[w].head.config].lastChecked <= now'
        BY <2>1, <4>1
      <4>3. now' \in Nat
        BY DEF TypeOK, Time
      <4>4. QED
        BY <3>2, <4>2, <4>3
    <3>3. QED
      BY <2>3, <3>1, <3>2
  <2>4. QED
    BY <2>1, <2>2, <2>3 DEF TimeInv
<1>5. QED
  BY <1>1, <1>2, <1>3, <1>4

\* A sweep that has ended, or a process that has died, holds nothing.
LEMMA IdleHolds ==
  ASSUME TypeOK, NEW w \in Worker, sweep' = [sweep EXCEPT ![w] = IdleSweep]
  PROVE  /\ sweep'[w].phase = "idle" /\ sweep'[w].at = 0 /\ sweep'[w].claimed = {}
         /\ Held(w)' = {}
BY DEF TypeOK, IdleSweep, Held

\* The steps of the sweep that touch only the worker's memory, and the clock.
LEMMA MemoryActions ==
  ASSUME IInv, TypeOK',
         \/ Tick
         \/ \E c \in Config, b \in BOOLEAN : UpdateService(c, b)
         \/ \E w \in Worker :
              \/ StartSweep(w) \/ ClaimFails(w) \/ StartProbe(w) \/ FinishProbe(w)
              \/ LeaseNotFound(w) \/ ProbeFails(w) \/ EndBatch(w) \/ Crash(w)
  PROVE  IInv'
<1> USE DEF IInv
<1>1. now \in Nat /\ now' \in Nat /\ \A v \in Worker : sweep[v] \in Sweep /\ sweep[v].at \in Nat
  BY DEF TypeOK, Sweep, Time
<1>2. \A v \in Worker : sweep[v].at <= now
  BY DEF TimeInv
\* What a step of one worker leaves to show: the others are as they were.
<1>3. ASSUME NEW w \in Worker, now' = now, UNCHANGED <<stored, cfg, rows, issued, revoked>>,
             \A v \in Worker \ {w} : sweep'[v] = sweep[v],
             Held(w)' \subseteq Held(w),
             sweep'[w].phase \in {"probe", "write"} => sweep'[w].head \in Held(w),
             sweep'[w].at <= now,
             \/ sweep'[w].claimed = {}
             \/ sweep'[w].claimed = sweep[w].claimed /\ sweep'[w].at = sweep[w].at,
             sweep'[w].phase = "write" => sweep'[w].checkedAt = now
      PROVE  IInv'
  <2>1. \A v \in Worker \ {w} :
          /\ Held(v)' = Held(v)
          /\ sweep'[v].phase \in {"probe", "write"} => sweep'[v].head \in Held(v)
    BY <1>3 DEF Held
  <2>2. QED
    BY <1>1, <1>2, <1>3, <2>1, MemoryStep
<1>4. CASE Tick
  <2>1. \A v \in Worker : Held(v)' = Held(v)
           /\ (sweep'[v].phase \in {"probe", "write"} => sweep'[v].head \in Held(v))
    BY <1>4 DEF Tick, Held
  <2>2. now' >= now /\ UNCHANGED <<stored, cfg, rows, issued, revoked, sweep>>
    BY <1>1, <1>4 DEF Tick
  <2>3. \A v \in Worker : sweep'[v].at <= now'
    BY <1>1, <1>2, <2>2
  <2>4. QED
    BY <2>1, <2>2, <2>3, MemoryStep
<1>5. ASSUME NEW c \in Config, NEW b \in BOOLEAN, UpdateService(c, b) PROVE IInv'
  <2>1. \A v \in Worker : Held(v)' = Held(v)
           /\ (sweep'[v].phase \in {"probe", "write"} => sweep'[v].head \in Held(v))
    BY <1>5 DEF UpdateService, Held
  <2>2. now' = now /\ UNCHANGED <<stored, cfg, rows, issued, revoked, sweep>>
    BY <1>5 DEF UpdateService
  <2>3. QED
    BY <1>1, <1>2, <2>1, <2>2, MemoryStep
<1>6. ASSUME NEW w \in Worker, StartSweep(w) PROVE IInv'
  <2>1. sweep'[w] = [IdleSweep EXCEPT !.phase = "claim", !.at = now]
    BY <1>6 DEF StartSweep, TypeOK
  <2>2. /\ sweep'[w].phase = "claim" /\ sweep'[w].at = now /\ sweep'[w].todo = {}
        /\ sweep'[w].claimed = {}
    BY <2>1 DEF IdleSweep
  <2>3. Held(w)' = {}
    BY <2>2 DEF Held
  <2>4. QED
    BY <1>1, <1>3, <1>6, <2>2, <2>3 DEF StartSweep, TypeOK
<1>7. ASSUME NEW w \in Worker, ClaimFails(w) \/ Crash(w) PROVE IInv'
  <2>1. sweep' = [sweep EXCEPT ![w] = IdleSweep]
    BY <1>7 DEF ClaimFails, Crash
  <2>2. /\ sweep'[w].phase = "idle" /\ sweep'[w].at = 0 /\ sweep'[w].claimed = {}
        /\ Held(w)' = {}
    BY <2>1, IdleHolds
  <2>3. QED
    BY <1>1, <1>3, <1>7, <2>1, <2>2 DEF ClaimFails, Crash, TypeOK
<1>8. ASSUME NEW w \in Worker, StartProbe(w) PROVE IInv'
  <2>1. PICK p \in sweep[w].todo : sweep' = [sweep EXCEPT ![w] = ProbingSweep(@, p)]
    BY <1>8 DEF StartProbe
  <2>2. sweep'[w] = ProbingSweep(sweep[w], p)
    BY <2>1 DEF TypeOK
  <2>3. /\ sweep'[w].phase = "probe" /\ sweep'[w].head = p
        /\ sweep'[w].todo = sweep[w].todo \ {p}
        /\ sweep'[w].at = sweep[w].at /\ sweep'[w].claimed = sweep[w].claimed
    BY <1>1, <2>2 DEF ProbingSweep, Sweep
  <2>4. Held(w)' \subseteq Held(w) /\ sweep'[w].head \in Held(w)
    BY <2>3 DEF Held
  <2>5. QED
    BY <1>1, <1>2, <1>3, <1>8, <2>1, <2>3, <2>4 DEF StartProbe, TypeOK
<1>9. ASSUME NEW w \in Worker, FinishProbe(w) PROVE IInv'
  <2>1. sweep'[w] = [sweep[w] EXCEPT !.phase = "write", !.checkedAt = now]
    BY <1>9 DEF FinishProbe, TypeOK
  <2>2. /\ sweep'[w].phase = "write" /\ sweep'[w].head = sweep[w].head
        /\ sweep'[w].todo = sweep[w].todo /\ sweep'[w].checkedAt = now
        /\ sweep'[w].at = sweep[w].at /\ sweep'[w].claimed = sweep[w].claimed
    BY <1>1, <2>1 DEF Sweep
  <2>3. sweep[w].phase = "probe"
    BY <1>9 DEF FinishProbe
  <2>4. Held(w)' \subseteq Held(w)
    BY <2>2, <2>3 DEF Held
  <2>5. sweep'[w].head \in Held(w)
    BY <2>2, <2>3 DEF Held
  <2>6. QED
    BY <1>1, <1>2, <1>3, <1>9, <2>2, <2>4, <2>5 DEF FinishProbe, TypeOK
<1>10. ASSUME NEW w \in Worker, LeaseNotFound(w) \/ ProbeFails(w) PROVE IInv'
  <2>1. sweep'[w] = [sweep[w] EXCEPT !.phase = "next", !.head = NoClaim,
                                     !.started = 0, !.checkedAt = 0]
    BY <1>10 DEF LeaseNotFound, ProbeFails, NextProbe, TypeOK
  <2>2. /\ sweep'[w].phase = "next" /\ sweep'[w].todo = sweep[w].todo
        /\ sweep'[w].at = sweep[w].at /\ sweep'[w].claimed = sweep[w].claimed
    BY <1>1, <2>1 DEF Sweep
  <2>3. Held(w)' \subseteq Held(w)
    BY <2>2 DEF Held
  <2>4. QED
    BY <1>1, <1>2, <1>3, <1>10, <2>2, <2>3 DEF LeaseNotFound, ProbeFails, NextProbe, TypeOK
<1>11. ASSUME NEW w \in Worker, EndBatch(w) PROVE IInv'
  <2>1. CASE sweep[w].full
    <3>1. sweep'[w] = [sweep[w] EXCEPT !.phase = "claim"]
      BY <1>11, <2>1 DEF EndBatch, TypeOK
    <3>2. /\ sweep'[w].phase = "claim" /\ sweep'[w].todo = {} /\ sweep'[w].at = sweep[w].at
          /\ sweep'[w].claimed = sweep[w].claimed
      BY <1>1, <1>11, <3>1 DEF EndBatch, Sweep
    <3>3. Held(w)' \subseteq Held(w)
      BY <3>2 DEF Held
    <3>4. QED
      BY <1>1, <1>2, <1>3, <1>11, <3>2, <3>3 DEF EndBatch, TypeOK
  <2>2. CASE ~sweep[w].full
    <3>1. sweep' = [sweep EXCEPT ![w] = IdleSweep]
      BY <1>11, <2>2 DEF EndBatch
    <3>2. /\ sweep'[w].phase = "idle" /\ sweep'[w].at = 0 /\ sweep'[w].claimed = {}
          /\ Held(w)' = {}
      BY <3>1, IdleHolds
    <3>3. QED
      BY <1>1, <1>3, <1>11, <3>1, <3>2 DEF EndBatch, TypeOK
  <2>3. QED
    BY <2>1, <2>2
<1>12. QED
  BY <1>4, <1>5, <1>6, <1>7, <1>8, <1>9, <1>10, <1>11

\* A step that leaves the results, the workers and the clock alone, and in which a
\* stored config keeps its lease, its next run and its last check.
LEMMA SettingsStep ==
  ASSUME IInv, TypeOK', UNCHANGED <<sweep, rows, issued, revoked, now>>,
         stored \subseteq stored',
         NEW c \in Config, c \in stored',
         \A d \in Config \ {c} : cfg'[d] = cfg[d],
         \/ cfg'[c].token = cfg[c].token /\ cfg'[c].expires = cfg[c].expires
         \/ c \notin stored /\ cfg'[c].token = NoToken /\ cfg'[c].expires = NoTime,
         c \in stored =>
           /\ cfg'[c].nextRun = cfg[c].nextRun
           /\ cfg'[c].lastChecked = cfg[c].lastChecked,
         cfg'[c].lastChecked <= now,
         \A d \in stored' : d # c => d \in stored
  PROVE  IInv'
<1> USE DEF IInv
<1>1. \A d \in Config : d \notin stored => issued[d] = 0 /\ cfg[d].token = NoToken
  BY FieldTypes DEF LeaseInv, NoToken
<1>2. \A d \in Config : cfg'[d].token = cfg[d].token /\ cfg'[d].expires = cfg[d].expires
  BY <1>1 DEF LeaseInv
<1>3. \A v \in Worker : Held(v)' = Held(v)
  BY DEF Held
<1>4. \A v \in Worker : \A p \in Held(v) : p.config \in stored
  BY <1>1, HeldType DEF ClaimInv, NoToken
<1>5. \A r \in rows : r.config \in stored
  BY <1>1, RowTypes DEF RowInv, NoToken
<1>6. \A d \in stored : cfg'[d].nextRun = cfg[d].nextRun /\ cfg'[d].lastChecked = cfg[d].lastChecked
  BY DEF TypeOK
<1>7. LeaseInv'
  BY <1>2 DEF LeaseInv
<1>8. ClaimInv'
  BY <1>2, <1>3, <1>4, <1>6, HeldType DEF ClaimInv
<1>9. RowInv'
  BY <1>2, <1>5, <1>6, RowTypes DEF RowInv
<1>10. TimeInv'
  <2>1. \A v \in Worker : sweep[v].phase = "write" =>
          sweep[v].head \in Held(v)
    BY DEF Held
  <2>2. \A v \in Worker : sweep[v].phase = "write" =>
          /\ sweep[v].head.config \in Config
          /\ cfg'[sweep[v].head.config].lastChecked = cfg[sweep[v].head.config].lastChecked
    BY <1>4, <1>6, <2>1, HeldType
  <2>3. \A d \in Config : cfg'[d].lastChecked <= now
    BY DEF TimeInv
  <2>4. QED
    BY <1>2, <1>5, <1>6, <2>2, <2>3 DEF TimeInv
<1>11. RevokedInv'
  BY <1>2 DEF RevokedInv, TypeOK
<1>12. SweepInv'
  BY <1>2, <1>6 DEF SweepInv, TypeOK, Sweep
<1>13. ResultInv'
  BY DEF ResultInv, OneRowPerSlot, RowsInClaimOrder, RevokedNeverRecorded
<1>14. QED
  BY <1>7, <1>8, <1>9, <1>10, <1>11, <1>12, <1>13

\* Creating a config, and saving one through a form that knows no config ID.
LEMMA SettingsActions ==
  ASSUME IInv, TypeOK', NEW c \in Config,
         \/ EnsureDefaultProbeConfig(c)
         \/ \E b \in BOOLEAN, t \in Timeout : UpsertNewProbeConfig(c, b, t)
  PROVE  IInv'
<1> USE DEF IInv
<1>1. now \in Nat /\ cfg[c] \in ProbeConfig /\ cfg[c].lastChecked <= now
  BY DEF TypeOK, TimeInv, Time
<1>2. /\ DefaultProbeConfig(c, now).token = NoToken
      /\ DefaultProbeConfig(c, now).expires = NoTime
      /\ DefaultProbeConfig(c, now).lastChecked = NoTime
  BY DEF DefaultProbeConfig
<1>3. NoTime <= now
  BY <1>1 DEF NoTime
<1>4. CASE EnsureDefaultProbeConfig(c)
  <2>1. /\ cfg'[c] = DefaultProbeConfig(c, now) /\ c \notin stored
        /\ \A d \in Config \ {c} : cfg'[d] = cfg[d]
    BY <1>4 DEF EnsureDefaultProbeConfig, TypeOK
  <2>2. QED
    BY <1>2, <1>3, <1>4, <2>1, SettingsStep DEF EnsureDefaultProbeConfig
<1>5. ASSUME NEW b \in BOOLEAN, NEW t \in Timeout, UpsertNewProbeConfig(c, b, t)
      PROVE  IInv'
  <2>1. \A d \in Config \ {c} : cfg'[d] = cfg[d]
    BY <1>5 DEF UpsertNewProbeConfig, TypeOK
  <2>2. CASE c \in stored
    <3>1. cfg'[c] = [cfg[c] EXCEPT !.enabled = b, !.timeout = t]
      BY <1>5, <2>2 DEF UpsertNewProbeConfig, TypeOK
    <3>2. /\ cfg'[c].token = cfg[c].token /\ cfg'[c].expires = cfg[c].expires
          /\ cfg'[c].nextRun = cfg[c].nextRun /\ cfg'[c].lastChecked = cfg[c].lastChecked
      BY <1>1, <3>1 DEF ProbeConfig
    <3>3. QED
      BY <1>1, <1>5, <2>1, <3>2, SettingsStep DEF UpsertNewProbeConfig
  <2>3. CASE c \notin stored
    <3> DEFINE given == IF t = 0 THEN DefaultTimeout ELSE t
    <3>1. cfg'[c] = [DefaultProbeConfig(c, now) EXCEPT !.timeout = given]
      BY <1>5, <2>3 DEF UpsertNewProbeConfig, TypeOK
    <3> HIDE DEF given
    <3>2. /\ cfg'[c].token = NoToken /\ cfg'[c].expires = NoTime
          /\ cfg'[c].lastChecked = NoTime
      BY <3>1 DEF DefaultProbeConfig
    <3>3. QED
      BY <1>3, <1>5, <2>1, <2>3, <3>2, SettingsStep DEF UpsertNewProbeConfig
  <2>4. QED
    BY <2>2, <2>3
<1>6. QED
  BY <1>4, <1>5

\* Saving a config by its ID: disabling it takes the lease away.
LEMMA UpsertStep ==
  ASSUME IInv, TypeOK', NEW c \in Config, NEW b \in BOOLEAN, NEW t \in Timeout,
         UpsertProbeConfig(c, b, t)
  PROVE  IInv'
<1> USE DEF IInv
<1>1. UNCHANGED <<sweep, rows, issued, now, stored>> /\ c \in stored
  BY DEF UpsertProbeConfig
<1>2. cfg[c] \in ProbeConfig
  BY DEF TypeOK
<1>3. CASE b
  <2>1. cfg'[c] = [cfg[c] EXCEPT !.enabled = TRUE, !.timeout = t]
        /\ \A d \in Config \ {c} : cfg'[d] = cfg[d]
    BY <1>3 DEF UpsertProbeConfig, TypeOK
  <2>2. /\ cfg'[c].token = cfg[c].token /\ cfg'[c].expires = cfg[c].expires
        /\ cfg'[c].nextRun = cfg[c].nextRun /\ cfg'[c].lastChecked = cfg[c].lastChecked
    BY <1>2, <2>1 DEF ProbeConfig
  <2>3. cfg'[c].lastChecked <= now /\ revoked' = revoked
    BY <1>3, <2>2 DEF TimeInv, UpsertProbeConfig
  <2>4. QED
    BY <1>1, <2>1, <2>2, <2>3, SettingsStep
<1>4. CASE ~b
  <2>1. cfg'[c] = [cfg[c] EXCEPT !.enabled = FALSE, !.timeout = t, !.token = NoToken,
                                 !.expires = NoTime]
        /\ \A d \in Config \ {c} : cfg'[d] = cfg[d]
    BY <1>4 DEF UpsertProbeConfig, TypeOK
  <2>2. /\ cfg'[c].token = NoToken /\ cfg'[c].expires = NoTime
        /\ cfg'[c].nextRun = cfg[c].nextRun /\ cfg'[c].lastChecked = cfg[c].lastChecked
    BY <1>2, <2>1 DEF ProbeConfig
  <2>3. revoked' \subseteq revoked \cup {<<c, cfg[c].token>>}
        /\ (cfg[c].token = NoToken => revoked' = revoked)
    BY <1>4 DEF UpsertProbeConfig
  <2>4. \A d \in Config : cfg'[d].nextRun = cfg[d].nextRun
                          /\ cfg'[d].lastChecked = cfg[d].lastChecked
    BY <2>1, <2>2
  <2>5. LeaseInv'
    <3>1. c \in stored' /\ issued[c] \in Nat
      BY <1>1, FieldTypes
    <3>2. ASSUME NEW d \in Config
          PROVE  /\ cfg'[d].token = NoToken <=> cfg'[d].expires = NoTime
                 /\ cfg'[d].token <= issued'[d]
                 /\ d \notin stored' => issued'[d] = 0
      <4>1. CASE d = c
        BY <1>1, <2>2, <3>1, <4>1 DEF NoToken
      <4>2. CASE d # c
        <5>1. cfg'[d] = cfg[d]
          BY <2>1, <4>2
        <5>2. QED
          BY <1>1, <5>1 DEF LeaseInv
      <4>3. QED
        BY <4>1, <4>2
    <3>3. QED
      BY <3>2 DEF LeaseInv
  <2>6. ClaimInv'
    <3>1. \A v \in Worker : Held(v)' = Held(v)
      BY <1>1 DEF Held
    <3>2. \A v \in Worker : \A p \in Held(v) : p.config \in Config /\ p.token # NoToken
      BY HeldType
    <3>3. \A v \in Worker : \A p \in Held(v) :
            /\ p.token <= issued'[p.config]
            /\ cfg'[p.config].token = p.token => p.nextRun = cfg'[p.config].nextRun
      BY <1>1, <2>1, <2>2, <3>2 DEF ClaimInv
    <3>4. QED
      BY <1>1, <3>1, <3>3 DEF ClaimInv
  <2>7. RowInv'
    BY <1>1, <2>1, <2>2, RowTypes DEF RowInv
  <2>8. TimeInv'
    <3>1. \A w \in Worker : sweep[w].phase = "write" => sweep[w].head \in Held(w)
      BY DEF Held
    <3>2. QED
      BY <1>1, <2>1, <2>2, <2>4, <3>1, HeldType, RowTypes DEF TimeInv
  <2>9. RevokedInv'
    <3>1. SUFFICES ASSUME NEW x \in revoked'
                   PROVE  x[2] <= issued[x[1]] /\ x[2] # cfg'[x[1]].token /\ x[2] # NoToken
      BY <1>1 DEF RevokedInv
    <3>2. CASE x \in revoked
      <4>1. x[1] \in Config
        BY <3>2 DEF TypeOK
      <4>2. QED
        BY <2>1, <2>2, <3>2, <4>1 DEF RevokedInv
    <3>3. CASE x \notin revoked
      <4>1. x = <<c, cfg[c].token>> /\ cfg[c].token # NoToken
        BY <2>3, <3>3
      <4>2. QED
        BY <2>2, <4>1, FieldTypes DEF LeaseInv
    <3>4. QED
      BY <3>2, <3>3
  <2>10. SweepInv'
    BY <1>1, <2>1, <2>2 DEF SweepInv, TypeOK, Sweep
  <2>11. ResultInv'
    <3>1. OneRowPerSlot' /\ RowsInClaimOrder'
      BY <1>1 DEF ResultInv, OneRowPerSlot, RowsInClaimOrder
    <3>2. ASSUME NEW r \in rows PROVE <<r.config, r.token>> \notin revoked'
      <4>1. <<r.config, r.token>> \notin revoked
        BY DEF ResultInv, RevokedNeverRecorded
      <4>2. ~(r.config = c /\ r.token = cfg[c].token /\ cfg[c].token # NoToken)
        BY RowTypes, FieldTypes DEF RowInv
      <4>3. QED
        BY <2>3, <4>1, <4>2
    <3>3. QED
      BY <1>1, <3>1, <3>2 DEF ResultInv, RevokedNeverRecorded
  <2>12. QED
    BY <2>5, <2>6, <2>7, <2>8, <2>9, <2>10, <2>11
<1>5. QED
  BY <1>3, <1>4

\* A result is recorded: it belongs to the slot of the lease, and the lease ends.
LEMMA CompleteStep ==
  ASSUME IInv, TypeOK', NEW w \in Worker, CompleteProbeLease(w)
  PROVE  IInv'
<1> USE DEF IInv
<1> DEFINE p == sweep[w].head
           c == p.config
           at == sweep[w].checkedAt
<1>1. sweep[w] \in Sweep /\ at \in Nat /\ now \in Nat /\ at <= now /\ p \in Held(w)
  BY DEF TypeOK, Sweep, Time, CompleteProbeLease, TimeInv, Held
<1>2. p \in Claim /\ c \in Config /\ p.token \in Nat /\ p.token # NoToken /\ p.nextRun \in Nat
  BY <1>1, HeldType DEF Time
<1>3. cfg[c].token = p.token /\ p.nextRun = cfg[c].nextRun /\ cfg[c].lastChecked <= at
  BY <1>1 DEF CompleteProbeLease, LeaseFound, ClaimInv, TimeInv
<1>4. UNCHANGED <<now, stored, issued, revoked>>
  BY DEF CompleteProbeLease
<1>5. /\ cfg'[c].token = NoToken /\ cfg'[c].expires = NoTime
      /\ cfg'[c].nextRun = cfg[c].nextRun /\ cfg'[c].lastChecked = at
      /\ \A d \in Config \ {c} : cfg'[d] = cfg[d]
  <2>1. cfg[c] \in ProbeConfig
    BY <1>2 DEF TypeOK
  <2>2. /\ cfg'[c] = [cfg[c] EXCEPT !.token = NoToken, !.expires = NoTime, !.lastChecked = at]
        /\ \A d \in Config \ {c} : cfg'[d] = cfg[d]
    BY <1>2 DEF CompleteProbeLease, TypeOK
  <2>3. QED
    BY <2>1, <2>2 DEF ProbeConfig
<1>6. /\ sweep'[w].phase = "next" /\ sweep'[w].todo = sweep[w].todo
      /\ sweep'[w].at = sweep[w].at /\ sweep'[w].claimed = sweep[w].claimed
      /\ \A v \in Worker \ {w} : sweep'[v] = sweep[v]
  <2>1. sweep'[w] = [sweep[w] EXCEPT !.phase = "next", !.head = NoClaim,
                                     !.started = 0, !.checkedAt = 0]
        /\ \A v \in Worker \ {w} : sweep'[v] = sweep[v]
    BY DEF CompleteProbeLease, NextProbe, TypeOK
  <2>2. QED
    BY <1>1, <2>1 DEF Sweep
<1> DEFINE new == RowOf(w)
<1>7. /\ rows' = rows \cup {new} /\ new.config = c /\ new.token = cfg[c].token
      /\ new.slot = cfg[c].nextRun /\ new.checkedAt = at
  BY <1>3 DEF CompleteProbeLease, RowOf
<1>8. \A v \in Worker : Held(v)' \subseteq Held(v)
  BY <1>6 DEF Held
<1> HIDE DEF p, c, at, new
<1>9. \A r \in rows : r.config = c =>
        r.token < new.token /\ r.slot < new.slot /\ r.checkedAt <= new.checkedAt
  <2>1. SUFFICES ASSUME NEW r \in rows, r.config = c
                 PROVE  r.token < new.token /\ r.slot < new.slot /\ r.checkedAt <= new.checkedAt
    OBVIOUS
  <2>2. r.checkedAt <= cfg[c].lastChecked /\ r.checkedAt \in Nat /\ cfg[c].lastChecked \in Int
    BY <1>2, <2>1, RowTypes, FieldTypes DEF TimeInv
  <2>3. r.token < cfg[c].token /\ r.slot < cfg[c].nextRun
    BY <1>2, <1>3, <2>1 DEF RowInv
  <2>4. QED
    BY <1>1, <1>3, <1>7, <2>2, <2>3
<1>10. LeaseInv'
  BY <1>2, <1>4, <1>5, FieldTypes DEF LeaseInv, NoToken
<1>11. ClaimInv'
  <2>1. \A v \in Worker : sweep'[v].phase \in {"probe", "write"} => sweep'[v].head \in Claim
    BY <1>6 DEF ClaimInv
  <2>2. ASSUME NEW v \in Worker, NEW q \in Held(v)'
        PROVE  /\ q.token <= issued'[q.config]
               /\ cfg'[q.config].token = q.token => q.nextRun = cfg'[q.config].nextRun
    <3>1. q \in Held(v)
      BY <1>8, <2>2
    <3>2. q.config \in Config /\ q.token # NoToken
      BY <3>1, HeldType
    <3>3. QED
      BY <1>4, <1>5, <3>1, <3>2 DEF ClaimInv
  <2>3. QED
    BY <2>1, <2>2 DEF ClaimInv
<1>12. RowInv'
  <2>1. ASSUME NEW r \in rows'
        PROVE  /\ r.token <= issued'[r.config]
               /\ r.slot <= cfg'[r.config].nextRun
               /\ cfg'[r.config].token # NoToken
                    => r.token < cfg'[r.config].token /\ r.slot < cfg'[r.config].nextRun
    <3>1. CASE r = new
      <4>1. cfg[c].token <= issued[c] /\ cfg[c].nextRun \in Nat
        BY <1>2, FieldTypes DEF LeaseInv
      <4>2. QED
        BY <1>4, <1>5, <1>7, <3>1, <4>1
    <3>2. CASE r \in rows
      BY <1>4, <1>5, <3>2, RowTypes DEF RowInv
    <3>3. QED
      BY <1>7, <3>1, <3>2
  <2>2. QED
    BY <2>1 DEF RowInv
<1>13. TimeInv'
  <2>1. \A d \in Config : cfg'[d].lastChecked <= now'
    BY <1>1, <1>4, <1>5 DEF TimeInv
  <2>2. \A r \in rows' : r.checkedAt <= cfg'[r.config].lastChecked
    BY <1>1, <1>5, <1>7, <1>9, RowTypes DEF TimeInv
  <2>3. ASSUME NEW v \in Worker
        PROVE  /\ sweep'[v].at <= now'
               /\ sweep'[v].phase = "write" =>
                    /\ sweep'[v].checkedAt <= now'
                    /\ cfg'[sweep'[v].head.config].token = sweep'[v].head.token
                         => cfg'[sweep'[v].head.config].lastChecked <= sweep'[v].checkedAt
    <3>1. CASE v = w
      BY <1>4, <1>6, <3>1 DEF TimeInv
    <3>2. CASE v # w
      <4>1. sweep'[v] = sweep[v]
        BY <1>6, <3>2
      <4>2. sweep[v].phase = "write" =>
              sweep[v].head.config \in Config /\ sweep[v].head.token # NoToken
        BY HeldType DEF Held
      <4>3. QED
        BY <1>4, <1>5, <4>1, <4>2 DEF TimeInv
    <3>3. QED
      BY <3>1, <3>2
  <2>4. QED
    BY <2>1, <2>2, <2>3 DEF TimeInv
<1>14. RevokedInv'
  <2>1. \A x \in revoked : x[1] \in Config
    BY DEF TypeOK
  <2>2. QED
    BY <1>4, <1>5, <2>1 DEF RevokedInv
<1>15. SweepInv'
  <2>1. \A v \in Worker : sweep[v].claimed \subseteq Config /\ sweep'[v].at = sweep[v].at
                          /\ sweep'[v].claimed = sweep[v].claimed
    BY <1>6 DEF TypeOK, Sweep
  <2>2. QED
    BY <1>4, <1>5, <2>1 DEF SweepInv
<1>16. ResultInv'
  <2>1. OneRowPerSlot'
    BY <1>7, <1>9, RowTypes, <1>2, FieldTypes DEF ResultInv, OneRowPerSlot
  <2>2. RowsInClaimOrder'
    BY <1>7, <1>9, RowTypes, <1>2, FieldTypes DEF ResultInv, RowsInClaimOrder
  <2>3. <<c, cfg[c].token>> \notin revoked
    BY DEF RevokedInv
  <2>4. RevokedNeverRecorded'
    BY <1>4, <1>7, <2>3 DEF ResultInv, RevokedNeverRecorded
  <2>5. QED
    BY <2>1, <2>2, <2>4 DEF ResultInv
<1>17. QED
  BY <1>10, <1>11, <1>12, <1>13, <1>14, <1>15, <1>16
\* Leases are granted: their tokens are new, their configs were due, and their
\* next runs lie beyond every result.
LEMMA GrantStep ==
  ASSUME IInv, TypeOK', NEW w \in Worker, NEW skipped \in SUBSET stored,
         ClaimDueProbeConfigs(w, skipped)
  PROVE  IInv'
<1> USE DEF IInv
<1> DEFINE at == sweep[w].at
<1>1. PICK batch \in FirstByNextRun(Due(at) \ skipped, BatchSize) : GrantLeases(w, batch)
  BY DEF ClaimDueProbeConfigs
<1>2. batch \in SUBSET Config /\ \A c \in batch : Claimable(c, at)
  BY DEF FirstByNextRun, Due
<1>3. at \in Time /\ at \in Nat /\ at <= now /\ now \in Nat
  BY DEF TypeOK, Sweep, Time, TimeInv
<1>4. UNCHANGED <<now, stored, rows, revoked>>
  BY DEF ClaimDueProbeConfigs
<1>5. ASSUME NEW c \in batch
      PROVE  /\ cfg'[c].token = issued[c] + 1 /\ issued'[c] = issued[c] + 1
             /\ cfg'[c].lastChecked = cfg[c].lastChecked
             /\ cfg'[c].expires \in Nat /\ cfg'[c].expires > at
             /\ cfg'[c].nextRun \in Nat /\ cfg'[c].nextRun > at
             /\ cfg'[c].nextRun >= cfg[c].nextRun
             /\ cfg'[c].nextRun = ClaimOf(c, at).nextRun
  <2>1. c \in Config /\ cfg'[c] = LeasedRow(c, at) /\ issued'[c] = issued[c] + 1
    BY <1>1, <1>2 DEF GrantLeases
  <2>2. cfg'[c].nextRun \in Nat /\ cfg'[c].expires \in OptTime
    BY <2>1 DEF TypeOK, ProbeConfig, Time
  <2>3. cfg'[c].expires > at
    BY <1>3, <2>1, ClaimType
  <2>4. cfg'[c].expires \in Nat
    BY <1>3, <2>2, <2>3 DEF OptTime, NoTime, Time
  <2>5. QED
    BY <1>3, <2>1, <2>2, <2>3, <2>4, ClaimType
<1>6. \A c \in Config \ batch : cfg'[c] = cfg[c] /\ issued'[c] = issued[c]
  BY <1>1 DEF GrantLeases
<1>7. sweep'[w] = BatchSweep(sweep[w], batch) /\ \A v \in Worker \ {w} : sweep'[v] = sweep[v]
  BY <1>1 DEF GrantLeases, TypeOK
<1>8. \A c \in batch :
        /\ c \in stored
        /\ \/ cfg[c].nextRun <= at
           \/ cfg[c].expires # NoTime /\ cfg[c].expires <= at
  BY <1>2 DEF Claimable, ClaimableInSQL
<1>9. /\ sweep'[w].phase \in {"idle", "next"}
      /\ \/ Held(w)' = {} /\ sweep'[w].at = 0 /\ sweep'[w].claimed = {}
         \/ /\ Held(w)' = {ClaimOf(c, at) : c \in batch}
            /\ sweep'[w].at = at
            /\ sweep'[w].claimed = sweep[w].claimed \cup batch
  <2>1. CASE batch = {}
    <3>1. sweep'[w] = IdleSweep
      BY <1>7, <2>1 DEF BatchSweep
    <3>2. QED
      BY <3>1 DEF IdleSweep, Held
  <2>2. CASE batch # {}
    <3>1. /\ sweep'[w].todo = {ClaimOf(c, at) : c \in batch} /\ sweep'[w].phase = "next"
          /\ sweep'[w].at = at /\ sweep'[w].claimed = sweep[w].claimed \cup batch
      <4>1. /\ BatchSweep(sweep[w], batch).todo = {ClaimOf(c, sweep[w].at) : c \in batch}
            /\ BatchSweep(sweep[w], batch).phase = "next"
            /\ BatchSweep(sweep[w], batch).at = sweep[w].at
            /\ BatchSweep(sweep[w], batch).claimed = sweep[w].claimed \cup batch
        BY <1>2, <2>2, BatchSweepType
      <4>2. QED
        BY <1>7, <4>1
    <3>2. Held(w)' = {ClaimOf(c, at) : c \in batch}
      BY <3>1 DEF Held
    <3>3. QED
      BY <3>1, <3>2
  <2>3. QED
    BY <2>1, <2>2
<1> HIDE DEF at
<1>10. LeaseInv'
  <2>1. \A c \in batch : /\ cfg'[c].token # NoToken /\ cfg'[c].expires # NoTime
                        /\ cfg'[c].token <= issued'[c] /\ c \in stored
    BY <1>2, <1>5, <1>8, FieldTypes DEF NoToken, NoTime
  <2>2. QED
    BY <1>4, <1>6, <2>1 DEF LeaseInv
<1>11. ClaimInv'
  <2>1. ASSUME NEW v \in Worker
        PROVE  /\ sweep'[v].phase \in {"probe", "write"} => sweep'[v].head \in Claim
               /\ \A p \in Held(v)' :
                    /\ p.token <= issued'[p.config]
                    /\ cfg'[p.config].token = p.token => p.nextRun = cfg'[p.config].nextRun
    <3>1. CASE v = w
      <4>1. sweep'[w].phase \notin {"probe", "write"}
        BY <1>9
      <4>2. ASSUME NEW p \in Held(w)'
            PROVE  p.token <= issued'[p.config] /\ p.nextRun = cfg'[p.config].nextRun
        <5>1. PICK c \in batch : p = ClaimOf(c, at)
          BY <1>9, <4>2
        <5>2. p.config = c /\ p.token = issued[c] + 1
          BY <5>1 DEF ClaimOf
        <5>3. issued[c] \in Nat
          BY <1>2, FieldTypes
        <5>4. QED
          BY <1>5, <5>1, <5>2, <5>3
      <4>3. QED
        BY <3>1, <4>1, <4>2
    <3>2. CASE v # w
      <4>1. sweep'[v] = sweep[v] /\ Held(v)' = Held(v)
        BY <1>7, <3>2 DEF Held
      <4>2. ASSUME NEW p \in Held(v)
            PROVE  /\ p.token <= issued'[p.config]
                   /\ cfg'[p.config].token = p.token => p.nextRun = cfg'[p.config].nextRun
        <5>1. p.config \in Config /\ p.token \in Nat /\ issued[p.config] \in Nat
          BY HeldType, FieldTypes
        <5>2. p.token <= issued[p.config]
          BY DEF ClaimInv
        <5>3. CASE p.config \in batch
          BY <1>5, <5>1, <5>2, <5>3
        <5>4. CASE p.config \notin batch
          BY <1>6, <5>1, <5>4 DEF ClaimInv
        <5>5. QED
          BY <5>3, <5>4
      <4>3. QED
        BY <4>1, <4>2 DEF ClaimInv
    <3>3. QED
      BY <3>1, <3>2
  <2>2. QED
    BY <2>1 DEF ClaimInv
<1>12. RowInv'
  <2>1. ASSUME NEW r \in rows
        PROVE  /\ r.token <= issued'[r.config]
               /\ r.slot <= cfg'[r.config].nextRun
               /\ cfg'[r.config].token # NoToken
                    => r.token < cfg'[r.config].token /\ r.slot < cfg'[r.config].nextRun
    <3> DEFINE c == r.config
    <3>1. /\ c \in Config /\ r.token \in Nat /\ r.slot \in Nat
          /\ issued[c] \in Nat /\ cfg[c].nextRun \in Nat /\ cfg[c].token \in Nat
      BY RowTypes, FieldTypes
    <3>2. r.token <= issued[c] /\ r.slot <= cfg[c].nextRun
      BY DEF RowInv
    <3>3. CASE c \in batch
      <4>1. r.token < cfg'[c].token /\ r.token <= issued'[c]
        BY <1>5, <3>1, <3>2, <3>3
      <4>2. r.slot < cfg'[c].nextRun
        <5>1. CASE cfg[c].nextRun <= at
          BY <1>3, <1>5, <3>1, <3>2, <3>3, <5>1
        <5>2. CASE cfg[c].expires # NoTime
          <6>1. cfg[c].token # NoToken
            BY <3>1, <5>2 DEF LeaseInv
          <6>2. r.slot < cfg[c].nextRun
            BY <6>1 DEF RowInv
          <6>3. QED
            BY <1>5, <3>1, <3>3, <6>2
        <5>3. QED
          BY <1>8, <3>3, <5>1, <5>2
      <4>3. QED
        BY <1>5, <3>1, <3>3, <4>1, <4>2
    <3>4. CASE c \notin batch
      BY <1>6, <3>1, <3>4 DEF RowInv
    <3>5. QED
      BY <3>3, <3>4
  <2>2. QED
    BY <1>4, <2>1 DEF RowInv
<1>13. TimeInv'
  <2>1. \A c \in Config : cfg'[c].lastChecked = cfg[c].lastChecked
    BY <1>5, <1>6
  <2>2. ASSUME NEW v \in Worker
        PROVE  /\ sweep'[v].at <= now'
               /\ sweep'[v].phase = "write" =>
                    /\ sweep'[v].checkedAt <= now'
                    /\ cfg'[sweep'[v].head.config].token = sweep'[v].head.token
                         => cfg'[sweep'[v].head.config].lastChecked <= sweep'[v].checkedAt
    <3>1. CASE v = w
      BY <1>3, <1>4, <1>9, <3>1
    <3>2. CASE v # w
      <4> DEFINE p == sweep[v].head
      <4>1. sweep'[v] = sweep[v]
        BY <1>7, <3>2
      <4>2. sweep[v].at <= now
        BY DEF TimeInv
      <4>3. ASSUME sweep[v].phase = "write", cfg'[p.config].token = p.token
            PROVE  cfg'[p.config].lastChecked <= sweep[v].checkedAt
        <5>1. p \in Held(v)
          BY <4>3 DEF Held
        <5>2. p.config \in Config /\ p.token \in Nat /\ issued[p.config] \in Nat
          BY <5>1, HeldType, FieldTypes
        <5>3. p.token <= issued[p.config]
          BY <5>1 DEF ClaimInv
        <5>4. p.config \notin batch
          BY <1>5, <4>3, <5>2, <5>3
        <5>5. cfg'[p.config] = cfg[p.config]
          BY <1>6, <5>2, <5>4
        <5>6. QED
          BY <4>3, <5>5 DEF TimeInv
      <4>4. QED
        BY <1>4, <4>1, <4>2, <4>3 DEF TimeInv
    <3>3. QED
      BY <3>1, <3>2
  <2>3. QED
    BY <1>4, <2>1, <2>2, RowTypes DEF TimeInv
<1>14. RevokedInv'
  <2>1. ASSUME NEW x \in revoked
        PROVE  x[2] <= issued'[x[1]] /\ x[2] # cfg'[x[1]].token /\ x[2] # NoToken
    <3>1. x[1] \in Config /\ x[2] \in Nat /\ issued[x[1]] \in Nat
      BY FieldTypes DEF TypeOK
    <3>2. x[2] <= issued[x[1]] /\ x[2] # NoToken /\ x[2] # cfg[x[1]].token
      BY DEF RevokedInv
    <3>3. CASE x[1] \in batch
      BY <1>5, <3>1, <3>2, <3>3
    <3>4. CASE x[1] \notin batch
      BY <1>6, <3>1, <3>2, <3>4
    <3>5. QED
      BY <3>3, <3>4
  <2>2. QED
    BY <1>4, <2>1 DEF RevokedInv
<1>15. SweepInv'
  <2>1. ASSUME NEW v \in Worker, NEW c \in sweep'[v].claimed
        PROVE  /\ c \in stored
               /\ cfg'[c].nextRun > sweep'[v].at
               /\ cfg'[c].expires = NoTime \/ cfg'[c].expires > sweep'[v].at
    <3>1. CASE c \in batch /\ v = w
      BY <1>5, <1>8, <1>9, <3>1
    <3>2. CASE c \in batch /\ v # w
      <4>1. sweep'[v] = sweep[v] /\ c \in sweep[v].claimed /\ sweep[v].at \in Nat
        BY <1>7, <2>1, <3>2 DEF TypeOK, Sweep, Time
      <4>2. cfg[c].nextRun \in Nat /\ cfg[c].expires \in Nat \cup {NoTime}
        BY <1>2, <3>2, FieldTypes DEF OptTime, Time
      <4>3. /\ cfg[c].nextRun > sweep[v].at
            /\ cfg[c].expires = NoTime \/ cfg[c].expires > sweep[v].at
        BY <4>1 DEF SweepInv
      <4>4. sweep[v].at < at
        <5>1. CASE cfg[c].nextRun <= at
          BY <1>3, <4>1, <4>2, <4>3, <5>1
        <5>2. CASE cfg[c].expires # NoTime /\ cfg[c].expires <= at
          BY <1>3, <4>1, <4>2, <4>3, <5>2
        <5>3. QED
          BY <1>8, <3>2, <5>1, <5>2
      <4>5. QED
        BY <1>3, <1>5, <1>8, <3>2, <4>1, <4>4
    <3>3. CASE c \notin batch
      <4>1. sweep'[v].claimed \subseteq Config
        BY DEF TypeOK, Sweep
      <4>2. c \in sweep[v].claimed /\ sweep'[v].at = sweep[v].at
        BY <1>7, <1>9, <2>1, <3>3 DEF at
      <4>3. QED
        BY <1>6, <2>1, <3>3, <4>1, <4>2 DEF SweepInv
    <3>4. QED
      BY <3>1, <3>2, <3>3
  <2>2. QED
    BY <1>4, <2>1 DEF SweepInv
<1>16. ResultInv'
  BY <1>4 DEF ResultInv, OneRowPerSlot, RowsInClaimOrder, RevokedNeverRecorded
<1>17. QED
  BY <1>10, <1>11, <1>12, <1>13, <1>14, <1>15, <1>16

LEMMA InitInv == Init => IInv
<1> SUFFICES ASSUME Init PROVE IInv
  OBVIOUS
<1>1. TypeOK
  BY InitType
<1>2. \A c \in Config : /\ cfg[c].token = NoToken /\ cfg[c].expires = NoTime
                        /\ cfg[c].lastChecked = NoTime /\ issued[c] = 0
  BY DEF Init, DefaultProbeConfig
<1>3. \A w \in Worker : sweep[w] = IdleSweep
  BY DEF Init
<1>4. \A w \in Worker : /\ sweep[w].phase = "idle" /\ sweep[w].at = 0
                        /\ sweep[w].claimed = {} /\ Held(w) = {}
  BY <1>3 DEF IdleSweep, Held
<1>5. rows = {} /\ revoked = {} /\ now = 0
  BY DEF Init
<1>6. LeaseInv
  BY <1>2 DEF LeaseInv, NoToken
<1>7. ClaimInv /\ RowInv /\ RevokedInv /\ SweepInv
  BY <1>4, <1>5 DEF ClaimInv, RowInv, RevokedInv, SweepInv
<1>8. TimeInv
  BY <1>2, <1>4, <1>5 DEF TimeInv, NoTime
<1>9. ResultInv
  BY <1>5 DEF ResultInv, OneRowPerSlot, RowsInClaimOrder, RevokedNeverRecorded
<1>10. QED
  BY <1>1, <1>6, <1>7, <1>8, <1>9 DEF IInv

LEMMA InvStep == IInv /\ [Next]_vars => IInv'
<1> SUFFICES ASSUME IInv, [Next]_vars PROVE IInv'
  OBVIOUS
<1>1. TypeOK'
  BY TypeStep DEF IInv
<1>2. ASSUME NEW c \in Config, EnsureDefaultProbeConfig(c) PROVE IInv'
  BY <1>1, <1>2, SettingsActions
<1>3. ASSUME NEW c \in Config, NEW b \in BOOLEAN, NEW t \in Timeout,
             UpsertNewProbeConfig(c, b, t)
      PROVE  IInv'
  BY <1>1, <1>3, SettingsActions
<1>4. ASSUME NEW c \in Config, NEW b \in BOOLEAN, NEW t \in Timeout,
             UpsertProbeConfig(c, b, t)
      PROVE  IInv'
  BY <1>1, <1>4, UpsertStep
<1>5. ASSUME NEW w \in Worker, NEW skipped \in SUBSET stored,
             ClaimDueProbeConfigs(w, skipped)
      PROVE  IInv'
  BY <1>1, <1>5, GrantStep
<1>6. ASSUME NEW w \in Worker, CompleteProbeLease(w) PROVE IInv'
  BY <1>1, <1>6, CompleteStep
<1>7. CASE \/ Tick
           \/ \E c \in Config, b \in BOOLEAN : UpdateService(c, b)
           \/ \E w \in Worker :
                \/ StartSweep(w) \/ ClaimFails(w) \/ StartProbe(w) \/ FinishProbe(w)
                \/ LeaseNotFound(w) \/ ProbeFails(w) \/ EndBatch(w) \/ Crash(w)
  BY <1>1, <1>7, MemoryActions
<1>8. CASE UNCHANGED vars
  <2>1. \A v \in Worker : Held(v)' = Held(v)
    BY <1>8 DEF Held, vars
  <2>2. now' = now /\ now \in Nat
    BY <1>8 DEF vars, IInv, TypeOK, Time
  <2>3. UNCHANGED <<sweep, stored, cfg, rows, issued, revoked>>
    BY <1>8 DEF vars
  <2>4. \A v \in Worker : sweep[v].phase \in {"probe", "write"} => sweep[v].head \in Held(v)
    BY DEF Held
  <2>5. \A v \in Worker : sweep[v].at <= now
    BY DEF IInv, TimeInv
  <2>6. QED
    BY <1>1, <2>1, <2>2, <2>3, <2>4, <2>5, MemoryStep
<1>9. QED
  BY <1>2, <1>3, <1>4, <1>5, <1>6, <1>7, <1>8 DEF Next, Edit, WorkerStep, WorkerFault

THEOREM Inductive == Spec => []IInv
<1>1. Init => IInv
  BY InitInv
<1>2. IInv /\ [Next]_vars => IInv'
  BY InvStep
<1>3. QED
  BY <1>1, <1>2, PTL DEF Spec

-------------------------------------------------------------------------------
(* What the invariant gives. *)

\* The state of the probe workers and of their tables is always well-formed.
THEOREM TypeCorrect == Spec => []TypeOK
<1>1. IInv => TypeOK
  BY DEF IInv
<1>2. QED
  BY <1>1, Inductive, PTL

\* No interleaving of workers, expiries, crashes and edits records two results for
\* one slot of a config's cadence (CompleteProbeLease, nextProbeRunAt).
THEOREM AtMostOneRowPerSlot == Spec => []OneRowPerSlot
<1>1. IInv => OneRowPerSlot
  BY DEF IInv, ResultInv
<1>2. QED
  BY <1>1, Inductive, PTL

\* Results are recorded in the order of the claims, of the slots and of the clock,
\* so that the last one written is the latest (CompleteProbeLease).
THEOREM RowsOrdered == Spec => []RowsInClaimOrder
<1>1. IInv => RowsInClaimOrder
  BY DEF IInv, ResultInv
<1>2. QED
  BY <1>1, Inductive, PTL

\* A lease that UpsertProbeConfig took away is never completed.
THEOREM RevocationIsFinal == Spec => []RevokedNeverRecorded
<1>1. IInv => RevokedNeverRecorded
  BY DEF IInv, ResultInv
<1>2. QED
  BY <1>1, Inductive, PTL

\* A sweep never claims a config twice (the claim loop of runProbeSweep).
THEOREM NoReclaim == Spec => []NoReclaimInSweep
<1>1. IInv => NoReclaimInSweep
  <2>1. SUFFICES ASSUME IInv, NEW w \in Worker, NEW c \in sweep[w].claimed,
                        c \in Due(sweep[w].at)
                 PROVE  FALSE
    BY DEF NoReclaimInSweep
  <2>2. /\ cfg[c].nextRun > sweep[w].at
        /\ cfg[c].expires = NoTime \/ cfg[c].expires > sweep[w].at
    BY <2>1 DEF IInv, SweepInv
  <2>3. c \in Config /\ sweep[w].at \in Nat
    BY <2>1 DEF Due, IInv, TypeOK, Sweep, Time
  <2>4. cfg[c].nextRun \in Nat /\ cfg[c].expires \in Nat \cup {NoTime}
    BY <2>1, <2>3, FieldTypes DEF OptTime, Time, IInv
  <2>5. \/ cfg[c].nextRun <= sweep[w].at
        \/ cfg[c].expires # NoTime /\ cfg[c].expires <= sweep[w].at
    BY <2>1 DEF Due, Claimable, ClaimableInSQL
  <2>6. QED
    BY <2>2, <2>3, <2>4, <2>5
<1>2. QED
  BY <1>1, Inductive, PTL

\* What a step does to the lease and the schedule of a row.
LEMMA RowStep ==
  ASSUME IInv, [Next]_vars, NEW c \in Config
  PROVE  \/ cfg'[c].token \in {NoToken, cfg[c].token} /\ cfg'[c].nextRun = cfg[c].nextRun
         \/ c \notin stored /\ cfg'[c].token \in {NoToken, cfg[c].token}
         \/ \E w \in Worker : Claimable(c, sweep[w].at) /\ cfg'[c] = LeasedRow(c, sweep[w].at)
<1> DEFINE Goal ==
      \/ cfg'[c].token \in {NoToken, cfg[c].token} /\ cfg'[c].nextRun = cfg[c].nextRun
      \/ c \notin stored /\ cfg'[c].token \in {NoToken, cfg[c].token}
      \/ \E w \in Worker : Claimable(c, sweep[w].at) /\ cfg'[c] = LeasedRow(c, sweep[w].at)
<1>1. cfg \in [Config -> ProbeConfig] /\ cfg[c] \in ProbeConfig
  BY DEF IInv, TypeOK
<1>2. CASE cfg'[c] = cfg[c]
  BY <1>2
<1>3. ASSUME NEW d \in Config, EnsureDefaultProbeConfig(d) PROVE Goal
  <2>1. CASE d = c
    <3>1. c \notin stored /\ cfg'[c] = DefaultProbeConfig(c, now)
      BY <1>1, <1>3, <2>1 DEF EnsureDefaultProbeConfig
    <3>2. QED
      BY <3>1 DEF DefaultProbeConfig
  <2>2. CASE d # c
    BY <1>1, <1>2, <1>3, <2>2 DEF EnsureDefaultProbeConfig
  <2>3. QED
    BY <2>1, <2>2
<1>4. ASSUME NEW d \in Config, NEW b \in BOOLEAN, NEW t \in Timeout,
             UpsertNewProbeConfig(d, b, t)
      PROVE  Goal
  <2>1. CASE d = c /\ c \in stored
    <3>1. cfg'[c] = [cfg[c] EXCEPT !.enabled = b, !.timeout = t]
      BY <1>1, <1>4, <2>1 DEF UpsertNewProbeConfig
    <3>2. QED
      BY <1>1, <3>1 DEF ProbeConfig
  <2>2. CASE d = c /\ c \notin stored
    <3> DEFINE given == IF t = 0 THEN DefaultTimeout ELSE t
    <3>1. cfg'[c] = [DefaultProbeConfig(c, now) EXCEPT !.timeout = given]
      BY <1>1, <1>4, <2>2 DEF UpsertNewProbeConfig
    <3> HIDE DEF given
    <3>2. QED
      BY <2>2, <3>1 DEF DefaultProbeConfig
  <2>3. CASE d # c
    <3>1. cfg'[c] = cfg[c]
      BY <1>1, <1>4, <2>3 DEF UpsertNewProbeConfig
    <3>2. QED
      BY <1>2, <3>1
  <2>4. QED
    BY <2>1, <2>2, <2>3
<1>5. ASSUME NEW d \in Config, NEW b \in BOOLEAN, NEW t \in Timeout,
             UpsertProbeConfig(d, b, t)
      PROVE  Goal
  <2>1. CASE d = c
    <3>1. CASE b
      <4>1. cfg'[c] = [cfg[c] EXCEPT !.enabled = TRUE, !.timeout = t]
        BY <1>1, <1>5, <2>1, <3>1 DEF UpsertProbeConfig
      <4>2. QED
        BY <1>1, <4>1 DEF ProbeConfig
    <3>2. CASE ~b
      <4>1. cfg'[c] = [cfg[c] EXCEPT !.enabled = FALSE, !.timeout = t, !.token = NoToken,
                                     !.expires = NoTime]
        BY <1>1, <1>5, <2>1, <3>2 DEF UpsertProbeConfig
      <4>2. QED
        BY <1>1, <4>1 DEF ProbeConfig
    <3>3. QED
      BY <3>1, <3>2
  <2>2. CASE d # c
    <3>1. cfg'[c] = cfg[c]
      BY <1>1, <1>5, <2>2 DEF UpsertProbeConfig
    <3>2. QED
      BY <1>2, <3>1
  <2>3. QED
    BY <2>1, <2>2
<1>6. ASSUME NEW w \in Worker, NEW skipped \in SUBSET stored,
             ClaimDueProbeConfigs(w, skipped)
      PROVE  Goal
  <2>1. PICK batch \in FirstByNextRun(Due(sweep[w].at) \ skipped, BatchSize) :
          GrantLeases(w, batch)
    BY <1>6 DEF ClaimDueProbeConfigs
  <2>2. \A d \in batch : Claimable(d, sweep[w].at)
    BY DEF FirstByNextRun, Due
  <2>3. cfg'[c] = IF c \in batch THEN LeasedRow(c, sweep[w].at) ELSE cfg[c]
    BY <2>1 DEF GrantLeases
  <2>4. QED
    BY <1>2, <2>2, <2>3
<1>7. ASSUME NEW w \in Worker, CompleteProbeLease(w) PROVE Goal
  <2> DEFINE h == sweep[w].head.config
             t == sweep[w].checkedAt
  <2>1. cfg' = [cfg EXCEPT ![h] = [@ EXCEPT !.token = NoToken, !.expires = NoTime,
                                            !.lastChecked = t]]
    BY <1>7 DEF CompleteProbeLease
  <2> HIDE DEF h, t
  <2>2. CASE h = c
    <3>1. cfg'[c] = [cfg[c] EXCEPT !.token = NoToken, !.expires = NoTime, !.lastChecked = t]
      BY <1>1, <2>1, <2>2
    <3>2. QED
      BY <1>1, <3>1 DEF ProbeConfig
  <2>3. CASE h # c
    <3>1. cfg'[c] = cfg[c]
      BY <1>1, <2>1, <2>3
    <3>2. QED
      BY <1>2, <3>1
  <2>4. QED
    BY <2>2, <2>3
<1>8. ASSUME UNCHANGED cfg PROVE Goal
  BY <1>2, <1>8
<1> HIDE DEF Goal
<1>9. \A d \in Config, b \in BOOLEAN : UpdateService(d, b) => UNCHANGED cfg
  BY DEF UpdateService
<1>10. ASSUME NEW w \in Worker,
              \/ StartSweep(w) \/ ClaimFails(w) \/ StartProbe(w) \/ FinishProbe(w)
              \/ LeaseNotFound(w) \/ ProbeFails(w) \/ EndBatch(w) \/ Crash(w)
       PROVE  UNCHANGED cfg
  BY <1>10 DEF StartSweep, ClaimFails, StartProbe, FinishProbe, LeaseNotFound, ProbeFails,
         EndBatch, Crash
<1>11. (Tick => UNCHANGED cfg) /\ (UNCHANGED vars => UNCHANGED cfg)
  BY DEF Tick, vars
<1>12. ASSUME Edit PROVE Goal
  BY <1>4, <1>5, <1>8, <1>9, <1>12 DEF Edit
<1>13. ASSUME NEW w \in Worker, WorkerStep(w) \/ WorkerFault(w) PROVE Goal
  BY <1>6, <1>7, <1>8, <1>10, <1>13 DEF WorkerStep, WorkerFault
<1>14. ASSUME Next PROVE Goal
  BY <1>3, <1>8, <1>11, <1>12, <1>13, <1>14 DEF Next
<1>15. QED
  BY <1>8, <1>11, <1>14 DEF Goal

\* A worker takes over the lease of another only after its expiry
\* (ClaimDueProbeConfigs), whatever the age of its own clock reading.
THEOREM ReclaimAfterExpiry == Spec => ReclaimOnlyAfterExpiry
<1>1. IInv /\ [Next]_vars =>
        [\A c \in Config :
           cfg[c].token # NoToken /\ cfg'[c].token \notin {NoToken, cfg[c].token}
             => now >= cfg[c].expires]_vars
  <2>1. SUFFICES ASSUME IInv, [Next]_vars, NEW c \in Config,
                        cfg[c].token # NoToken, cfg'[c].token \notin {NoToken, cfg[c].token}
                 PROVE  now >= cfg[c].expires
    OBVIOUS
  <2>2. PICK w \in Worker : Claimable(c, sweep[w].at)
    BY <2>1, RowStep
  <2>3. sweep[w].at <= now /\ sweep[w].at \in Nat /\ now \in Nat
    BY <2>1 DEF IInv, TimeInv, TypeOK, Sweep, Time
  <2>4. cfg[c].expires # NoTime /\ cfg[c].expires \in Nat
    BY <2>1, FieldTypes DEF IInv, LeaseInv, OptTime, Time
  <2>5. cfg[c].expires <= sweep[w].at
    BY <2>2, <2>4 DEF Claimable, ClaimableInSQL
  <2>6. QED
    BY <2>3, <2>4, <2>5
<1>2. QED
  BY <1>1, Inductive, PTL DEF Spec, ReclaimOnlyAfterExpiry

\* However late a sweep comes, a config's next run moves by whole intervals
\* (nextProbeRunAt), so that the spread of the schedule is never lost.
THEOREM PhaseIsKept == Spec => PhaseKept
<1>1. IInv /\ [Next]_vars =>
        [\A c \in stored : (cfg'[c].nextRun - cfg[c].nextRun) % Interval = 0]_vars
  <2>1. SUFFICES ASSUME IInv, [Next]_vars, NEW c \in stored
                 PROVE  (cfg'[c].nextRun - cfg[c].nextRun) % Interval = 0
    OBVIOUS
  <2>2. c \in Config /\ cfg[c] \in ProbeConfig /\ cfg[c].nextRun \in Nat /\ Jitter[c] \in Nat
    BY <2>1, LeaseAssumption DEF IInv, TypeOK, ProbeConfig, Time
  <2>3. CASE cfg'[c].nextRun = cfg[c].nextRun
    BY <2>2, <2>3, CadenceAssumption
  <2>4. ASSUME NEW w \in Worker, cfg'[c] = LeasedRow(c, sweep[w].at)
        PROVE  (cfg'[c].nextRun - cfg[c].nextRun) % Interval = 0
    <3>1. sweep[w].at \in Time
      BY <2>1 DEF IInv, TypeOK, Sweep
    <3>2. cfg'[c].nextRun = nextProbeRunAt(cfg[c].nextRun, sweep[w].at, Jitter[c])
      BY <2>2, <2>4 DEF LeasedRow, ProbeConfig
    <3> DEFINE old == cfg[c].nextRun
               new == cfg'[c].nextRun
    <3>3. old \in Time /\ new \in Nat
      <4>1. old \in Time
        BY <2>2 DEF Time
      <4>2. new = nextProbeRunAt(old, sweep[w].at, Jitter[c])
        BY <3>2
      <4>3. nextProbeRunAt(old, sweep[w].at, Jitter[c]) \in Time
        BY <2>2, <3>1, <4>1, NextRunBounds
      <4>4. QED
        BY <4>1, <4>2, <4>3 DEF Time
    <3>4. new = nextProbeRunAt(old, sweep[w].at, Jitter[c])
      BY <3>2
    <3> HIDE DEF old, new
    <3>5. PICK k \in Nat : nextProbeRunAt(old, sweep[w].at, Jitter[c]) = old + k * Interval
      BY <2>2, <3>1, <3>3, NextRunKeepsPhase
    <3>6. (new - old) % Interval = 0
      BY <3>3, <3>4, <3>5, MultipleHasNoRemainder DEF Time
    <3>7. QED
      BY <3>6 DEF old, new
  <2>5. QED
    BY <2>1, <2>2, <2>3, <2>4, RowStep
<1>2. QED
  BY <1>1, Inductive, PTL DEF Spec, PhaseKept

-------------------------------------------------------------------------------
(* Workers whose waits are bounded.                                        *)

\* The timed workers are workers of ProbeLease: what is proved of these holds when
\* every request, statement and ticker keeps its time.
THEOREM TimedWorkersAreWorkers == TimedSpec => Spec
<1>1. TimedInit => Init
  BY DEF TimedInit
<1>2. [TimedNext]_vars => [Next]_vars
  BY DEF TimedNext, Next, TimedTick, TimedStep, TimedStartSweep, WorkerStep, WorkerFault
<1>3. QED
  BY <1>1, <1>2, PTL DEF TimedSpec, Spec
===============================================================================
