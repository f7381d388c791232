------------------------------ MODULE ProbeLease ------------------------------
(***************************************************************************)
(* The probe workers and the leases they take on probe_configs rows:       *)
(* workers/probe.go (the sweep) over storage/probes.go (claim and          *)
(* complete) and storage/storage.go (operators editing a config while it   *)
(* is leased).  A service has exactly one config, so a config also stands  *)
(* for its service.  One clock is read by every process.                   *)
(***************************************************************************)
EXTENDS ProbeSchedule, FiniteSets

CONSTANTS
  Config,      \* probe configs (and their services)
  Worker,      \* processes running in probe mode
  Timeout,     \* the timeout_seconds an operator may set
  Jitter,      \* probeJitterForService, fixed by the service's ID
  BatchSize,   \* probeClaimBatchSize
  MaxTime,     \* bound: the clock stops here
  MaxClaims,   \* bound: leases granted per config
  MaxCrashes   \* bound: worker crashes

ASSUME LeaseAssumption ==
  /\ Timeout \subseteq Nat
  /\ Jitter \in [Config -> Nat]
  /\ BatchSize \in Nat \ {0}
  /\ MaxTime \in Nat
  /\ MaxClaims \in Nat
  /\ MaxCrashes \in Nat

VARIABLES
  now,      \* time.Now().UTC()
  active,   \* services.active
  stored,   \* the configs that have a probe_configs row
  cfg,      \* the probe_configs rows
  sweep,    \* what each worker process holds in memory
  rows,     \* the probe_results rows, with the claim each one answers
  issued,   \* history: leases granted per config; also the source of fresh tokens
  revoked,  \* history: leases an operator's edit took away
  crashes   \* bound counter

vars == <<now, active, stored, cfg, sweep, rows, issued, revoked, crashes>>

\* Lease tokens are 128 random bits looked up together with the config's ID: no
\* two claims of a config share one.  The n-th claim of a config has token n.
NoToken == 0

ProbeConfig == [enabled : BOOLEAN, timeout : Timeout \cup {DefaultTimeout},
                nextRun : Time, token : Nat, expires : OptTime,
                lastChecked : OptTime]

\* The copy of a row that ClaimDueProbeConfigs hands to the worker. `due` is the
\* next_run_at it was ordered by, nextRun the one the claim wrote: the cadence
\* slot that this claim serves.
Claim == [config : Config, token : Nat \ {NoToken}, due : Time,
          nextRun : Time, timeout : Timeout \cup {DefaultTimeout}]

NoClaim == [config |-> NoToken]

\* Where runProbeSweep is: waiting for the ticker, about to claim a batch, at the
\* head of the loop over the batch, inside the HTTP request, or past it with
\* checkedAt read and the completing transaction still to come.
Phase == {"idle", "claim", "next", "probe", "write"}

\* `at` is the clock reading the whole sweep uses, `claimed` (history) what it
\* has claimed so far.
Sweep == [phase : Phase, at : Time, todo : SUBSET Claim, full : BOOLEAN,
          head : Claim \cup {NoClaim}, started : Time, checkedAt : Time,
          claimed : SUBSET Config]

IdleSweep == [phase |-> "idle", at |-> 0, todo |-> {}, full |-> FALSE,
              head |-> NoClaim, started |-> 0, checkedAt |-> 0, claimed |-> {}]

Row == [config : Config, token : Nat \ {NoToken}, slot : Time, checkedAt : Time]

TypeOK ==
  /\ now \in Time
  /\ active \in [Config -> BOOLEAN]
  /\ stored \in SUBSET Config
  /\ cfg \in [Config -> ProbeConfig]
  /\ sweep \in [Worker -> Sweep]
  /\ rows \in SUBSET Row
  /\ issued \in [Config -> Nat]
  /\ revoked \in SUBSET (Config \X Nat)
  /\ crashes \in Nat

-------------------------------------------------------------------------------
(* Configs and services, written by the API, the worker start-up and the TUI. *)

\* DefaultProbeConfig, enabled, first run at a deterministic offset.
DefaultProbeConfig(c, at) ==
  [enabled |-> TRUE, timeout |-> DefaultTimeout, nextRun |-> initialProbeRunAt(at, Jitter[c]),
   token |-> NoToken, expires |-> NoTime, lastChecked |-> NoTime]

Init ==
  /\ now = 0
  /\ active \in [Config -> BOOLEAN]
  /\ stored = {}
  /\ cfg = [c \in Config |-> DefaultProbeConfig(c, 0)]
  /\ sweep = [w \in Worker |-> IdleSweep]
  /\ rows = {}
  /\ issued = [c \in Config |-> 0]
  /\ revoked = {}
  /\ crashes = 0

\* CreateService, SubmitService and the start-up backfill insert the default row
\* and do nothing when the service has one already.
EnsureDefaultProbeConfig(c) ==
  /\ c \notin stored
  /\ stored' = stored \cup {c}
  /\ cfg' = [cfg EXCEPT ![c] = DefaultProbeConfig(c, now)]
  /\ UNCHANGED <<now, active, sweep, rows, issued, revoked, crashes>>

\* UpdateService saves the whole service, its active flag included.
UpdateService(c, isActive) ==
  /\ active' = [active EXCEPT ![c] = isActive]
  /\ UNCHANGED <<now, stored, cfg, sweep, rows, issued, revoked, crashes>>

\* UpsertProbeConfig for a form that knows no config ID: an upsert on the
\* service, which on conflict writes the settings and leaves the lease alone.  On
\* insert a zero value gives way to the column's default (structs/schema.go), so
\* that a new config is enabled whatever the form says.
UpsertNewProbeConfig(c, isEnabled, timeout) ==
  /\ stored' = stored \cup {c}
  /\ cfg' = [cfg EXCEPT ![c] =
       IF c \in stored THEN [@ EXCEPT !.enabled = isEnabled, !.timeout = timeout]
       ELSE [DefaultProbeConfig(c, now) EXCEPT
               !.timeout = IF timeout = 0 THEN DefaultTimeout ELSE timeout]]
  /\ UNCHANGED <<now, active, sweep, rows, issued, revoked, crashes>>

\* Mutant of UpsertProbeConfig: disabling leaves the lease in place.
UpsertKeepingLease(c, isEnabled, timeout) ==
  /\ c \in stored
  /\ cfg' = [cfg EXCEPT ![c].enabled = isEnabled, ![c].timeout = timeout]
  /\ revoked' = IF isEnabled \/ cfg[c].token = NoToken THEN revoked
                ELSE revoked \cup {<<c, cfg[c].token>>}
  /\ UNCHANGED <<now, active, stored, sweep, rows, issued, crashes>>

\* UpsertProbeConfig for a config with an ID: disabling also clears the lease.
UpsertProbeConfig(c, isEnabled, timeout) ==
  /\ c \in stored
  /\ cfg' = [cfg EXCEPT ![c] =
       IF isEnabled THEN [@ EXCEPT !.enabled = TRUE, !.timeout = timeout]
       ELSE [@ EXCEPT !.enabled = FALSE, !.timeout = timeout,
                      !.token = NoToken, !.expires = NoTime]]
  /\ revoked' = IF isEnabled \/ cfg[c].token = NoToken THEN revoked
                ELSE revoked \cup {<<c, cfg[c].token>>}
  /\ UNCHANGED <<now, active, stored, sweep, rows, issued, crashes>>

Edit == \E c \in Config :
  \/ \E b \in BOOLEAN : UpdateService(c, b)
  \/ \E b \in BOOLEAN, t \in Timeout : UpsertNewProbeConfig(c, b, t)
  \/ \E b \in BOOLEAN, t \in Timeout : UpsertProbeConfig(c, b, t)

-------------------------------------------------------------------------------
(* The sweep of a probe worker. *)

\* The ticker fires (or the process starts): `now` is read once for the sweep.
StartSweep(w) ==
  /\ sweep[w].phase = "idle"
  /\ sweep' = [sweep EXCEPT ![w] = [IdleSweep EXCEPT !.phase = "claim", !.at = now]]
  /\ UNCHANGED <<now, active, stored, cfg, rows, issued, revoked, crashes>>

Claimable(c, at) ==
  /\ c \in stored
  /\ active[c]
  /\ ClaimableInSQL(cfg[c].enabled, cfg[c].nextRun, cfg[c].expires, at)

Due(at) == {c \in Config : Claimable(c, at)}

\* ORDER BY next_run_at LIMIT n; ties are in any order.
FirstByNextRun(S, n) ==
  {B \in SUBSET S :
     /\ Cardinality(B) = IF Cardinality(S) < n THEN Cardinality(S) ELSE n
     /\ \A b \in B, o \in S \ B : cfg[b].nextRun <= cfg[o].nextRun}

\* Mutant of ClaimOf: the copy handed out keeps the token of the row before the claim.
ClaimOfOldToken(c, at) ==
  [config |-> c, token |-> cfg[c].token, due |-> cfg[c].nextRun,
   nextRun |-> nextProbeRunAt(cfg[c].nextRun, at, Jitter[c]), timeout |-> cfg[c].timeout]

ClaimOf(c, at) ==
  [config |-> c, token |-> issued[c] + 1, due |-> cfg[c].nextRun,
   nextRun |-> nextProbeRunAt(cfg[c].nextRun, at, Jitter[c]), timeout |-> cfg[c].timeout]

\* The row of a claimed config: a fresh token, a lease counted from the sweep's
\* clock reading, and the next run.
LeasedRow(c, at) ==
  [cfg[c] EXCEPT !.token = issued[c] + 1,
                 !.expires = at + probeLeaseDuration(cfg[c].timeout),
                 !.nextRun = nextProbeRunAt(cfg[c].nextRun, at, Jitter[c])]

\* The sweep once it has claimed a batch; an empty batch ends it.
BatchSweep(s, batch) ==
  IF batch = {} THEN IdleSweep
  ELSE [s EXCEPT !.phase = "next", !.todo = {ClaimOf(c, s.at) : c \in batch},
                 !.full = (Cardinality(batch) = BatchSize),
                 !.claimed = @ \cup batch]

\* The updates of a claim transaction.
GrantLeases(w, batch) ==
  /\ \A c \in batch : issued[c] < MaxClaims
  /\ cfg' = [c \in Config |-> IF c \in batch THEN LeasedRow(c, sweep[w].at) ELSE cfg[c]]
  /\ issued' = [c \in Config |-> IF c \in batch THEN issued[c] + 1 ELSE issued[c]]
  /\ sweep' = [sweep EXCEPT ![w] = BatchSweep(@, batch)]

\* One transaction. SKIP LOCKED leaves out the rows (of the config or of its
\* service) that another transaction has locked: `skipped`.
ClaimDueProbeConfigs(w, skipped) ==
  /\ sweep[w].phase = "claim"
  /\ \E batch \in FirstByNextRun(Due(sweep[w].at) \ skipped, BatchSize) : GrantLeases(w, batch)
  /\ UNCHANGED <<now, active, stored, rows, revoked, crashes>>

\* The claim transaction fails and rolls back: the sweep returns the error.
ClaimFails(w) ==
  /\ sweep[w].phase = "claim"
  /\ sweep' = [sweep EXCEPT ![w] = IdleSweep]
  /\ UNCHANGED <<now, active, stored, cfg, rows, issued, revoked, crashes>>

\* The sweep with the request for claim p under way.
ProbingSweep(s, p) ==
  [s EXCEPT !.phase = "probe", !.head = p, !.todo = @ \ {p}, !.started = now]

\* The next config of the batch, in the order it was claimed: executeClaimedProbe
\* starts the request.
StartProbe(w) ==
  /\ sweep[w].phase = "next"
  /\ \E p \in sweep[w].todo :
       /\ \A q \in sweep[w].todo : p.due <= q.due
       /\ sweep' = [sweep EXCEPT ![w] = ProbingSweep(@, p)]
  /\ UNCHANGED <<now, active, stored, cfg, rows, issued, revoked, crashes>>

\* The request ends, in success or failure: checkedAt is read.
FinishProbe(w) ==
  /\ sweep[w].phase = "probe"
  /\ sweep' = [sweep EXCEPT ![w] = [@ EXCEPT !.phase = "write", !.checkedAt = now]]
  /\ UNCHANGED <<now, active, stored, cfg, rows, issued, revoked, crashes>>

\* Mutant of LeaseFound: the token is not compared.
LeaseFoundByID(w) ==
  LET p == sweep[w].head IN
  /\ cfg[p.config].expires # NoTime
  /\ cfg[p.config].expires > sweep[w].checkedAt

\* The WHERE clause of CompleteProbeLease.
LeaseFound(w) ==
  LET p == sweep[w].head IN
  /\ cfg[p.config].token = p.token
  /\ cfg[p.config].expires # NoTime
  /\ cfg[p.config].expires > sweep[w].checkedAt

NextProbe(w) ==
  sweep' = [sweep EXCEPT ![w] =
            [@ EXCEPT !.phase = "next", !.head = NoClaim, !.started = 0, !.checkedAt = 0]]

\* The worker's own row for the claim it has finished.
RowOf(w) ==
  LET p == sweep[w].head
  IN  [config |-> p.config, token |-> p.token, slot |-> p.nextRun,
       checkedAt |-> sweep[w].checkedAt]

\* The lease is still this worker's: the row is written and the lease released.
CompleteProbeLease(w) ==
  LET c == sweep[w].head.config IN
  /\ sweep[w].phase = "write"
  /\ LeaseFound(w)
  /\ cfg' = [cfg EXCEPT ![c] = [@ EXCEPT !.token = NoToken, !.expires = NoTime,
                                         !.lastChecked = sweep[w].checkedAt]]
  /\ rows' = rows \cup {RowOf(w)}
  /\ NextProbe(w)
  /\ UNCHANGED <<now, active, stored, issued, revoked, crashes>>

\* errProbeLeaseNotFound: the result is dropped and the sweep goes on.
LeaseNotFound(w) ==
  /\ sweep[w].phase = "write"
  /\ ~LeaseFound(w)
  /\ NextProbe(w)
  /\ UNCHANGED <<now, active, stored, cfg, rows, issued, revoked, crashes>>

\* The executor returns an error, or the completing transaction rolls back: the
\* sweep goes on and the lease is left to expire.
ProbeFails(w) ==
  /\ sweep[w].phase \in {"probe", "write"}
  /\ NextProbe(w)
  /\ UNCHANGED <<now, active, stored, cfg, rows, issued, revoked, crashes>>

\* The batch is done: another claim if it was full, the end of the sweep if not.
EndBatch(w) ==
  /\ sweep[w].phase = "next"
  /\ sweep[w].todo = {}
  /\ sweep' = [sweep EXCEPT ![w] = IF @.full THEN [@ EXCEPT !.phase = "claim"] ELSE IdleSweep]
  /\ UNCHANGED <<now, active, stored, cfg, rows, issued, revoked, crashes>>

\* The process dies and is started again: what it held in memory is gone.
Crash(w) ==
  /\ crashes < MaxCrashes
  /\ sweep[w].phase # "idle"
  /\ crashes' = crashes + 1
  /\ sweep' = [sweep EXCEPT ![w] = IdleSweep]
  /\ UNCHANGED <<now, active, stored, cfg, rows, issued, revoked>>

Tick ==
  /\ now < MaxTime
  /\ now' = now + 1
  /\ UNCHANGED <<active, stored, cfg, sweep, rows, issued, revoked, crashes>>

WorkerStep(w) ==
  \/ StartSweep(w)
  \/ \E skipped \in SUBSET stored : ClaimDueProbeConfigs(w, skipped)
  \/ StartProbe(w)
  \/ FinishProbe(w)
  \/ CompleteProbeLease(w)
  \/ LeaseNotFound(w)
  \/ EndBatch(w)

WorkerFault(w) ==
  \/ ClaimFails(w)
  \/ ProbeFails(w)
  \/ Crash(w)

Next ==
  \/ Tick
  \/ \E c \in Config : EnsureDefaultProbeConfig(c)
  \/ Edit
  \/ \E w \in Worker : WorkerStep(w) \/ WorkerFault(w)

Spec == Init /\ [][Next]_vars

-------------------------------------------------------------------------------
(* Safety. *)

\* Each slot of a config's cadence yields at most one result, whatever the
\* interleaving of workers, late completions, expired leases, crashes and edits:
\* nextProbeRunAt moves past the slot and CompleteProbeLease releases the lease.
OneRowPerSlot ==
  \A r1, r2 \in rows :
    r1.config = r2.config /\ r1.slot = r2.slot => r1 = r2

\* The results of a config are those of ever later claims, for ever later slots,
\* read at ever later times: the reason why CompleteProbeLease may overwrite
\* last_checked_at (and the derived state) without comparing times.
RowsInClaimOrder ==
  \A r1, r2 \in rows :
    r1.config = r2.config /\ r1.token < r2.token
      => r1.slot < r2.slot /\ r1.checkedAt <= r2.checkedAt

\* A probe in flight when an operator disables its config (UpsertProbeConfig with
\* the config's ID) never leaves a result, not even after it is enabled again.
RevokedNeverRecorded == \A r \in rows : <<r.config, r.token>> \notin revoked

\* A sweep works with one clock reading, and loops while batches are full: what
\* it has claimed is never due again for that reading, so that it ends.
NoReclaimInSweep ==
  \A w \in Worker : sweep[w].claimed \cap Due(sweep[w].at) = {}

\* A lease is taken over only once it has expired.
ReclaimOnlyAfterExpiry ==
  [][\A c \in Config :
       cfg[c].token # NoToken /\ cfg'[c].token \notin {NoToken, cfg[c].token}
         => now >= cfg[c].expires]_vars

\* Whatever delays a run, a stored config's next run keeps its phase in the
\* cadence ("without changing phase on worker restart").
PhaseKept ==
  [][\A c \in stored : (cfg'[c].nextRun - cfg[c].nextRun) % Interval = 0]_vars
===============================================================================
