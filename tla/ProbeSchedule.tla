---------------------------- MODULE ProbeSchedule ----------------------------
(***************************************************************************)
(* The arithmetic of the probe cadence (storage/probes.go): when a config  *)
(* runs next, how long a lease lasts, and which stored configs are due.    *)
(* Time is an integer; the unit is chosen by the configuration.            *)
(***************************************************************************)
EXTENDS Integers

CONSTANTS
  Interval,        \* GlobalProbeInterval, the product-wide cadence
  MinLease,        \* minProbeLeaseDuration
  DefaultTimeout   \* the 10 seconds used when timeout_seconds <= 0

ASSUME CadenceAssumption ==
  /\ Interval \in Nat \ {0}
  /\ MinLease \in Nat \ {0}
  /\ DefaultTimeout \in Nat \ {0}

\* Both the zero time.Time of next_run_at (which sorts before every clock
\* reading) and the NULL of lease_expires_at.
NoTime == -1

Time == Nat
OptTime == Nat \cup {NoTime}

\* normalizedProbeTimeout: a timeout that is not positive means the default.
normalizedProbeTimeout(timeout) == IF timeout <= 0 THEN DefaultTimeout ELSE timeout

\* Twice the probe's timeout, and never below the minimum.
probeLeaseDuration(timeout) ==
  LET double == 2 * normalizedProbeTimeout(timeout)
  IN  IF double < MinLease THEN MinLease ELSE double

\* Mutant of nextProbeRunAt: the "+ 1" of missedIntervals forgotten.
nextProbeRunAtOffByOne(current, now, jitter) ==
  IF current = NoTime THEN now + Interval + jitter
  ELSE IF current > now THEN current
  ELSE current + ((now - current) \div Interval) * Interval

\* Mutant of nextProbeRunAt: restarted from the clock, which forgets the phase.
nextProbeRunAtFromNow(current, now, jitter) ==
  IF current = NoTime THEN now + Interval + jitter
  ELSE IF current > now THEN current
  ELSE now + Interval

\* A future run is kept; a past one advances by whole intervals beyond "now",
\* so that the phase of the schedule survives any delay.
nextProbeRunAt(current, now, jitter) ==
  IF current = NoTime THEN now + Interval + jitter
  ELSE IF current > now THEN current
  ELSE current + ((now - current) \div Interval + 1) * Interval

initialProbeRunAt(now, jitter) == now + jitter

\* Mutant of ClaimableInSQL: an expired lease does not make a config due again.
ClaimableWithoutExpiry(enabled, nextRun, expires, now) ==
  /\ enabled
  /\ nextRun <= now
  /\ expires = NoTime

\* The WHERE clause of the claim query on one probe_configs row.
ClaimableInSQL(enabled, nextRun, expires, now) ==
  /\ enabled
  /\ \/ nextRun <= now
     \/ expires # NoTime /\ expires <= now
  /\ expires = NoTime \/ expires <= now

\* shouldClaimProbeConfig: the same decision as the Go helper takes it, one
\* early return per line.
shouldClaimProbeConfig(enabled, nextRun, expires, now) ==
  IF ~enabled THEN FALSE
  ELSE IF expires # NoTime /\ expires > now THEN FALSE
  ELSE IF nextRun = NoTime \/ ~(nextRun > now) THEN TRUE
  ELSE expires # NoTime /\ ~(expires > now)
==============================================================================
