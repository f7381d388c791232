--------------------------- MODULE ProbeLeaseTimed ---------------------------
(***************************************************************************)
(* ProbeLease with the durations the code bounds: a request ends within    *)
(* its timeout, an idle worker is woken by its 5-second ticker, and the    *)
(* database answers within one unit of time.  The one unbounded delay left *)
(* is a crash, after which the process is started again.                   *)
(***************************************************************************)
EXTENDS ProbeLease

CONSTANT Horizon   \* bound: runs due by then must be recorded before MaxTime

ASSUME HorizonAssumption == Horizon \in Nat

\* Nothing that ends within the current unit of time is pending at w.
Quiet(w) ==
  \/ sweep[w].phase = "idle" /\ Due(now) = {}
  \/ sweep[w].phase = "probe" /\ now < sweep[w].started + sweep[w].head.timeout

TimedTick == Tick /\ \A w \in Worker : Quiet(w)

\* The ticker wakes an idle worker; a sweep that would find nothing is left out.
TimedStartSweep(w) == StartSweep(w) /\ Due(now) # {}

TimedStep(w) ==
  \/ TimedStartSweep(w)
  \/ ClaimDueProbeConfigs(w, {})
  \/ StartProbe(w)
  \/ FinishProbe(w)
  \/ CompleteProbeLease(w)
  \/ LeaseNotFound(w)
  \/ EndBatch(w)

TimedInit ==
  /\ Init
  /\ active = [c \in Config |-> TRUE]

TimedNext ==
  \/ TimedTick
  \/ \E c \in Config : now = 0 /\ EnsureDefaultProbeConfig(c)
  \/ \E w \in Worker : TimedStep(w) \/ Crash(w)

\* The clock runs, the start-up backfill completes, and each worker process is
\* scheduled (and restarted by its supervisor after a crash).
Fairness ==
  /\ WF_vars(TimedTick)
  /\ \A c \in Config : WF_vars(now = 0 /\ EnsureDefaultProbeConfig(c))
  /\ \A w \in Worker : WF_vars(TimedStep(w))

TimedSpec == TimedInit /\ [][TimedNext]_vars /\ Fairness

\* A config due for a run gets a result for that run or a later one, even when the
\* worker that claimed it dies: the expired lease makes it due again.
DueRunIsRecorded ==
  \A c \in Config, s \in 0..Horizon :
    (c \in stored /\ cfg[c].nextRun = s) ~> (\E r \in rows : r.config = c /\ r.slot > s)

\* A sweep ends: it does not go on claiming for ever.
SweepEnds == \A w \in Worker : (sweep[w].phase # "idle") ~> (sweep[w].phase = "idle")

\* docs/algorithm.md:148: "each run writes one `probe_results` row". A run is over
\* when the worker turns to the next config of its batch.
EachRunWritesARow ==
  [][\A w \in Worker :
       sweep[w].phase = "write" /\ sweep'[w].phase = "next" => rows' # rows]_vars
===============================================================================
