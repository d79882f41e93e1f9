----------------------------- MODULE Monitoring -----------------------------
(***************************************************************************)
(* A rollout under health checks, as time passes: the schedule, the        *)
(* queries a reconcile sends one after the other to the metrics backend,   *)
(* and the rollback they may lead to.                                      *)
(*                                                                         *)
(* One generation of one TransferGW that converts completely, without      *)
(* hooks, approval or pause (module Migration has those, and takes the     *)
(* outcome of a health check as given).  What the backend knows changes    *)
(* between any two queries, and so does the time.                          *)
(***************************************************************************)
EXTENDS Rollout, Health

CONSTANTS Plans,            \* the rollouts and their monitoring
          Worlds,           \* what the metrics backend may answer
          Queries,          \* the metrics with a query template for both paths
          Failure,          \* a query that fails
          DefaultInterval,  \* ticks between two checks if the spec does not say
          MaxElapsed,       \* bound on the time in which the schedule moves
          MaxShifts,        \* bound on changes of the answers
          MaxFaults         \* bound on reconciles that are lost

(* monitored: enabled, with thresholds, and the controller has a backend.  *)
PlanType == [initial : Percent, increment : Percent, step : Nat,
             monitored : BOOLEAN, thresholds : Thresholds, interval : Nat]

Answer == Value \union {NoSample, Failure}

WorldType == [MetricNames -> [ingress : Answer, gateway : Answer]]

ASSUME MonitoringAssumption ==
  /\ Plans \subseteq PlanType
  /\ Worlds \subseteq WorldType
  /\ Queries \in Seq(MetricNames)
  /\ Failure \notin Value \union {NoSample}
  /\ DefaultInterval \in Nat \ {0}
  /\ MaxElapsed \in Nat /\ MaxShifts \in Nat /\ MaxFaults \in Nat

VARIABLES
  plan,        \* the rollout
  elapsed,     \* time since the TransferGW was created, up to MaxElapsed
  due,         \* history: the share the documented schedule has reached
  world,       \* what each query would be answered now
  share,       \* status.completionPercentage
  phase,       \* status.phase
  shown,       \* the metric its RolledBack condition blames
  wait,        \* time until status.nextHealthCheck
  pc,          \* a reconcile is comparing the paths
  percentage,  \* its percentage
  todo,        \* the metrics it has not queried
  reading,     \* the sample of the Ingress path of the metric at hand
  comparison,  \* the measurements so far
  steady,      \* history: the answers did not change since it began
  shifts,      \* changes of the answers so far
  faults       \* reconciles lost so far

statusVars == <<share, phase, shown, wait>>
passVars   == <<pc, percentage, todo, reading, comparison, steady>>
timeVars   == <<elapsed, due>>

vars == <<plan, timeVars, world, statusVars, passVars, shifts, faults>>

(* An interval that is unset or not positive is the default.               *)
HealthCheckInterval(p) == OrDefault(p.interval, DefaultInterval)

Step(p) == OrDefault(p.step, DefaultStep)

Init ==
  /\ plan \in Plans /\ world \in Worlds
  /\ elapsed = 0 /\ due = OrDefault(plan.initial, 25)
  /\ share = 0 /\ phase = "" /\ shown = NoBreach /\ wait = 0
  /\ pc = "idle" /\ percentage = 0 /\ todo = <<>> /\ reading = NoSample
  /\ comparison = NothingMeasured /\ steady = TRUE
  /\ shifts = 0 /\ faults = 0

-----------------------------------------------------------------------------
(* A reconcile, from its percentage to the patch of its status.            *)

Target == CanaryPercentage(plan, elapsed)

Due_WhenSharesMove(p) == plan.monitored /\ p > 0 /\ p < 100 /\ wait = 0 /\ p # share

Due(p) == plan.monitored /\ p > 0 /\ p < 100 /\ wait = 0

(* The pass is over; nothing of it stays in memory.                        *)
Forget ==
  /\ pc' = "idle" /\ percentage' = 0 /\ todo' = <<>> /\ reading' = NoSample
  /\ comparison' = NothingMeasured /\ steady' = TRUE

Move(p) ==
  /\ share' = p /\ phase' = IF p >= 100 THEN "Complete" ELSE "Canary"
  /\ UNCHANGED shown

(* No check is due.                                                        *)
Unchecked ==
  /\ pc = "idle" /\ phase # "RolledBack" /\ ~Due(Target)
  /\ Move(Target)
  /\ UNCHANGED <<plan, timeVars, world, wait, passVars, shifts, faults>>

BeginCheck ==
  /\ pc = "idle" /\ phase # "RolledBack" /\ Due(Target)
  /\ pc' = "compare" /\ percentage' = Target /\ todo' = Queries
  /\ UNCHANGED <<plan, timeVars, world, statusVars, reading, comparison, steady, shifts, faults>>

Asking == pc = "compare" /\ todo # <<>>

Current == Head(todo)

(* The query of the path at hand: the Ingress path comes first.            *)
Sample == IF reading = NoSample THEN world[Current].ingress ELSE world[Current].gateway

NextMetric == todo' = Tail(todo) /\ reading' = NoSample

Fails_SkipsMetric == FALSE

(* The query ends the comparison with an error.                            *)
Fails == Sample = Failure

(* The metric is left out of the comparison.                               *)
Leaves == Sample = NoSample \/ (Sample = Failure /\ ~Fails)

AskInVain ==
  /\ Asking /\ Leaves /\ NextMetric
  /\ UNCHANGED <<plan, timeVars, world, statusVars, pc, percentage, comparison, steady,
                 shifts, faults>>

AskIngress ==
  /\ Asking /\ reading = NoSample /\ Sample \in Value
  /\ reading' = Sample
  /\ UNCHANGED <<plan, timeVars, world, statusVars, pc, percentage, todo, comparison, steady,
                 shifts, faults>>

AskGateway ==
  /\ Asking /\ reading # NoSample /\ Sample \in Value
  /\ comparison' = [comparison EXCEPT ![Current] = [ingress |-> reading, gateway |-> Sample]]
  /\ NextMetric
  /\ UNCHANGED <<plan, timeVars, world, statusVars, pc, percentage, steady, shifts, faults>>

(* The backend cannot be asked: the rollout goes on, and the check is      *)
(* still due.                                                              *)
AskFails ==
  /\ Asking /\ Fails
  /\ Move(percentage) /\ Forget
  /\ UNCHANGED <<plan, timeVars, world, wait, shifts, faults>>

Verdict == Evaluate(plan.thresholds, comparison)

Compared == pc = "compare" /\ todo = <<>> /\ wait' = HealthCheckInterval(plan)

Healthy ==
  /\ Compared /\ Verdict = NoBreach
  /\ Move(percentage) /\ Forget
  /\ UNCHANGED <<plan, timeVars, world, shifts, faults>>

RollBack ==
  /\ Compared /\ Verdict # NoBreach
  /\ share' = 0 /\ phase' = "RolledBack" /\ shown' = Verdict
  /\ Forget
  /\ UNCHANGED <<plan, timeVars, world, shifts, faults>>

(* The process stops, or the patch with the outcome fails.                 *)
Lose ==
  /\ pc = "compare" /\ faults < MaxFaults /\ faults' = faults + 1
  /\ Forget
  /\ UNCHANGED <<plan, timeVars, world, statusVars, shifts>>

-----------------------------------------------------------------------------
(* Time passes.  The documented schedule "Starts at                        *)
(* canary.initialPercentage (default 25) and adds canary.increment         *)
(* (default 25) every canary.stepDuration", up to 100.                     *)
Tick ==
  /\ wait' = IF wait > 0 THEN wait - 1 ELSE 0
  /\ IF elapsed < MaxElapsed
     THEN /\ elapsed' = elapsed + 1
          /\ due' = IF (elapsed + 1) % Step(plan) = 0
                    THEN Clamp(due + OrDefault(plan.increment, 25)) ELSE due
     ELSE UNCHANGED timeVars
  /\ UNCHANGED <<plan, world, share, phase, shown, passVars, shifts, faults>>

(* What is measured changes.                                               *)
Shift ==
  /\ shifts < MaxShifts /\ shifts' = shifts + 1
  /\ \E w \in Worlds \ {world} : world' = w
  /\ steady' = (pc = "idle")
  /\ UNCHANGED <<plan, timeVars, statusVars, pc, percentage, todo, reading, comparison, faults>>

Pass ==
  \/ Unchecked \/ BeginCheck
  \/ AskInVain \/ AskIngress \/ AskGateway \/ AskFails
  \/ Healthy \/ RollBack

Next == Pass \/ Lose \/ Tick \/ Shift

Spec == Init /\ [][Next]_vars

(* A migration in phase Canary is reconciled again and again, and time     *)
(* passes.                                                                 *)
FairSpec == Spec /\ WF_vars(Pass) /\ WF_vars(Tick)

-----------------------------------------------------------------------------
(* Properties.                                                             *)

ScheduleTypes ==
  plan \in Plans /\ world \in Worlds /\ elapsed \in 0..MaxElapsed /\ due \in Percent

StatusTypes ==
  /\ share \in Percent /\ phase \in {"", "Canary", "Complete", "RolledBack"}
  /\ shown \in MetricNames \union {NoBreach} /\ wait \in Nat

PassTypes ==
  /\ pc \in {"idle", "compare"} /\ percentage \in Percent /\ todo \in Seq(MetricNames)
  /\ reading \in Value \union {NoSample} /\ comparison \in Comparisons
  /\ steady \in BOOLEAN

TypeOK == ScheduleTypes /\ StatusTypes /\ PassTypes /\ shifts \in Nat /\ faults \in Nat

(* The closed formula of canaryPercentage gives the share the documented   *)
(* step-by-step schedule has reached, at every boundary between two steps  *)
(* (docs/KUBERNETES_GUIDE.md:483).                                         *)
FollowsSchedule == Target = due

(* The share falls only by a rollback                                      *)
(* (transfergw_controller.go:677: "advances the canary").                  *)
Advances == [][share' < share => phase' = "RolledBack"]_vars

Counts(k) == world[k].ingress \in Nat /\ world[k].gateway \in Nat

(* The Gateway path is over a threshold and worse than the Ingress path.   *)
Worse(k) ==
  LET t == plan.thresholds[k]
      m == world[k]
  IN /\ Configured(plan.thresholds, k) /\ Counts(k)
     /\ IF k = "throughput" THEN 100 * m.gateway < m.ingress * (100 - t)
        ELSE m.gateway > t /\ m.gateway > m.ingress

RollsBack == phase' = "RolledBack" /\ phase # "RolledBack"

(* "Every check requires the Gateway path to be both over the absolute     *)
(* threshold and worse than the Ingress path" (health.go:75-76), and a     *)
(* metric without data "is never treated as a breach" (health.go:44-45):   *)
(* when nothing changed during the check, the metric blamed for a rollback *)
(* is measured on both paths, over its threshold and worse.                *)
BlamesTheWorse == [][RollsBack /\ steady => Worse(shown')]_vars

(* The queries of a metric get an answer, though perhaps no sample.        *)
Answered(k) ==
  world[k].ingress # Failure /\ (world[k].ingress # NoSample => world[k].gateway # Failure)

AllAnswered == \A i \in DOMAIN Queries : Answered(Queries[i])

(* "An unreachable metrics backend is not evidence of an unhealthy         *)
(* Gateway, so it must not move traffic" (transfergw_controller.go:746):   *)
(* no rollback comes from a comparison one of whose queries failed.        *)
JudgesWhole == [][RollsBack /\ steady => AllAnswered]_vars

Measured == {Queries[i] : i \in DOMAIN Queries}

(* A Gateway path that stays worse while traffic is split and the backend  *)
(* answers is rolled back, after whatever failures and lost reconciles.    *)
CatchesBreach ==
  <>[](/\ plan.monitored /\ 0 < Target /\ Target < 100
       /\ AllAnswered /\ \E k \in Measured : Worse(k))
    => <>(phase = "RolledBack")
=============================================================================
