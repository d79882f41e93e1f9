----------------------------- MODULE Migration -----------------------------
(***************************************************************************)
(* One TransferGW and the controller that reconciles it.                   *)
(*                                                                         *)
(* The object lives at the API server.  Users edit its spec, which bumps   *)
(* metadata.generation; only the controller writes its status.  The        *)
(* controller reads the object from an informer cache that follows the API *)
(* server through a watch, works on a private copy of the status while it  *)
(* calls lifecycle hooks, the conversion and the metrics backend, and      *)
(* writes the copy back as a JSON merge patch of what it changed.  Every   *)
(* point at which Reconcile waits for somebody else is a step of its own,  *)
(* so that edits, time, other events and crashes fall in between.          *)
(*                                                                         *)
(* Abstracted: issues, pendingPlan, resources and the metrics shown in the *)
(* status, which nothing reads back; timestamps other than                 *)
(* nextHealthCheck; the wording of conditions, except for the numbers that *)
(* make two messages differ (they decide whether a patch carries the       *)
(* condition list).  The conversion is one step with the outcome the       *)
(* cluster dictates.                                                       *)
(*                                                                         *)
(* An operator named X_Y is X with the bug Y; no action uses it, and it    *)
(* shows that a property can fail.                                         *)
(***************************************************************************)
EXTENDS Rollout, Sequences

CONSTANTS Specs,           \* the specs users may write
          Outcomes,        \* what converting the selected Ingresses may give
          DefaultWebhook,  \* the controller has a DefaultWebhookURL
          HealthInterval,  \* ticks between two health checks
          MaxGeneration,   \* bound on spec edits
          MaxClock,        \* bound on time
          MaxChanges,      \* bound on changes of the Ingresses
          MaxFaults,       \* bound on crashes and failed API calls
          MaxLag           \* events the cache may trail behind; 0: none

Stages == {"PreConversion", "PostConversion", "PreRollout", "PostRollout"}

Phases == {"", "Pending", "Analyzing", "Canary", "Complete", "Failed", "RolledBack"}

(* spec.monitoring.alerting: left out, not enabled, enabled without and    *)
(* with a URL.                                                             *)
Alertings == {"unset", "disabled", "noURL", "URL"}

(* A stage in hooks has a URL and a HookCaller to call it; monitored means *)
(* enabled, with thresholds and a metrics source.                          *)
SpecType ==
  [paused : BOOLEAN, mode : Modes, initial : Percent, increment : Percent,
   step : Nat, requireApproval : BOOLEAN, approved : Percent,
   hooks : SUBSET Stages, monitored : BOOLEAN, alerting : Alertings]

(* An Ingress is counted at most once, and of those selected one at least: *)
(* the rest may be canaries nobody counts.                                 *)
OutcomeType ==
  {o \in [total : Nat, converted : Nat, failed : Nat] :
     o.converted + o.failed <= o.total /\ (o.total > 0 => o.converted + o.failed > 0)}

ASSUME MigrationAssumption ==
  /\ Specs \subseteq SpecType /\ Specs # {}
  /\ Outcomes \subseteq OutcomeType
  /\ DefaultWebhook \in BOOLEAN
  /\ HealthInterval \in Nat \ {0}
  /\ MaxGeneration \in Nat \ {0}
  /\ MaxClock \in Nat /\ MaxChanges \in Nat /\ MaxFaults \in Nat /\ MaxLag \in Nat

ReadyType == [reason : {"none", "AwaitingPreRolloutHook", "NoMatchingIngresses",
                        "ConversionFailed", "MigrationComplete",
                        "RolloutInProgress", "HealthRollback"},
              shown : Nat \X Nat]

HookConditionType == [approved : BOOLEAN, generation : Nat]

ConditionsType == [ready : ReadyType,
                   rolledBack : {"absent", "True", "False"},
                   hooks : [Stages -> HookConditionType]]

(* nextHealthCheck is 0 while it is unset: a check always schedules the    *)
(* next one later than 0.                                                  *)
StatusType ==
  [phase : Phases, completion : Percent, rollbackGeneration : Nat,
   nextHealthCheck : Nat, total : Nat, converted : Nat, failed : Nat,
   conditions : ConditionsType]

ObjectType == [generation : Nat, spec : SpecType, status : StatusType]

NoConditions ==
  [ready |-> [reason |-> "none", shown |-> <<0, 0>>],
   rolledBack |-> "absent",
   hooks |-> [s \in Stages |-> [approved |-> FALSE, generation |-> 0]]]

NewStatus ==
  [phase |-> "", completion |-> 0, rollbackGeneration |-> 0,
   nextHealthCheck |-> 0, total |-> 0, converted |-> 0, failed |-> 0,
   conditions |-> NoConditions]

Steps == {"idle", "preConversion", "convert", "postConversion", "preRollout",
          "report", "patch", "retry"}

VARIABLES
  server,      \* the TransferGW as stored by the API server
  cache,       \* the TransferGW as the controller's client reads it
  watch,       \* versions of it on their way to the cache
  queued,      \* the work queue holds the TransferGW
  pc,          \* where the worker stands in Reconcile
  mig,         \* Reconcile's migration: the object as it was read
  status,      \* Reconcile's working copy of the status
  percentage,  \* Reconcile's percentage
  awaiting,    \* Reconcile's awaitingPreRollout
  cluster,     \* what converting the selected Ingresses gives now
  changes,     \* how often cluster changed
  clock,       \* time since the TransferGW was created
  faults,      \* crashes and failed calls so far
  granted,     \* history: the generations each hook approved
  alerted      \* history: the generations a rollback alert went out for

objectVars == <<server, cache, watch>>
localVars  == <<mig, status, percentage, awaiting>>
worldVars  == <<cluster, changes, clock>>
historyVars == <<granted, alerted>>

vars == <<objectVars, queued, pc, localVars, worldVars, faults, historyVars>>

-----------------------------------------------------------------------------
(* Reading and writing the object.                                         *)

Idle == [generation |-> 0, spec |-> CHOOSE s \in Specs : TRUE, status |-> NewStatus]

(* What Reconcile's locals hold while no Reconcile runs.                   *)
ForgetLocals ==
  /\ pc' = "idle"
  /\ mig' = Idle /\ status' = NewStatus /\ percentage' = 0 /\ awaiting' = FALSE

(* A new version reaches the cache over the watch, or with the write       *)
(* itself when no lag is modelled.  An update that changes nothing creates *)
(* no version.                                                             *)
Publish(object) ==
  /\ server' = object
  /\ IF object = server THEN UNCHANGED <<cache, watch>>
     ELSE IF MaxLag = 0 THEN cache' = object /\ UNCHANGED watch
     ELSE /\ Len(watch) < MaxLag
          /\ watch' = Append(watch, object)
          /\ UNCHANGED cache

(* The event of a new version puts the object on the work queue.           *)
Notifies(object) == MaxLag = 0 /\ object # server

(* A JSON merge patch made from base and new: it carries the fields that   *)
(* differ, and a list such as the conditions as a whole.                   *)
Merge(stored, base, new) ==
  LET Pick(s, b, n) == IF n = b THEN s ELSE n
  IN [phase |-> Pick(stored.phase, base.phase, new.phase),
      completion |-> Pick(stored.completion, base.completion, new.completion),
      rollbackGeneration |-> Pick(stored.rollbackGeneration,
                                  base.rollbackGeneration, new.rollbackGeneration),
      nextHealthCheck |-> Pick(stored.nextHealthCheck,
                               base.nextHealthCheck, new.nextHealthCheck),
      total |-> Pick(stored.total, base.total, new.total),
      converted |-> Pick(stored.converted, base.converted, new.converted),
      failed |-> Pick(stored.failed, base.failed, new.failed),
      conditions |-> Pick(stored.conditions, base.conditions, new.conditions)]

Held(object) ==
  /\ object.status.phase = "RolledBack"
  /\ object.status.rollbackGeneration = object.generation

Skips_IgnoresRollback(object) == object.spec.paused

(* Reconcile leaves at once.                                               *)
Skips_IgnoresPause(object) == Held(object)

Skips(object) == object.spec.paused \/ Held(object)

Init ==
  /\ \E spec \in Specs :
       server = [generation |-> 1, spec |-> spec, status |-> NewStatus]
  /\ cache = server /\ watch = <<>>
  /\ queued = TRUE /\ pc = "idle"
  /\ mig = Idle /\ status = NewStatus /\ percentage = 0 /\ awaiting = FALSE
  /\ cluster \in Outcomes /\ changes = 0 /\ clock = 0 /\ faults = 0
  /\ granted = [s \in Stages |-> {}] /\ alerted = {}

-----------------------------------------------------------------------------
(* Lifecycle hooks.                                                        *)

ApprovedBefore_AnyGeneration(s) == status.conditions.hooks[s].approved

ApprovedBefore_Never(s) == FALSE

ApprovedBefore(s) ==
  status.conditions.hooks[s] = [approved |-> TRUE, generation |-> mig.generation]

Calls(s) == s \in mig.spec.hooks /\ ~ApprovedBefore(s)

(* The answers runHook may give, the status it leaves and what the hook    *)
(* itself has then approved.                                               *)
Answers(s) == IF Calls(s) THEN BOOLEAN ELSE {TRUE}

Recorded_Unread(s, ok) ==
  IF Calls(s)
  THEN [status EXCEPT !.conditions.hooks[s] =
          [approved |-> TRUE, generation |-> mig.generation]]
  ELSE status

Recorded(s, ok) ==
  IF Calls(s)
  THEN [status EXCEPT !.conditions.hooks[s] =
          [approved |-> ok, generation |-> mig.generation]]
  ELSE status

Grant(s, ok) ==
  granted' = IF Calls(s) /\ ok
             THEN [granted EXCEPT ![s] = @ \union {mig.generation}]
             ELSE granted

-----------------------------------------------------------------------------
(* Reconcile, step by step.                                                *)

Fault == faults < MaxFaults /\ faults' = faults + 1

(* An error makes the work queue deliver the object again.                 *)
ReturnError == ForgetLocals /\ queued' = TRUE

Begin ==
  /\ pc = "idle" /\ queued
  /\ queued' = FALSE
  /\ IF Skips(cache)
     THEN UNCHANGED <<pc, localVars>>
     ELSE /\ pc' = "preConversion"
          /\ mig' = cache /\ status' = cache.status
          /\ UNCHANGED <<percentage, awaiting>>
  /\ UNCHANGED <<objectVars, worldVars, faults, historyVars>>

PreConversion(ok) ==
  /\ pc = "preConversion" /\ ok \in Answers("PreConversion")
  /\ Grant("PreConversion", ok)
  /\ IF ok
     THEN pc' = "convert" /\ status' = Recorded("PreConversion", ok)
     ELSE pc' = "patch" /\ status' = [Recorded("PreConversion", ok) EXCEPT !.phase = "Pending"]
  /\ UNCHANGED <<objectVars, queued, mig, percentage, awaiting, worldVars, faults,
                 alerted>>

Convert ==
  /\ pc = "convert" /\ pc' = "postConversion"
  /\ status' = [status EXCEPT !.total = cluster.total,
                              !.converted = cluster.converted,
                              !.failed = cluster.failed]
  /\ UNCHANGED <<objectVars, queued, mig, percentage, awaiting, worldVars, faults,
                 historyVars>>

(* Listing the Ingresses or writing the Gateway fails.                     *)
ConvertFails ==
  /\ pc = "convert" /\ Fault /\ ReturnError
  /\ UNCHANGED <<objectVars, worldVars, historyVars>>

(* The hook is told and its answer recorded; it holds nothing back.        *)
PostConversion(ok) ==
  /\ pc = "postConversion" /\ ok \in Answers("PostConversion")
  /\ Grant("PostConversion", ok)
  /\ status' = Recorded("PostConversion", ok)
  /\ pc' = "preRollout"
  /\ UNCHANGED <<objectVars, queued, mig, percentage, awaiting, worldVars, faults,
                 alerted>>

Scheduled == RolloutPercentage(mig.spec, status.converted, status.failed, clock)

PreRollout(ok) ==
  /\ pc = "preRollout" /\ pc' = "report"
  /\ IF Scheduled > 0
     THEN /\ ok \in Answers("PreRollout")
          /\ Grant("PreRollout", ok)
          /\ status' = Recorded("PreRollout", ok)
     ELSE ok /\ UNCHANGED <<granted, status>>
  /\ awaiting' = ~ok
  /\ percentage' = ApprovedShare(mig.spec, IF ok THEN Scheduled ELSE 0)
  /\ UNCHANGED <<objectVars, queued, mig, worldVars, faults, alerted>>

(* Recording what the reconcile came to, unless health was breached.       *)
Reported(base, phase, reason, shown) ==
  LET resumes == base.conditions.rolledBack # "absent"
  IN [base EXCEPT
        !.phase = phase,
        !.completion = percentage,
        !.rollbackGeneration = IF resumes THEN 0 ELSE @,
        !.conditions = [ready |-> [reason |-> reason, shown |-> shown],
                        rolledBack |-> IF resumes THEN "False" ELSE "absent",
                        hooks |-> @.hooks]]

Report(phase, reason, shown) ==
  /\ pc = "report" /\ pc' = "patch"
  /\ status' = Reported(status, phase, reason, shown)
  /\ UNCHANGED <<objectVars, queued, mig, percentage, awaiting, worldVars, faults,
                 historyVars>>

ReportAwaiting == awaiting /\ Report("Pending", "AwaitingPreRolloutHook", <<0, 0>>)

ReportNoIngresses ==
  /\ ~awaiting /\ status.total = 0
  /\ Report("Analyzing", "NoMatchingIngresses", <<0, 0>>)

NothingConverted == status.failed > 0 /\ status.converted = 0

ReportFailed ==
  /\ ~awaiting /\ status.total # 0 /\ NothingConverted
  /\ Report("Failed", "ConversionFailed", <<status.total, 0>>)

Progressing == ~awaiting /\ status.total # 0 /\ ~NothingConverted

ReportComplete(ok) ==
  /\ pc = "report" /\ pc' = "patch"
  /\ Progressing /\ percentage >= 100
  /\ ok \in Answers("PostRollout")
  /\ Grant("PostRollout", ok)
  /\ status' = Reported(Recorded("PostRollout", ok), "Complete", "MigrationComplete",
                        <<status.converted, status.total>>)
  /\ UNCHANGED <<objectVars, queued, mig, percentage, awaiting, worldVars, faults,
                 alerted>>

HealthChecked ==
  /\ mig.spec.monitored
  /\ percentage > 0 /\ percentage < 100
  /\ clock >= status.nextHealthCheck

(* The metrics backend cannot be reached, or no check is due.              *)
ReportUnchecked ==
  /\ Progressing /\ percentage < 100
  /\ Report("Canary", "RolloutInProgress", <<percentage, 0>>)

ReportHealthy ==
  /\ pc = "report" /\ pc' = "patch"
  /\ Progressing /\ HealthChecked
  /\ status' = Reported([status EXCEPT !.nextHealthCheck = clock + HealthInterval],
                        "Canary", "RolloutInProgress", <<percentage, 0>>)
  /\ UNCHANGED <<objectVars, queued, mig, percentage, awaiting, worldVars, faults,
                 historyVars>>

(* A spec that says something of alerting is honoured as written, and one  *)
(* that does not falls back to the default.                                *)
Alerts(spec) == spec.alerting = "URL" \/ (spec.alerting = "unset" /\ DefaultWebhook)

Alerted_FirstOnly ==
  IF Alerts(mig.spec) /\ status.conditions.rolledBack = "absent"
  THEN alerted \union {mig.generation} ELSE alerted

Alerted == IF Alerts(mig.spec) THEN alerted \union {mig.generation} ELSE alerted

(* A threshold is breached: the alert goes out, the patch comes later.     *)
RollBack ==
  /\ pc = "report" /\ pc' = "patch"
  /\ HealthChecked
  /\ percentage' = 0
  /\ status' = [status EXCEPT
       !.phase = "RolledBack",
       !.completion = 0,
       !.rollbackGeneration = mig.generation,
       !.nextHealthCheck = clock + HealthInterval,
       !.conditions = [ready |-> [reason |-> "HealthRollback", shown |-> <<0, 0>>],
                       rolledBack |-> "True",
                       hooks |-> @.hooks]]
  /\ alerted' = Alerted
  /\ UNCHANGED <<objectVars, queued, mig, awaiting, worldVars, faults, granted>>

(* Complete, Failed and RolledBack wait for an event; the other phases are *)
(* reconciled again after requeueInterval.                                 *)
Requeues_NotInCanary ==
  status.phase \notin {"Canary", "Complete", "Failed", "RolledBack"}

Requeues_NotWhilePending ==
  status.phase \notin {"Pending", "Complete", "Failed", "RolledBack"}

Requeues == status.phase \notin {"Complete", "Failed", "RolledBack"}

(* The patch made from base reaches the API server and Reconcile returns.  *)
Write(base) ==
  LET object == [server EXCEPT !.status = Merge(server.status, base, status)]
  IN /\ Publish(object)
     /\ queued' = (queued \/ Requeues \/ Notifies(object))
     /\ ForgetLocals
     /\ UNCHANGED <<worldVars, faults, historyVars>>

PatchStatus == pc = "patch" /\ Write(mig.status)

PatchConflict ==
  /\ pc = "patch" /\ Fault /\ pc' = "retry"
  /\ UNCHANGED <<objectVars, queued, localVars, worldVars, historyVars>>

(* After a conflict the object is read again, from the cache, and the      *)
(* whole computed status is written over it.                               *)
RetryPatch == pc = "retry" /\ Write(cache.status)

PatchFails ==
  /\ pc \in {"patch", "retry"} /\ Fault /\ ReturnError
  /\ UNCHANGED <<objectVars, worldVars, historyVars>>

(* The process stops and a new one starts with everything on its queue.    *)
Crash ==
  /\ pc # "idle" /\ Fault /\ ReturnError
  /\ UNCHANGED <<objectVars, worldVars, historyVars>>

-----------------------------------------------------------------------------
(* Everybody else.                                                         *)

EditSpec ==
  /\ server.generation < MaxGeneration
  /\ \E spec \in Specs \ {server.spec} :
       LET object == [server EXCEPT !.generation = @ + 1, !.spec = spec]
       IN Publish(object) /\ queued' = (queued \/ Notifies(object))
  /\ UNCHANGED <<pc, localVars, worldVars, faults, historyVars>>

(* The next version arrives at the cache.                                  *)
Deliver ==
  /\ watch # <<>>
  /\ cache' = Head(watch) /\ watch' = Tail(watch)
  /\ queued' = TRUE
  /\ UNCHANGED <<server, pc, localVars, worldVars, faults, historyVars>>

(* The Ingresses change; every TransferGW is queued.                       *)
ClusterChange ==
  /\ changes < MaxChanges /\ changes' = changes + 1
  /\ \E outcome \in Outcomes \ {cluster} : cluster' = outcome
  /\ queued' = TRUE
  /\ UNCHANGED <<objectVars, pc, localVars, clock, faults, historyVars>>

(* An event that changes nothing here: an owned HTTPRoute, an unrelated    *)
(* Ingress, a resync, a patch that brought only lastTransitionTime up to   *)
(* date.                                                                   *)
Wake ==
  /\ ~queued /\ queued' = TRUE
  /\ UNCHANGED <<objectVars, pc, localVars, worldVars, faults, historyVars>>

Tick ==
  /\ clock < MaxClock /\ clock' = clock + 1
  /\ UNCHANGED <<objectVars, queued, pc, localVars, cluster, changes, faults, historyVars>>

-----------------------------------------------------------------------------
Hooked(ok) ==
  PreConversion(ok) \/ PostConversion(ok) \/ PreRollout(ok) \/ ReportComplete(ok)

(* The steps Reconcile takes when the API server serves it.                *)
Reconcile ==
  \/ Begin
  \/ \E ok \in BOOLEAN : Hooked(ok)
  \/ Convert
  \/ ReportAwaiting \/ ReportNoIngresses \/ ReportFailed
  \/ ReportUnchecked \/ ReportHealthy \/ RollBack
  \/ PatchStatus \/ RetryPatch

Failure == ConvertFails \/ PatchConflict \/ PatchFails \/ Crash

Environment == EditSpec \/ Deliver \/ ClusterChange \/ Wake \/ Tick

Next == Reconcile \/ Failure \/ Environment

Spec == Init /\ [][Next]_vars

(* The worker takes its next step, events arrive and time passes.  A hook  *)
(* that is asked again and again approves in the end.                      *)
Fairness ==
  /\ WF_vars(Reconcile) /\ WF_vars(Deliver) /\ WF_vars(Tick)
  /\ SF_vars(PreConversion(TRUE)) /\ SF_vars(PreRollout(TRUE))

FairSpec == Spec /\ Fairness

-----------------------------------------------------------------------------
(* Properties.                                                             *)

AllGated == \A spec \in Specs : "PreRollout" \in spec.hooks

AllAlerting == \A spec \in Specs : Alerts(spec)

TypeOK ==
  /\ server \in ObjectType /\ cache \in ObjectType
  /\ watch \in Seq(ObjectType)
  /\ queued \in BOOLEAN /\ pc \in Steps
  /\ mig \in ObjectType /\ status \in StatusType
  /\ percentage \in Percent /\ awaiting \in BOOLEAN
  /\ cluster \in Outcomes /\ changes \in Nat /\ clock \in Nat /\ faults \in Nat
  /\ granted \in [Stages -> SUBSET Nat] /\ alerted \in SUBSET Nat

Coherent(s) ==
  /\ s.completion > 0 => s.converted > 0 /\ s.failed = 0
  /\ s.phase = "Complete" => s.completion >= 100 /\ s.conditions.ready.reason = "MigrationComplete"
  /\ s.phase = "RolledBack" => s.completion = 0 /\ s.conditions.rolledBack = "True"
  /\ s.phase \in {"Failed", "Analyzing"} => s.completion = 0

(* The parts of the stored status agree with each other, although they are *)
(* computed over several steps and written as a patch: traffic only over a *)
(* whole conversion, Complete only at 100%, RolledBack only at 0% with its *)
(* condition set, and no traffic in a phase that says nothing converted.   *)
StatusCoherent == Coherent(server.status)

(* When every spec carries a PreRollout hook, no share is ever stored      *)
(* before that hook approved: through crashes, failed patches and stale    *)
(* reads.                                                                  *)
NoTrafficUnapproved ==
  AllGated => (server.status.completion > 0 => granted["PreRollout"] # {})

(* When every spec has a webhook to alert, its own or the default, a       *)
(* stored rollback was alerted.                                            *)
NoSilentRollback ==
  AllAlerting => server.status.rollbackGeneration \in alerted \union {0}

(* A migration rolled back for its current generation is left alone until  *)
(* its spec is edited (transfergw_controller.go:151-155).                  *)
RollbackHolds ==
  [][LET rolledBack == /\ server.status.phase = "RolledBack"
                       /\ server.status.rollbackGeneration = server.generation
     IN rolledBack /\ server'.generation = server.generation
          => server'.status = server.status]_vars

(* What a share of n needs in the generation that Reconcile works on.      *)
Permitted(n) ==
  /\ "PreRollout" \in mig.spec.hooks => mig.generation \in granted["PreRollout"]
  /\ mig.spec.requireApproval => n <= mig.spec.approved

(* A reconcile that raises the share had the PreRollout hook's approval    *)
(* for the generation it read, and stays within that spec's approval       *)
(* (transfergw_controller.go:332-347).                                     *)
RaisesAreApproved ==
  [][server'.status.completion > server.status.completion
       => Permitted(server'.status.completion)]_vars

(* Once paused, only a reconcile that read an earlier spec still writes.   *)
PauseFreezes ==
  [][server.spec.paused /\ server'.status # server.status
       => mig.generation < server.generation]_vars

(* The share falls only for a reason the stored status shows.              *)
FallsForAReason ==
  [][server'.status.completion < server.status.completion
       => \/ server'.status.phase \in {"RolledBack", "Analyzing", "Failed", "Pending"}
          \/ server'.status.failed > 0
          \/ mig.spec.requireApproval /\ server'.status.completion = mig.spec.approved]_vars

(* Whatever edits, faults and changes happened, the stored share in the    *)
(* end is the one the spec, the cluster and the elapsed time ask for,      *)
(* unless the migration is paused or held after a rollback.                *)
Goal == ApprovedShare(server.spec,
          RolloutPercentage(server.spec, cluster.converted, cluster.failed, MaxClock))

SplitConverges ==
  <>[](\/ server.spec.paused
       \/ /\ server.status.phase = "RolledBack"
          /\ server.status.rollbackGeneration = server.generation
       \/ /\ server.status.completion = Goal
          /\ server.status.failed = cluster.failed)

(* The stored share is one that TrafficSplit allows.                       *)
Split == INSTANCE TrafficSplit WITH
  Gated <- AllGated,
  share <- server.status.completion,
  generation <- server.generation,
  held <- IF server.status.phase = "RolledBack"
          THEN server.status.rollbackGeneration ELSE 0,
  approvals <- granted["PreRollout"]

ImplementsSplit == Split!SplitSpec

(* Reconcile's next step calls the hook of a stage.                        *)
Asking(s) ==
  /\ s \in mig.spec.hooks
  /\ \/ s = "PreConversion" /\ pc = "preConversion"
     \/ s = "PostConversion" /\ pc = "postConversion"
     \/ s = "PreRollout" /\ pc = "preRollout" /\ Scheduled > 0
     \/ s = "PostRollout" /\ pc = "report" /\ Progressing /\ percentage >= 100
  /\ Calls(s)

(* "an already-approved hook is not called again on every reconcile - only *)
(* once per generation" (transfergw_controller.go:976-977), as long as no  *)
(* crash or failed call lost the record of its approval.                   *)
ApprovedOnce ==
  \A s \in Stages : Asking(s) /\ faults = 0 => mig.generation \notin granted[s]

-----------------------------------------------------------------------------
(* Inductive strengthenings of the properties above.                       *)

(* What a status claims has happened: a hook it calls approved approved    *)
(* that generation, a share was approved by some PreRollout call, and a    *)
(* rollback was alerted.                                                   *)
Honest(st, gr, al) ==
  /\ \A s \in Stages : st.conditions.hooks[s].approved
                        => st.conditions.hooks[s].generation \in gr[s]
  /\ AllGated /\ st.completion > 0 => gr["PreRollout"] # {}
  /\ AllAlerting => st.rollbackGeneration \in al \union {0}

(* Every copy of the object is honest, wherever the next write gets its    *)
(* fields from.                                                            *)
Copies == {server, cache, mig} \union {watch[i] : i \in DOMAIN watch}

HonestCopies ==
  /\ \A object \in Copies :
       object.spec \in Specs /\ Honest(object.status, granted, alerted)
  /\ Honest(status, granted, alerted)
  /\ AllGated /\ percentage > 0 => granted["PreRollout"] # {}

(* With a cache that does not lag, a running Reconcile works on the stored *)
(* status and on a spec no rollback holds.                                 *)
InSync ==
  /\ cache = server /\ watch = <<>>
  /\ server.status.rollbackGeneration <= server.generation
  /\ pc # "idle" =>
       /\ mig.status = server.status /\ ~Skips(mig)
       /\ mig.generation <= server.generation
       /\ server.status.rollbackGeneration <= mig.generation
       /\ status.rollbackGeneration <= mig.generation

(* And then what it works out is fit to be stored: coherent, permitted if  *)
(* it raises the share, a rollback of the generation it read.              *)
Settled ==
  /\ server.generation >= 1 /\ Coherent(server.status)
  /\ pc # "idle" =>
       /\ mig.generation >= 1
       /\ mig.generation = server.generation => mig.spec = server.spec
  /\ pc = "preConversion" => status = server.status
  /\ pc \in {"postConversion", "preRollout", "report"} => status.converted <= status.total
  /\ pc = "report" /\ percentage > 0 =>
       status.converted > 0 /\ status.failed = 0 /\ Permitted(percentage)
  /\ pc \in {"patch", "retry"} =>
       /\ Coherent(status)
       /\ status.completion > server.status.completion => Permitted(status.completion)
       /\ status.phase = "RolledBack" => status.rollbackGeneration = mig.generation

(* As long as nothing was lost, the approvals a hook gave for the          *)
(* generation at hand are on record where the next call looks for them.    *)
OnRecord ==
  faults = 0 =>
    \A s \in Stages : \A g \in granted[s] :
      LET approval == [approved |-> TRUE, generation |-> g]
      IN /\ g <= server.generation
         /\ IF pc = "idle"
            THEN g = server.generation => server.status.conditions.hooks[s] = approval
            ELSE /\ g <= mig.generation
                 /\ g = mig.generation => status.conditions.hooks[s] = approval
=============================================================================
