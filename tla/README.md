# TransferGW in TLA+

TransferGW is a Kubernetes operator. A `TransferGW` object selects Ingresses;
the controller converts them to one Gateway and one route per Ingress, and
publishes in `status.completionPercentage` the share of user traffic that
should be on the Gateway. That share rises by a schedule in `spec.rollout`,
behind lifecycle hooks and a human approval, and falls back to 0 when health
checks breach a threshold.

This directory holds TLA+ modules of the program, TLC configurations that check
them on small instances, and theorems about them that TLAPS checks.
`CTRL` below is `src/internal/controller/transfergw_controller.go`.

## 1. Inventory

| Component | Source | State it keeps | Operations |
|---|---|---|---|
| Rollout schedule | CTRL:653-712 | none: computed afresh from the elapsed time | `rolloutPercentage`, `canaryPercentage`, the approval clamp |
| TransferGW reconciler | CTRL:138-430, 1033-1069 | the object's status at the API server; a private copy while it runs; work queue; informer cache | `Reconcile`, `patchStatus`, requeueing, conflict retry |
| Lifecycle hooks | CTRL:950-1030, `internal/lifecycle` | one condition per stage: approved or not, for which generation | `runHook` of four stages |
| Rollback alert | CTRL:825-862, `internal/alert` | none | `sendRollbackAlert` |
| Route application and pruning | CTRL:181-310, 527-651 | HTTPRoutes and GRPCRoutes: managed-by label, controller reference, backends | the conversion loop, `applyRoute`, `applyGRPCRoute`, `pruneOrphanedRoutes` |
| Canary pairing | `internal/controller/canary` | none | `Pair`, weighted backends |
| Ingress selector | `internal/controller/selector` | none | listing, matching, sorting |
| Gateway and listeners | CTRL:432-524 | Gateways: class, listeners, controller reference | `ensureGateway`, `BuildListeners` |
| Admission webhook | `internal/controller/webhook` | none: reads TransferGWs and GatewayClasses | `ValidateCreate`, `ValidateUpdate` |
| Conversion engine | `internal/conversion/engine.go`, `route.go` | the route and issues being built | `ConvertIngress`, path matches, backends, merging of rule effects |
| gRPC conversion | `internal/conversion/grpc.go` | as above | `convertGRPCRoute` |
| Annotation translators | `internal/conversion/translator`, `annotation` | none | filters, timeouts, session persistence, warnings |
| Health and Prometheus | `internal/health`, CTRL:718-769 | `status.nextHealthCheck`; the comparison being made | `evaluateHealth`, `Compare`, `Evaluate` |
| Overlap check | `internal/controller/overlap` | none | `Check`: issues about Ingresses that claim one place for different backends |
| Preview CLI | `cmd/preview` | none | prints what a conversion would give |
| Manager and wiring | `cmd/main.go`, CTRL:1056-1085 | caches, leader election, work queue of controller-runtime | `SetupWithManager` |
| API types, generated code, chart, e2e | `api`, `chart`, `config`, `test` | - | - |

**How they interact.** Users and the webhook write the object's spec (every
change of it bumps `metadata.generation`); only the reconciler writes its
status, with a merge patch at the end of a pass. The reconciler reads from a
cache that follows the API server through watches; TransferGWs, Ingresses and
owned HTTPRoutes are watched, Gateways, GRPCRoutes and GatewayClasses are not.
Inside one pass it calls hooks over HTTP, lists Ingresses, writes the Gateway
and the routes, prunes, queries the metrics backend and posts an alert, and
everything else moves on meanwhile. The webhook shares with the reconciler the
rule which Gateway a spec wants, and nothing else: neither tells the other
anything. The garbage collector of the cluster removes what a deleted
TransferGW controls.

**What is hard.** The pass is long and its record is written last: a crash, a
conflict or a failed call in between loses what hooks and alerts were told. The
object it works on may be edited, or already be stale, before the patch goes
out. Two TransferGWs can select the same Ingress and ask for the same Gateway.
A partial failure of the loop must neither move traffic nor remove routes that
serve. Whatever is not watched has to be retried for another reason. The
conversion approximates, and has to say so. `PROJECT.json` lists these hazards
line by line.

**What makes each part correct.**

- Schedule: the share is the one the documented schedule gives, and never falls
  while only time passes.
- Health: a rollback blames a metric that was measured on both paths and is
  worse on the Gateway's; a backend that cannot be asked moves nothing; a
  Gateway that stays worse is found out.
- Reconciler, hooks, alert: no share without the approvals the spec asks for;
  a rollback is alerted and holds until an edit; a pause freezes; the stored
  fields agree; the share falls only for a reason; and it converges.
- Routes: pruning takes no route that is wanted, by whatever TransferGW; every
  Ingress is routed or reported, and so is every clash of two; the counts add
  up; the routes follow the Ingresses in the end.
- Gateways: one that its writer still claims is not overwritten by another
  TransferGW, whatever the webhook let through, and a sole claimant gets what
  its Ingresses need.
- Conversion: unreported means equivalent; a request that goes astray meets a
  path that was named in an issue; no annotation the program knows is lost; it
  can be told from the Ingress which routes the API server accepts.

## 2. Modules

| Module | Models | Kind |
|---|---|---|
| `Rollout` | the schedule, with Go's int32 | operators |
| `Health` | thresholds against measurements, NaN included | operators |
| `Monitoring` | the schedule and its health checks as time passes: the queries of a comparison, their answers and failures, the rollback | state machine |
| `TrafficSplit` | what a migration promises about user traffic | abstract specification |
| `Migration` | one TransferGW and its reconciler, hooks, outcome of the health check, alert, cache and queue | state machine |
| `Routes` | the conversion loop, canary pairing, overlap check, pruning, watches, garbage collection, several TransferGWs | state machine |
| `Gateways` | webhook and `ensureGateway`, several TransferGWs | state machine |
| `Conversion` | `ConvertIngress` with two reference semantics of requests | algorithm, one action per step |
| `MC*` | the instances for TLC | |
| `*Proofs` | theorems about the module they extend | |

`Migration` extends `Rollout` and instantiates `TrafficSplit`; `Monitoring`
extends `Rollout` and `Health`. `Migration` takes the outcome of a health check
as given, any of the three at any time; `Monitoring` shows where an outcome
comes from, in a pass that has nothing else to do. `Migration`, `Routes` and
`Gateways` share the controller but not state: a pass's status machine sees of
the loop only how many Ingresses were converted and failed (`Outcomes`; that
they add up as `OutcomeType` says is proved of `Routes`), `Routes` fixes the
rollout to `immediate` without hooks, and `Gateways` ends a pass after
`ensureGateway`, which depends on nothing later. Composing them would multiply
their states and add no interaction.

An operator `X_Y` next to an operator `X` is `X` with the plausible bug `Y`. No
action uses it. It is there to show that the property that should notice the
bug does notice it (`mutants` in `PROJECT.json`).

### Migration

| State | In the code |
|---|---|
| `server`, `cache`, `watch` | the object at the API server, in the informer cache, and the versions under way between them |
| `queued` | the controller-runtime work queue holds its key |
| `pc`, `mig`, `status`, `percentage`, `awaiting` | Reconcile's position and its locals `migration` / `original`, `status`, `percentage`, `awaitingPreRollout` |
| `cluster` | what converting the Ingresses selected now gives |
| `clock` | time since `creationTimestamp` |
| `granted`, `alerted` | history: what hooks approved and alert receivers were told |

A pass is split where it waits for somebody else: `Begin` (138-160),
`PreConversion` (162-176), `Convert` / `ConvertFails` (178-325),
`PostConversion` (327-330), `PreRollout` (332-349), one `Report...` action per
branch of the phase decision (351-415) including `RollBack`, and
`PatchStatus`, `PatchConflict` with `RetryPatch`, `PatchFails` (417-430,
1033-1053). `Merge` is the JSON merge patch: it carries the fields that differ
from the base, lists as a whole. `Crash` may happen at every step. A status
write of a running pass therefore goes over whatever was stored meanwhile,
field by field, as it does in the program. `Alerts` says whether a rollback of
a spec is told to anybody: by its own URL if it has an alerting block, by the
cluster's default (`DefaultWebhook`) if not.

### Monitoring

| State | In the code |
|---|---|
| `plan`, `elapsed` | `spec.rollout`, `spec.monitoring`; time since `creationTimestamp` |
| `world` | what Prometheus would answer to each query now: a sample, none, or a failure |
| `share`, `phase`, `shown`, `wait` | the stored `completionPercentage`, `phase`, message of `RolledBack`, and the time until `nextHealthCheck` |
| `pc`, `percentage`, `todo`, `reading`, `comparison` | `Compare` under way: the pass's percentage, the pairs left in its loop, the sample of the first query of a pair, `out` |
| `due`, `steady` | history: the share of the documented schedule; nothing changed since the comparison began |

Each query is a step of its own (`AskIngress`, `AskGateway`, `AskInVain`,
`AskFails`), in the order of `Compare`'s table, and the backend's state, the
time and the process may change between any two. `Healthy` and `RollBack` are
the end of the pass with its patch, which `Lose` may keep from being stored. A
measurement is a natural number or NaN.

### Routes

`found`, `todo`, `desired`, `converted`, `issues` are the loop's locals, and
`issues` starts with what the overlap check finds; an Ingress has a set of
`places` (host, path and path type); `routes` are
the objects it writes, keyed by kind, namespace and name as the API
server keys them. `maker` is the only field with no counterpart: it remembers
who wrote a route, so that a property can compare it with the label the code
goes by. `queue` and `again` are the work queue with its rule that a key being
processed is queued again only afterwards. `fresh` stands for
`lastTransitionTime`, which is patched with a resolution of one second and so
decides whether a patch is an event.

Routes are read from the cache, `seen`, which `news` says what is under way to.
A create or update that rests on a stale copy is refused by the API server
(`ApplyFails`) unless the copy is what is asked for (`Unchanged`), which sends
nothing; pruning lists each kind from the cache (`ListRoutes`, `orphans`) and
deletes without a precondition (`PruneRoute`). `Sync` delivers, and queues
whoever the change concerns.

### Gateways

A request passes the class check, the claim check and the store in three steps;
between them others may be admitted, stored or reconciled. `Lags` lets the
manager's cache trail. `EnsureGateway` is a pass as far as the Gateway:
controller reference only inside one namespace, class and listeners
overwritten. It reads that Gateway as it is; section 5 says what a stale copy
can do. `CheckFails` is an admission check that cannot be made, or a selector
that cannot be evaluated. `tls` is the TLS blocks of the Ingresses a TransferGW
selects, in their order, and `BuildListeners` goes through them as the code
does. A TransferGW that is neither in `dirty` nor in `behind` is at rest:
nothing about it is queued, and the cache has its last version.

### Conversion

Annotations are translated in the order of their keys, one
`TranslateAnnotation` each, then `ConvertEntry` takes the paths. A path is a
sequence of segments, an annotation is what its translator does with it; `lost`
is a value or key the program drops without a word. `RegexSegments` and
`DottedSegments` are what the program takes for parts of a regular expression.
What the Ingress controller takes for one is not the program's to say: it is a
parameter, `Takes`, about which the theorems assume nothing. In the instance it
follows ingress-nginx, with a character class, an optional slash (`/x/?.+`) and
an alternation (`/x/y|/z`). `Served` says which backend the Ingress has for a
request, `Routed` which one the route has, both by the precedence of the
respective API; the properties compare them over all hosts and requests of the
instance.

## 3. Runs

| Run | Question | Instance |
|---|---|---|
| `Migration_safety` | Coherent status, rollback, pause, approvals, refinement of `TrafficSplit`, convergence | 3 generations, hooks `PreConversion`, `PreRollout`, `PostRollout`, 1 fault, 1 change of the cluster, every outcome |
| `Migration_lag` | The same promises when every read may be stale; convergence | cache trails by 1 version, 2 generations, 1 fault, approval raised or lowered |
| `Monitoring` | Does the share follow the documented schedule, and does every rollback, and only a justified one, happen? | 100 unmonitored plans of unset, boundary and usual values over 12 ticks, 2 monitored ones; the default queries; every metric healthy, breached, without a sample and failing, singly and in pairs; 1 change of the answers between any two queries, 1 lost pass |
| `Routes_one` | Is every Ingress of a loop accounted for, every clash reported and no wanted route pruned? | 1 TransferGW, 3 Ingresses, every shape, 1 change or crash between any two calls |
| `Routes_follow` | Do the routes follow the Ingresses? | 1 TransferGW, 2 Ingresses, 2 changes and a failed call, a crash or a write the cache learns of late |
| `Gateways_follow` | What remains when the webhook's race is lost, and is a TransferGW at rest served? | 2 TransferGWs in one namespace that want one Gateway, concurrent requests, trailing cache |
| `Conversion` | Is what is not reported right, and what will be accepted? | up to 2 paths of every type, port and backend, regular expressions, HTTP and gRPC; every subset of 7 portable, 7 troublesome and 6 conflicting annotations, 2 policies |
| `Doc_stale_rollback` | expected violation of `RollbackHolds` | cache trails by 1 version, no fault |
| `Doc_prunes_live_route` | expected violation of `KeepsServed` | 1 Ingress, 1 failed call |
| `Doc_handover` | expected violation of `PrunesUnmatched` | 2 TransferGWs, 1 Ingress that changes hands, 1 write the cache learns of late |
| `Doc_hosts_mixed` | expected violation of `SameBackends` | 2 hosts, 2 paths |
| `Doc_nan_rolls_back` | expected violation of `BlamesTheWorse` | a latency query that answers NaN |

What they show: all properties hold but the five of the last rows, which are
disagreements of the program with its documentation:

- **A rollback does not hold** (`Doc_stale_rollback`, CTRL:156). Whether one
  does is read from the cache, and the status is patched without a
  resourceVersion precondition (CTRL:1039): a pass that reads the version
  before the rollback writes over it, although a rolled-back migration "holds
  until a human edits the spec" (CTRL:151-152). Only one write needs to be
  late, and no call fails.
- **A failed write removes the route that serves** (`Doc_prunes_live_route`,
  CTRL:302). Only an Ingress whose route was applied counts as desired; when the
  update fails for a passing reason, the same pass prunes the old route,
  although pruning is documented as being for Ingresses that "no longer match
  the selector" (CTRL:602-603).
- **A route is pruned that another TransferGW has taken over** (`Doc_handover`,
  CTRL:621). An Ingress passes from the selector of A to that of B, which queues
  both. B writes its label on the route; A lists it from the cache with its own
  (CTRL:612), and the delete has no precondition. B selects the Ingress and has
  no route for it. With a current cache the same instance has no counterexample.
- **Hosts are mixed** (`Doc_hosts_mixed`, `internal/conversion/engine.go:281`).
  All hosts become hostnames of one HTTPRoute and all paths its rules, so a
  request to one host may reach the backend of another, and nothing is reported.
- **A Gateway without traffic is rolled back for its latency**
  (`Doc_nan_rolls_back`, `internal/health/health.go:122`). Prometheus answers
  `histogram_quantile` over a window without requests with NaN, which
  `ParseFloat` accepts (`prometheus.go:209`). `worseThan` asks whether the
  Gateway is *not* worse, and NaN answers no to every comparison: the metric
  counts as breached, although a metric without data "is never treated as a
  breach" (`health.go:44-45`).

**Bounds and why they are enough.** Each bound is a constant with a comment in
the module that declares it. One fault reaches every position of a pass once,
and recovery from it does not depend on earlier ones, since a pass keeps
nothing in memory. Three generations are needed for an edit before and one
after a rollback; one tick of the clock separates a first step of the schedule
(60%) from a second that overshoots 100, and lets one health check become due.
Two claimants and two TransferGWs are what claims and labels distinguish; a
third one adds nothing to pairwise properties (and the theorems cover any
number). Three Ingresses are the smallest number with a pair and one more at
the same place, which undoes the pair. Two changes let an Ingress leave and
come back. A lag of one version is what separates "read before my own last
write" from "read after"; safety under any lag is proved where it holds.
`MaxTroubles` bounds faults, crashes and late writes together: two in one
second leave things undone (section 5). Two paths of one host meet every
combination of path types and of precedence; hosts are mixed only in the run
that shows what mixing them does. `HalfInt32` is 2^10 or 2^20 in the runs, far
above what their clocks reach, so that overflow does not happen in them; that
the share stays a percentage through every overflow is proved. In `Monitoring`
one metric at a time leaves a healthy state, and two do where the order of the
queries matters; one change of the answers meets every position of a
comparison, and one lost pass every step of it; 12 ticks are enough for each
plan to reach 100 or to pass three boundaries between steps.

**Where a run leaves something out because it is known to fail** (section 5):
`Routes_one` makes no call fail and its cache is current, it and
`Routes_follow` have no gRPC backends, `Routes_follow` has one trouble at a
time, `Gateways_follow` is in one namespace and its specs do not move away from
a Gateway another one waits for, `Conversion` has annotations only on HTTP
Ingresses and one host, and `NothingSilent` leaves out what is `lost`;
`Monitoring` has no NaN, and its `BlamesTheWorse` and `JudgesWhole` are about
checks during which the answers did not change (`steady`). `RollbackHolds`,
`StatusCoherent` and the other properties of `Migration_safety` are checked
without lag, and `ApprovedOnce` says itself that it is about passes without a
fault.

**Deadlock** is checked in the `Migration` runs and in `Monitoring`, where
`Wake` and the queue, and time, keep the system going. It is not in the others:
a conversion ends, time stops at its bound, and a controller without events
rests.

**Fairness.** `WF(Reconcile)`: a worker with something to do does it; a pass
never blocks for ever, because hooks, queries and alerts have time-outs
(`internal/lifecycle/hook.go`, `internal/health`, `internal/alert`) and a
failed call counts as an answer. `WF(Deliver)`: a watch delivers. `WF(Tick)`:
time passes. In `Monitoring` `WF(Pass)`: a migration in phase `Canary` is
reconciled again and again, and each query ends within its time-out
(`prometheus.go:94`). `WF(Collect)`: the cluster's garbage collector works;
`WF(Sync)`: the watches of routes deliver. Only `SF(PreConversion(TRUE))` and
`SF(PreRollout(TRUE))` ask something of a user: a hook that is asked again and
again approves in the end; without that a migration rightly waits for ever.
Nothing is assumed of edits, changes, faults, crashes, or of health. Faults and
edits are bounded, so that "in the end" means after the last.

## 4. Proofs

`tlapm` checks every theorem to its leaves, for every value of the constants
that satisfies the modules' assumptions.

| Theorem | Says | From |
|---|---|---|
| `CanaryPercentageIsPercent` (`RolloutProofs`) | the share is in 0..100 for every rollout and elapsed time, wrap-around included | `RolloutAssumption` |
| `ScheduleGrows` | the share never falls from one moment to the next, short of the wrap of int32 | `ClosedForm` |
| `TypeCorrect` (`MigrationProofs`) | `Spec => []TypeOK` | `TypeOK` is inductive, with the lemma above for the share |
| `TrafficIsApproved` | `NoTrafficUnapproved` for any lag, faults and edits | `HonestCopies` |
| `RollbacksAreAlerted` | `NoSilentRollback` for any lag, faults and edits | `HonestCopies` |
| `RollbackIsHeld` | `RollbackHolds` when `MaxLag = 0` | `InSync` |
| `StoredCoherently` (`MigrationSyncProofs`) | `[]StatusCoherent` when `MaxLag = 0` | `Settled` |
| `RaisesArePermitted` | `RaisesAreApproved` when `MaxLag = 0` | `Settled`, `HonestCopies` |
| `PauseIsKept` | `PauseFreezes` when `MaxLag = 0` | `InSync`, `Settled` |
| `HooksAskedOnce` | `[]ApprovedOnce` when `MaxLag = 0` | `OnRecord` |
| `SharesFallForAReason` | `FallsForAReason` when `MaxLag = 0`, no edit changes the schedule (`SameSchedule`) and int32 does not wrap (`NoWrap`) | `Grounded`, `Settled`, `ScheduleGrows` |
| `SplitImplemented` | `Spec => ImplementsSplit` when `MaxLag = 0` | `InSync`, `Settled`, `HonestCopies` |
| `MonitoringTypes` (`MonitoringProofs`) | `[]TypeOK` of `Monitoring` | `TypeOK` is inductive |
| `ScheduleFollowed` | `[]FollowsSchedule` while int32 does not wrap (`NoWrap`) | `OnSchedule` |
| `ShareAdvances` | `Advances` under `NoWrap`, whatever is lost or delayed | `OnSchedule`, `NeverAhead` |
| `FailuresMoveNothing` | `JudgesWhole`, for any queries and answers | `Faithful` |
| `BlamedIsWorse` | `BlamesTheWorse` when no answer is NaN (`NeverNaN`) | `Faithful` |
| `RoutesTypes` (`RoutesProofs`) | `[]TypeOK` of `Routes` | `TypeOK` is inductive with `LoopInv` |
| `CountsAreRight` | `[]CountsAddUp`, for any Ingresses, canaries and faults | `LoopInv` |
| `SomeAreCounted` | a loop over something that has ended has converted or failed something | `LoopInv` |
| `ClashesAreReported` | `ClashesReported`, for the backends of the routes, merged canaries included | `LoopInv` |
| `NothingIsDropped` | `NothingDropped` unless a canary could belong to a gRPC primary (`NoGRPCPrimaries`) | `LoopInv` |
| `PrunedForAReason` | of the Ingresses selected and converted, pruning takes only the route of one this pass could not apply, and it is reported; any faults, however the cache trails | `LoopInv` |
| `ServedAreKept` | `KeepsServed` when no call fails, the cache is current and no two TransferGWs share a namespace (`HomesDiffer`) | `LoopInv`, `OwnersLocal`, `CacheCurrent`, `NoneUnapplied` |
| `GatewaysTypes` (`GatewaysProofs`) | `[]TypeOK` of `Gateways` | `TypeOK` is inductive |
| `EverySecretServed` | `BuildListeners` makes one listener for each secret and no other, for every list of TLS blocks | the least block at which it would not |
| `NothingIsForgotten` | `[]AtRestServed` inside one namespace, whatever races, lags or is collected | `AtRest`, `OwnerIsWriter`, `EverySecretServed` |
| `OwnersAreKept` | `KeepsOwner` inside one namespace (`OneNamespace`), whatever races were lost | `OwnerIsWriter` |
| `ConversionTypes` (`ConversionProofs`) | `[]TypeOK` of `Conversion` | `TypeOK` is inductive |
| `LongestIsKept` | `[]LongestTimeout` | `BackendInv` |
| `NoneIsSilent` | `[]NothingSilent` when gRPC Ingresses have no annotation that asks for something (`GRPCAsksNothing`) | `NoticeInv` |
| `ConvertedWhole` | `[]WholeIngress` | `RulesInv` |
| `MisroutesAreTold` | `[]MisroutesAreNamed` with one host per Ingress (`OneHostEach`), whatever the Ingress controller takes for a regular expression | `RulesInv`, `HostsInv`, `ReportedInv` |
| `SameAnswers` | `[]SameBackends` with one host per Ingress (`OneHostEach`) | `MisroutesAreTold` |
| `AcceptanceIsDecided` | `[]AcceptedExactly`, for every Ingress and policy | `CountInv`, `BackendInv`, `RequestInv`, `RulesInv`, `EmptyInv` |

**Why the strengthenings.** `NoTrafficUnapproved` speaks of the stored status
alone and is not inductive: the stored status gets its fields from the working
copy, which comes from the cache, which comes from versions under way.
`HonestCopies` says that *every* copy claims only what happened: an approval
recorded for a generation was given, a positive share has an approval behind
it, a rollback recorded was alerted. Histories only grow, so a claim once true
stays true in every old copy, and a merge of two honest statuses is honest
(`MergeHonest`), because each claim is either about one field or survives
taking its fields from either side. That is what makes stale reads harmless for
these two properties.

`RollbackHolds` is different: it *does* depend on the copy being the current
one. `InSync` says that without lag a running pass works on the stored status
(nobody else writes it) and on a spec no rollback holds, so that a write over a
held rollback cannot happen; the generation a pass rolls back is never above
the object's.

Then a patch stores the working copy as it is (`PatchStores`): nobody else
writes the status, so that every field is taken from the copy or already equal
to it, after a conflict too. What is stored is therefore as good as what a pass
works out, and `Settled` says how good that is at every step: once it has
reported, the working copy is coherent, a share above the stored one is
permitted for the generation read, and a rollback is one of that generation.
That needs `converted <= total` (an Ingress counts once), for otherwise "no
Ingresses" could be reported with traffic. The refinement follows: a patch is a
`Move` or a `RollBackTo0`, an answer of `PreRollout` an `Approve`, an edit an
`Edit`, and everything else a stutter.

`OnRecord` says that, as long as nothing was lost, an approval given for the
generation at hand is in the working copy, or in the stored status between two
passes. An answer replaces a record only when the hook was called, hence
only when the record held no approval of this generation.

`OnSchedule` is the documented schedule in closed form, `Clamp(initial +
(elapsed \div step) * increment)`. A tick crosses a boundary between steps
exactly when the step length divides the new time (`NextStep`), and stopping at
100 in every step is the same as stopping there at the end (`ClampLate`), so it
is inductive; below the wrap int32 changes nothing (`Int32Fits`), and it is
what the code computes. `NeverAhead` adds that a share not rolled back, and the
percentage of a pass under way, are at most what the schedule has reached: a
delayed pass publishes a late share, never a lower one. `Faithful` says of a
comparison under way, as long as the answers have not changed, that each
measurement is what the backend would answer on both paths, that the queries
left are the end of the table, and that those before them were answered.

`FallsForAReason` needs a reason for every share below the stored one, so that
the stored one must not be ahead of what is due. `Grounded` says that it never
is: neither the stored share nor the percentage of a pass exceeds what the
schedule gives a migration that nothing holds back (`Due`), and a pass with
less than the stored share knows why: it waits for an approval, nothing was
converted, something failed, or the share is the approved one. `Due` only grows
while the spec's schedule stays and int32 does not wrap. Both are needed: an
edit to a smaller initial share lowers the traffic without a reason in the
status, and section 5 tells of the wrap. A pass that selected something has
also converted or failed something, which `OutcomeType` takes for granted here;
`SomeAreCounted` and `CountsAreRight` prove it of the loop.

`LoopInv` says what is known of the Ingresses the loop has read (`Read`): what
`converted` counts is the routes applied and the canaries met with their
primaries (`Counted`), a failed one is among neither, and each of them was
dealt with (`Handled`): reported, or in `desired`. That the count stays right
needs that a canary belongs to one primary, so that it is added once. `Current`
is the smallest Ingress left, which exists because numbers are well-founded.
The hypotheses are where the program differs from its documents (section 5): a
canary of a gRPC primary is dropped, a failed call prunes, and TransferGWs of
one namespace refuse each other's routes, which counts as a failed call too. A
stale copy of a route counts as a failed call too, hence `CacheCurrent`, which
`MaxLags = 0` gives. `PrunedForAReason` needs none of them: what is listed,
stale or not, and is not in `desired` was not applied, and of an Ingress that
could be converted that is reported. `ClashesAreReported` compares routes, not
Ingresses. Two of different Services are both claimants of the place, and
overlap; two of one Service differ only if a canary was merged into one of
them, which `Handled` says is reported.

`AtRest`: the cache has what is stored unless a change is under way, and the
Gateway of a TransferGW that is not queued is the one its last pass wrote. A
Gateway changes when another TransferGW writes it, which the controller
reference refuses (hence one namespace), or when it is collected, which happens
after its owner is gone; neither event is watched, and neither needs to be.
Both `NothingIsForgotten` and `OwnersAreKept` are about a pass that reads the
Gateway as it is; a stale copy that differs from what is asked for would be
refused by the API server, and section 5 tells of one that does not.

`BuildListeners` is a recursive function, and what it gives for every list is a
statement about data. The library's induction theorems cannot be used (below),
but the well-foundedness of the numbers can, as a fact about *sets* (`WFMin`):
were there a list and a length at which the function is not as claimed, there
would be a least one, and the step from the one before (`OneMoreBlock`)
contradicts it. That way the existence of the function is shown first
(`AfterExists`), then what it gives. The highest precedence among the rules
that fit a request in `Conversion` is found in the same way.

In `Conversion` each invariant is the property restricted to what has been done
so far: of the annotations translated, those kept explain how often each filter
stands (`CountInv`) and which timeouts are set, and each of them shows or was
reported. Of the paths converted, path `i` has its rule at `Place(i)`, the
number of paths up to it, which makes the rules one for one and in order.
`AcceptanceIsDecided` reads the rules of the HTTPRoute CRD off these: a filter
stands twice exactly when two annotations that were kept ask for it, and the
backend's timeout exceeds the request's exactly when the longest of the one
does. It needs no hypothesis.

`MisroutesAreTold` is proved from the other side: of a request that no reported
path concerns, neither in the Ingress nor in the route, all paths and rules
that fit are Exact or Prefix ones and stand for each other, so that the
Ingress's best path and the route's best rule, chosen by one order over the
same places, have one backend. Nothing is assumed of what a regular expression
takes. Where nothing at all was reported no path is named, and `SameAnswers`
follows. `OneHostEach` and `GRPCAsksNothing` exclude what section 5 lists for
`Conversion`, and nothing else is assumed of Ingresses and policies.

`OwnerIsWriter`: inside one namespace the controller reference names whoever
wrote the Gateway last, and `SetControllerReference` refuses everybody else.
That is all there is to rely on, for the webhook does not keep claims apart
(section 5): no property here depends on its check.

**Model-checked only.** Liveness (`SplitConverges`, `CatchesBreach`,
`RoutesFollow`, `GatewaysFollow`): liveness under fairness and `ENABLED` are out
of this prover's reach. So are the library's theorems for induction over data,
which take an operator as a parameter; what is proved by induction here
(`BuildListeners`, least and best elements) goes through a smallest
counterexample instead, which is long, and is done where a property needs it.

## 5. Where the program differs from its comments and documents

Seen while modelling. The five of section 3 are runs; for these the
model's instances can be changed to show them, or the modules leave them out as
noted.

*Migration*
- A hook's approval is stored only by the patch at the end (CTRL:1007, 422); if
  that is lost the hook is asked again for its generation, against CTRL:976-977
  and `src/docs/RUNBOOK.md:654`.
- A notify-only hook that answered without approving is called again by every
  pass (CTRL:994), against `src/docs/RUNBOOK.md:654`.
- Every edit makes `PreRollout` be asked again, and the share is 0 while it
  denies (CTRL:335, 995); the comment at CTRL:332-334 says it gates the first
  move only.
- An edit between the read and the patch of a pass that rolls back makes the
  rollback one of an old generation, which holds nothing (CTRL:384), against
  `src/docs/RUNBOOK.md:696-701`.
- The alert goes out before the patch (CTRL:389), so that it may tell of a
  rollback that is never stored, against CTRL:832-833 and
  `src/docs/RUNBOOK.md:714-715`.
- With some Ingresses failed and some converted the phase is `Canary`
  (CTRL:399); `src/docs/KUBERNETES_GUIDE.md:485-486` says `Failed`.
- A lowered `approvedPercentage` has no effect while `PreConversion` denies
  (CTRL:165-172), against `src/api/v1beta1/transfergw_types.go:146-147`.
- `steps * increment` wraps in int32 (CTRL:703): with a `stepDuration` of
  milliseconds a finished schedule falls back to 0 after about a day.

*Health*
- The two paths of a metric are queried one after the other
  (`prometheus.go:136-143`), and metrics one after the other: a check that
  straddles a change compares two moments, and may roll back a Gateway that was
  at no moment worse.
- One query that always fails ends every comparison before it judges anything
  (`prometheus.go:137-139`): the metrics before it, however bad, never lead to a
  rollback, and the log says only that the rollout was left where it is.
- Throughput is compared in totals, whatever share of the traffic the Gateway
  has (`health.go:107-108`): at 25% a threshold below 0.67 is always breached.
- `metricComparison` calls every metric with a smaller number on the Gateway
  path "healthy" (CTRL:790-793), throughput included, where that is what a
  breach is.
- `nextHealthCheck` is kept across edits and pauses: after a resume the first
  check waits for the old time (CTRL:741).
- `src/docs/KUBERNETES_GUIDE.md:512` and `src/docs/TESTING.md:656` say that
  health monitoring and rollback are not implemented.

*Routes*
- The overlap check compares backends by the name and port of the Service, not
  its namespace (`internal/controller/overlap/overlap.go:103-111`), and all
  resource backends as one: two Ingresses of two namespaces with a Service
  of one name clash unreported, against `overlap.go:35-41`. `Routes_one` is in
  one namespace.
- Pairing does not look at the path type
  (`internal/controller/canary/canary.go:111-120`): a canary for a prefix is
  folded into a primary for the exact path, and what else it matched is routed
  nowhere. The modules have one path type.
- At most 100 issues are stored (CTRL:321): those of Ingresses late in the loop
  may be lost.
- Every pass patches `lastTransitionTime`, and the watch has no predicate
  (CTRL:1059): a Complete TransferGW keeps reconciling itself, once per second
  or so, against the comment on pacing at CTRL:53-54.
- Pruning goes by a label with the bare name, in all namespaces (CTRL:612): two
  TransferGWs of one name prune each other's routes. The instances have
  different names.
- The overlap check knows an Ingress by its own backends (`overlap.go:53`), and
  not what pairing adds to its route: a primary with a merged canary, beside an
  Ingress of the same Service that has this place and another, clashes with it
  (`[v1 80, v2 20]` against `[v1]`), against `overlap.go:35-41`. All the status
  has is the note that the canary was merged, which is what `ClashesReported`
  asks for there.
- A create or update that rests on a stale copy fails (CTRL:539), and the same
  pass then prunes the route: what `Doc_prunes_live_route` shows needs no other
  failure than a cache that trails. With unlucky timing it can go on, a pass
  for each deletion. `Routes_follow` therefore bounds the late writes.
- A pass that fails altogether, in the second in which an earlier process or
  pass stored the same status, is no event, and `Failed` is not requeued
  (CTRL:426): after a failed call and a crash, or two late writes, within one
  second a TransferGW may stay without its routes until something else happens.
- `desired` does not hold the kind (CTRL:604): an Ingress that becomes gRPC
  keeps its HTTPRoute.
- The canary of a primary with gRPC backends is skipped and never merged
  (CTRL:243): it is in no route and no issue.
- A TransferGW refused a route whose controller is being deleted stays `Failed`,
  which is not requeued, after the route is collected (CTRL:426).

*Gateways*
- The webhook checks against a cache and the API server stores later
  (`internal/controller/webhook/webhook.go:125`): concurrent requests are both
  admitted, and so is one whose rival the cache does not have yet, against
  `src/docs/RUNBOOK.md:502`. Inside one namespace the controller reference then
  decides; across namespaces nothing does, and the two overwrite each other's
  Gateway.
- `ensureGateway` compares with the Gateway as the cache has it (CTRL:457),
  where `Gateways` reads it as it is: when a class is changed and changed back,
  the second pass may find the old copy equal to what it wants, send nothing
  and leave the Gateway with the class in between, until another pass.
- It looks at what others ask for, not at who controls the Gateway
  (`webhook.go:133`): a TransferGW may be admitted whose Gateway another still
  controls, and then fails for ever (CTRL:469), against `webhook.go:33-36`.
- `ensureGateway` overwrites a Gateway somebody else made (CTRL:459);
  `src/api/v1beta1/transfergw_types.go:71` says "if missing".
- Updates that only pause pass through all checks (`webhook.go:65`) and are
  refused once the class is gone, against `src/docs/KUBERNETES_GUIDE.md:488`.
- Across namespaces a take-over leaves the old controller reference (CTRL:468):
  the Gateway in use is collected with its old owner, and since Gateways are not
  watched nothing makes it again.

*Preview*
- `cmd/preview` converts every Ingress on its own
  (`cmd/preview/main.go:159-184`): it does not pair canaries, does not run the
  overlap check, and prints no GRPCRoute, though `src/docs/TESTING.md:306` says
  it "runs that exact selection-and-conversion logic".

*Conversion*
- A rule without a host beside one with a host is narrowed to that host
  (`internal/conversion/engine.go:204`).
- Five of the seven annotations with "a portable Gateway API filter"
  (`nginx.go:34-49`) give routes that are refused: a redirect filter stands
  beside backendRefs (`engine.go:225`), which the HTTPRoute CRD does not allow.
  It also refuses a `ReplacePrefixMatch` rewrite beside an Exact match, two
  filters of one type (`engine.go:336` appends annotation by annotation), and
  timeouts of two vendors' annotations that leave the backend's longer than the
  request's. No issue tells of it. `AcceptedExactly` says that no other
  conversion breaks these rules.
- The prefix for a regular expression (`route.go:171`) also takes less than it:
  for `/foo/?(.*)` it is `/foo`, which has no `/foobar`, and for `/a/b|/c` it
  is `/a`. The warning says that the path is approximated by a prefix match,
  and not that requests are lost.
- Some annotations are lost in silence, against `src/README.md:12-14`: a value
  of `affinity` other than the known ones (`translator.go:136`), values of
  `cors-*` that cannot be read, and keys of vendors the program does not know
  (`engine.go:317-327`).
- Annotations of an Ingress with gRPC backends are neither translated nor
  reported (`engine.go:193`), against `src/README.md:12-14`, and its `/` of
  type Exact becomes a rule for every call without an issue (`grpc.go:81`).
- `session-cookie-name` sees a dropped `affinity` (`engine.go:345`), against
  `engine.go:70`: the cookie gets persistence under that name. Dropped
  annotations have no other effect (`engine.go:313`).

## 6. Not modelled, and what comes next

Not modelled: the wording of issues and conditions, `pendingPlan`, resources
and metrics shown in the status (nothing reads them back); CORS headers and
other values copied from annotations into filters; parent references and TLS
notes; the HTTP clients of hooks, alerts and Prometheus (an answer, or a
failure that counts as one), the rendering of query templates and the rounding
of floats; leader election and certificates; the preview command; generated
code, the chart and the end-to-end tests. `gradual`, `strategy` and
`maxDuration` in `spec.rollout` are not read by the program.

Order of the plan, the first five done:

1. `Rollout`, `Migration`, `TrafficSplit`: the traffic share, the most important
   behaviour. Theorems: the schedule grows, types, approval, alert, hold,
   coherence, permitted raises, pause, hooks asked once, falls for a reason,
   refinement.
2. `Health`, `Monitoring`: the schedule and the checks that may end it.
   Theorems: types, schedule, advance, failures, blame.
3. `Routes`: loop, overlaps, pruning, watches. Theorems: types, counts, clashes,
   nothing dropped, pruned for a reason, served kept.
4. `Gateways`: webhook and Gateway. Theorems: types, owners kept, listeners,
   served at rest.
5. `Conversion`: what a conversion means for requests. Theorems: types,
   timeouts, silent annotations, whole Ingresses, misroutes told, same
   backends, accepted routes.
6. `Selector` (patterns, classes, label selectors, `selector.go:41-139`) as
   operators against a reference definition.
7. `Gateways` with a cached read of the Gateway, as `Routes` has it for routes.
8. Proofs: which of the properties of `Migration` that are stated without lag
   survive one, and under which hypothesis about edits.
