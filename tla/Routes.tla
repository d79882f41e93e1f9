------------------------------- MODULE Routes -------------------------------
(***************************************************************************)
(* The conversion loop of Reconcile and the routes it keeps: which         *)
(* Ingresses a TransferGW selects, which of them are canaries to be folded *)
(* into their primary's route, which routes are created, overwritten and   *)
(* pruned, and which events make the loop run again.                       *)
(*                                                                         *)
(* One worker reconciles one TransferGW at a time.  Ingresses change,      *)
(* routes are deleted by hand, TransferGWs are deleted and API calls fail  *)
(* between any two API calls of the loop.  Every TransferGW here is in     *)
(* mode immediate, without hooks and not paused (module Migration has      *)
(* those).                                                                 *)
(*                                                                         *)
(* Routes are read from the manager's cache, which may trail what is       *)
(* stored: an update that rests on a stale copy is refused, a delete is    *)
(* not.                                                                    *)
(* Of Ingresses and TransferGWs, whose events queue the next pass, the     *)
(* cached copies are the only ones modelled.                               *)
(*                                                                         *)
(* Abstracted: the Ingress is known by what the loop tells apart, its      *)
(* route by its label, owner and weighted backends.                        *)
(***************************************************************************)
EXTENDS Naturals, FiniteSets, SequencesExt

CONSTANTS Migrations,    \* the TransferGWs
          Nobody,        \* no TransferGW
          Name,          \* metadata.name of each
          Home,          \* metadata.namespace of each
          NumIngresses,  \* Ingresses are numbered in the order they are sorted
          Site,          \* the namespace of each Ingress
          Shapes,        \* what an Ingress may look like
          MaxChanges,    \* bound on changes of Ingresses and routes by hand
          MaxFaults,     \* bound on failed calls
          MaxCrashes,    \* bound on crashes
          MaxLags,       \* bound on writes the cache learns of only later
          MaxTroubles    \* bound on the last three together

Ingresses == 1..NumIngresses

Kinds == {"HTTPRoute", "GRPCRoute"}

(* Where the worker stands: in the loop, at the routes of a kind it has    *)
(* listed, or at the status.                                               *)
Stages == {"idle", "convert", "report"} \union Kinds

NoWeight == 101  \* canary-weight is missing or not a number from 0 to 100

(* selectedBy: the TransferGWs whose selector matches it; converts: every  *)
(* path has a Service backend whose port is known; places: the hosts and   *)
(* paths it has rules for, all of one path type; service: the backend of   *)
(* all of them.                                                            *)
ShapeType ==
  [selectedBy : SUBSET Migrations, kind : Kinds, converts : BOOLEAN,
   canary : BOOLEAN, weight : 0..NoWeight, places : SUBSET Nat, service : STRING]

ASSUME RoutesAssumption ==
  /\ IsFiniteSet(Migrations) /\ Nobody \notin Migrations
  /\ Name \in [Migrations -> STRING] /\ \A m \in Migrations : Name[m] # ""
  /\ NumIngresses \in Nat
  /\ Home \in [Migrations -> STRING] /\ Site \in [Ingresses -> STRING]
  /\ Shapes \subseteq ShapeType
  /\ MaxChanges \in Nat /\ MaxFaults \in Nat /\ MaxCrashes \in Nat
  /\ MaxLags \in Nat /\ MaxTroubles \in Nat

Absent == [selectedBy |-> {}, kind |-> "HTTPRoute", converts |-> FALSE,
           canary |-> FALSE, weight |-> NoWeight, places |-> {}, service |-> ""]

Keys == Kinds \X Ingresses

Backend == [service : STRING, weight : 0..100]

(* label: the managed-by label, which holds only a name; owner: the        *)
(* controller reference; maker: who really wrote it (no field, but what    *)
(* the label stands for).                                                  *)
RouteType ==
  [label : {Name[m] : m \in Migrations} \union {""}, owner : Migrations \union {Nobody},
   maker : Migrations \union {Nobody}, backends : Seq(Backend)]

NoRoute == [label |-> "", owner |-> Nobody, maker |-> Nobody, backends |-> <<>>]

(* What is said of an Ingress: that another one claims its place, why it   *)
(* has no route, or what became of a paired canary.                        *)
IssueType == {"overlap", "unconvertible", "unapplied", "merged", "unmerged"} \X Ingresses

ReportType == [total : Nat, converted : Nat, issues : SUBSET IssueType]

NoReport == [total |-> 0, converted |-> 0, issues |-> {}]

VARIABLES
  live,       \* the TransferGWs that exist
  ingresses,  \* the Ingresses as they are
  routes,     \* the generated routes
  seen,       \* the generated routes as the cache has them
  news,       \* <<k, m>>: a change, under way to the cache, of route k of m
  report,     \* counts and issues in the status of each TransferGW
  fresh,      \* the status was written within the current second
  queue,      \* the work queue: first in, first out, nobody twice
  again,      \* the worker's TransferGW goes back to the queue afterwards
  worker,     \* the TransferGW being reconciled
  pc,         \* where the worker stands
  found,      \* the Ingresses it selected, as they were then
  todo,       \* those of them it has not come to yet
  desired,    \* the Ingresses that got their route
  orphans,    \* the listed routes it did not want and has not come to yet
  converted,  \* its count of converted Ingresses
  issues,     \* what it has to say of the selected Ingresses
  changes,    \* changes by others so far
  faults,     \* failed calls so far
  crashes,    \* crashes so far
  lags        \* writes so far that the cache learned of only later

routeVars   == <<routes, seen, news>>
clusterVars == <<live, ingresses, routeVars>>
statusVars  == <<report, fresh>>
queueVars   == <<queue, again>>
workVars    == <<worker, pc, found, todo, desired, orphans, converted, issues>>
boundVars   == <<changes, faults, crashes, lags>>

vars == <<clusterVars, statusVars, queueVars, workVars, boundVars>>

-----------------------------------------------------------------------------
(* Selecting and pairing.                                                  *)

(* The Ingresses m selects.                                                *)
Found(m) ==
  [i \in {j \in Ingresses : m \in ingresses[j].selectedBy} |-> ingresses[i]]

(* The selected Ingresses with the same namespace, host and single path.   *)
Group(f, i) ==
  {j \in DOMAIN f : f[j].places = f[i].places /\ Site[j] = Site[i]}

IsPair_AnyWeight(f, canary, primary) ==
  /\ Cardinality(f[canary].places) = 1
  /\ canary # primary /\ Group(f, canary) = {canary, primary}
  /\ f[canary].canary /\ ~f[primary].canary

IsPair(f, canary, primary) ==
  /\ Cardinality(f[canary].places) = 1
  /\ canary # primary /\ Group(f, canary) = {canary, primary}
  /\ f[canary].canary /\ ~f[primary].canary
  /\ f[canary].weight # NoWeight

PairedCanary_Never(f, i) == FALSE

(* Paired canaries get no route of their own.                              *)
PairedCanary(f, i) == \E p \in DOMAIN f : IsPair(f, i, p)

(* The canary folded into the route of i, if there is one.  A primary with *)
(* a gRPC backend is done before the loop looks for its canary.            *)
Canaries(f, i) == {c \in DOMAIN f : f[i].kind = "HTTPRoute" /\ IsPair(f, c, i)}

Merged(f, i) == {c \in Canaries(f, i) : f[c].converts /\ f[c].kind = "HTTPRoute"}

PairingIssues_MergedOnly(f, i) == {"merged"} \X Merged(f, i)

PairingIssues(f, i) ==
  ({"merged"} \X Merged(f, i)) \union ({"unmerged"} \X (Canaries(f, i) \ Merged(f, i)))

Backends(f, i) ==
  IF Merged(f, i) = {} THEN <<[service |-> f[i].service, weight |-> 1]>>
  ELSE LET c == CHOOSE c \in Merged(f, i) : TRUE
       IN <<[service |-> f[i].service, weight |-> 100 - f[c].weight],
            [service |-> f[c].service, weight |-> f[c].weight]>>

(* The Ingresses with a rule for place p, of all namespaces.               *)
Claimants_NoCanaries(f, p) == {i \in DOMAIN f : p \in f[i].places /\ ~f[i].canary}

Claimants(f, p) == {i \in DOMAIN f : p \in f[i].places /\ ~PairedCanary(f, i)}

(* A place with two backends is reported with everyone who claims it; a    *)
(* backend is known by the name of its Service.                            *)
Overlaps(f) ==
  {"overlap"} \X
    UNION {S \in {Claimants(f, p) : p \in UNION {f[i].places : i \in DOMAIN f}} :
             \E i, j \in S : f[i].service # f[j].service}

RoutedAlone(f, i) == ~PairedCanary(f, i) /\ f[i].converts

-----------------------------------------------------------------------------
(* An event adds the TransferGWs S, in some order.  One that is being      *)
(* reconciled, or whose reconcile asks for another, waits until it is done.*)
Enqueue(S) ==
  /\ \E new \in SetToSeqs((S \ ToSet(queue)) \ {worker}) : queue' = queue \o new
  /\ again' = (again \/ worker \in S)

Done(more) ==
  /\ queue' = IF again \/ more THEN Append(queue, worker) ELSE queue
  /\ again' = FALSE

Rest ==
  /\ worker' = Nobody /\ pc' = "idle" /\ found' = <<>> /\ todo' = {}
  /\ desired' = {} /\ orphans' = {} /\ converted' = 0 /\ issues' = {}

Init ==
  /\ live = Migrations
  /\ ingresses \in [Ingresses -> Shapes \union {Absent}]
  /\ routes = [k \in Keys |-> NoRoute] /\ seen = routes /\ news = {}
  /\ report = [m \in Migrations |-> NoReport] /\ fresh = [m \in Migrations |-> FALSE]
  /\ queue \in SetToSeqs(Migrations) /\ again = FALSE
  /\ worker = Nobody /\ pc = "idle" /\ found = <<>> /\ todo = {}
  /\ desired = {} /\ orphans = {} /\ converted = 0 /\ issues = {}
  /\ changes = 0 /\ faults = 0 /\ crashes = 0 /\ lags = 0

(* A TransferGW that is gone is forgotten.                                 *)
Begin ==
  /\ pc = "idle" /\ queue # <<>>
  /\ queue' = Tail(queue) /\ UNCHANGED again
  /\ LET m == Head(queue)
     IN IF m \in live
        THEN /\ worker' = m /\ pc' = "convert"
             /\ found' = Found(m) /\ todo' = DOMAIN Found(m)
             /\ issues' = Overlaps(Found(m))
             /\ UNCHANGED <<desired, orphans, converted>>
        ELSE UNCHANGED workVars
  /\ UNCHANGED <<clusterVars, statusVars, boundVars>>

MoreTrouble == faults + crashes + lags < MaxTroubles

Fault ==
  /\ faults < MaxFaults /\ MoreTrouble
  /\ faults' = faults + 1 /\ UNCHANGED <<changes, crashes, lags>>

(* The Ingress the loop has come to: it takes them as they are sorted.     *)
Current == Min(todo)

Advance ==
  /\ pc = "convert" /\ todo # {} /\ todo' = todo \ {Current}
  /\ UNCHANGED <<worker, pc, found, orphans>>

SkipCanary ==
  /\ Advance /\ PairedCanary(found, Current)
  /\ UNCHANGED <<clusterVars, statusVars, queueVars, desired, converted, issues, boundVars>>

ConversionFails ==
  /\ Advance /\ ~PairedCanary(found, Current) /\ ~found[Current].converts
  /\ issues' = issues \union {<<"unconvertible", Current>>}
  /\ UNCHANGED <<clusterVars, statusVars, queueVars, desired, converted, boundVars>>

(* SetControllerReference refuses a route another TransferGW controls.     *)
Local == Home[worker] = Site[Current]

Refused(key) == Local /\ seen[key].owner \notin {Nobody, worker}

Watchers_None(key, owner) == {}

(* Only HTTPRoutes are watched, on behalf of their controller.             *)
Watchers(key, owner) == IF key[1] = "HTTPRoute" THEN {owner} \ {Nobody} ELSE {}

(* The cache has not been told of all changes of the route.                *)
Trails(key) == \E n \in news : n[1] = key

(* What is stored for key becomes route.  The cache is told at once or     *)
(* later, and of no change before the one that came first.                 *)
Store(key, route) ==
  /\ routes' = [routes EXCEPT ![key] = route]
  /\ \/ /\ ~Trails(key)
        /\ seen' = [seen EXCEPT ![key] = route]
        /\ Enqueue(Watchers(key, routes[key].owner) \union Watchers(key, route.owner))
        /\ UNCHANGED <<news, lags>>
     \/ /\ \/ Trails(key) /\ UNCHANGED lags
           \/ ~Trails(key) /\ lags < MaxLags /\ MoreTrouble /\ lags' = lags + 1
        /\ news' = news \union {<<key, routes[key].owner>>, <<key, route.owner>>}
        /\ UNCHANGED <<seen, queueVars>>

(* The route the loop asks for, on top of what the cache has.              *)
Wanted(key) ==
  [label |-> Name[worker], maker |-> worker,
   owner |-> IF Local THEN worker ELSE seen[key].owner,
   backends |-> Backends(found, Current)]

(* Nothing is sent when the cached route is the one asked for.             *)
Unchanged(key) == [Wanted(key) EXCEPT !.maker = seen[key].maker] = seen[key]

ApplyRoute ==
  /\ Advance /\ RoutedAlone(found, Current)
  /\ LET key == <<found[Current].kind, Current>>
     IN /\ ~Refused(key)
        /\ \/ Unchanged(key) /\ UNCHANGED <<routeVars, queueVars, lags>>
           \/ ~Unchanged(key) /\ ~Trails(key) /\ Store(key, Wanted(key))
  /\ desired' = desired \union {Current}
  /\ converted' = converted + 1 + Cardinality(Merged(found, Current))
  /\ issues' = issues \union PairingIssues(found, Current)
  /\ UNCHANGED <<live, ingresses, statusVars, changes, faults, crashes>>

(* The canary was counted before its primary's route could not be applied. *)
ApplyFails ==
  /\ Advance /\ RoutedAlone(found, Current)
  /\ LET key == <<found[Current].kind, Current>>
     IN \/ Refused(key) /\ UNCHANGED boundVars
        \/ Trails(key) /\ ~Unchanged(key) /\ UNCHANGED boundVars
        \/ Fault
  /\ issues' = issues \union PairingIssues(found, Current) \union {<<"unapplied", Current>>}
  /\ converted' = converted + Cardinality(Merged(found, Current))
  /\ UNCHANGED <<clusterVars, statusVars, queueVars, desired>>

Listed(kind) == {k \in Keys : k[1] = kind /\ seen[k].label = Name[worker]}

Orphans_SkipMerged(kind) ==
  {k \in Listed(kind) : k[2] \notin {i \in desired : Merged(found, i) = {}}}

(* The cached routes with the worker's label it did not want, by namespace *)
(* and name only.                                                          *)
Orphans(kind) == {k \in Listed(kind) : k[2] \notin desired}

(* HTTPRoutes are listed and deleted first, then GRPCRoutes.               *)
ListRoutes ==
  /\ \/ pc = "convert" /\ todo = {} /\ pc' = "HTTPRoute"
     \/ pc = "HTTPRoute" /\ orphans = {} /\ pc' = "GRPCRoute"
  /\ orphans' = Orphans(pc')
  /\ UNCHANGED <<clusterVars, statusVars, queueVars, worker, found, todo, desired,
                 converted, issues, boundVars>>

(* The delete goes by namespace and name, whatever is stored there now; it *)
(* does not matter when nothing is.                                        *)
PruneRoute ==
  /\ pc \in Kinds
  /\ \E k \in orphans :
       /\ orphans' = orphans \ {k}
       /\ \/ routes[k] = NoRoute /\ UNCHANGED <<routeVars, queueVars, lags>>
          \/ routes[k] # NoRoute /\ Store(k, NoRoute)
  /\ UNCHANGED <<live, ingresses, statusVars, worker, pc, found, todo, desired, converted,
                 issues, changes, faults, crashes>>

(* An error while pruning is logged; what is left is left.                 *)
PruneFails ==
  /\ pc \in Kinds /\ orphans # {} /\ Fault
  /\ pc' = "report" /\ orphans' = {}
  /\ UNCHANGED <<clusterVars, statusVars, queueVars, worker, found, todo, desired,
                 converted, issues>>

Total == Cardinality(DOMAIN found)

Failed(list) == {i \in Ingresses : <<"unconvertible", i>> \in list \/ <<"unapplied", i>> \in list}

Completes == converted # 0 /\ Failed(issues) = {}

(* Complete and Failed wait for an event.                                  *)
Requeues == ~Completes /\ ~(Failed(issues) # {} /\ converted = 0)

(* The status is patched.  It always carries the time, to the second: a    *)
(* patch that changes nothing else is an event too unless the last one was *)
(* within this second.                                                     *)
Report ==
  /\ \/ pc = "GRPCRoute" /\ orphans = {}
     \/ pc = "report"
  /\ LET result == [total |-> Total, converted |-> converted, issues |-> issues]
     IN IF worker \in live
        THEN /\ report' = [report EXCEPT ![worker] = result]
             /\ fresh' = [fresh EXCEPT ![worker] = TRUE]
             /\ Done(Requeues \/ result # report[worker] \/ ~fresh[worker])
        ELSE Done(TRUE) /\ UNCHANGED statusVars
  /\ Rest
  /\ UNCHANGED <<clusterVars, boundVars>>

-----------------------------------------------------------------------------
(* Everybody else.                                                         *)

Change == changes < MaxChanges /\ changes' = changes + 1 /\ UNCHANGED <<faults, crashes>>

(* An Ingress is created, edited or deleted: every TransferGW is queued.   *)
ChangeIngress ==
  /\ Change
  /\ \E i \in Ingresses : \E shape \in (Shapes \union {Absent}) \ {ingresses[i]} :
       ingresses' = [ingresses EXCEPT ![i] = shape]
  /\ Enqueue(live)
  /\ UNCHANGED <<live, routeVars, statusVars, workVars, lags>>

(* Somebody deletes a route.                                               *)
DeleteRoute ==
  /\ Change
  /\ \E k \in Keys :
       routes[k] # NoRoute /\ Store(k, NoRoute)
  /\ UNCHANGED <<live, ingresses, statusVars, workVars>>

DeleteMigration ==
  /\ Change
  /\ \E m \in live : live' = live \ {m} /\ Enqueue({m})
  /\ UNCHANGED <<ingresses, routeVars, statusVars, workVars, lags>>

(* The garbage collector removes what a deleted TransferGW controls.       *)
Collect ==
  /\ \E k \in Keys :
       routes[k].owner \in Migrations \ live /\ Store(k, NoRoute)
  /\ UNCHANGED <<live, ingresses, statusVars, workVars, changes, faults, crashes>>

(* The watches bring the cache what is stored for a route, and queue those *)
(* on whose behalf it is watched.                                          *)
Sync ==
  /\ \E k \in {n[1] : n \in news} :
       /\ seen' = [seen EXCEPT ![k] = routes[k]]
       /\ news' = {n \in news : n[1] # k}
       /\ Enqueue(UNION {Watchers(k, n[2]) : n \in {n \in news : n[1] = k}})
  /\ UNCHANGED <<live, ingresses, routes, statusVars, workVars, boundVars>>

(* The process stops; a new one fills its cache and starts with everything *)
(* on its queue.                                                           *)
Crash ==
  /\ pc # "idle"
  /\ crashes < MaxCrashes /\ MoreTrouble /\ crashes' = crashes + 1
  /\ Rest /\ queue' \in SetToSeqs(live) /\ again' = FALSE
  /\ seen' = routes /\ news' = {}
  /\ UNCHANGED <<live, ingresses, routes, statusVars, changes, faults, lags>>

NewSecond ==
  /\ \E m \in Migrations : fresh[m]
  /\ fresh' = [m \in Migrations |-> FALSE]
  /\ UNCHANGED <<clusterVars, report, queueVars, workVars, boundVars>>

Reconcile ==
  \/ Begin
  \/ SkipCanary \/ ConversionFails \/ ApplyRoute \/ ApplyFails
  \/ ListRoutes \/ PruneRoute \/ PruneFails \/ Report

Environment ==
  ChangeIngress \/ DeleteRoute \/ DeleteMigration \/ Collect \/ Sync \/ Crash \/ NewSecond

Next == Reconcile \/ Environment

Spec == Init /\ [][Next]_vars

(* The worker goes on, the garbage collector works and the watches         *)
(* deliver; nothing else has to happen.                                    *)
FairSpec == Spec /\ WF_vars(Reconcile) /\ WF_vars(Collect) /\ WF_vars(Sync)

-----------------------------------------------------------------------------
(* Properties.                                                             *)

TypeOK ==
  /\ live \subseteq Migrations
  /\ ingresses \in [Ingresses -> Shapes \union {Absent}]
  /\ DOMAIN routes = Keys /\ \A k \in Keys : routes[k] \in RouteType
  /\ DOMAIN seen = Keys /\ \A k \in Keys : seen[k] \in RouteType
  /\ news \subseteq Keys \X (Migrations \union {Nobody}) /\ orphans \subseteq Keys
  /\ report \in [Migrations -> ReportType] /\ fresh \in [Migrations -> BOOLEAN]
  /\ queue \in Seq(Migrations) /\ again \in BOOLEAN
  /\ worker \in Migrations \union {Nobody} /\ pc \in Stages
  /\ DOMAIN found \subseteq Ingresses /\ \A i \in DOMAIN found : found[i] \in Shapes
  /\ todo \subseteq Ingresses
  /\ desired \subseteq Ingresses /\ issues \subseteq IssueType /\ converted \in Nat
  /\ changes \in Nat /\ faults \in Nat /\ crashes \in Nat /\ lags \in Nat

(* The counts of a finished loop add up: no Ingress is counted twice,      *)
(* although a canary is counted with its primary, so that pending, the     *)
(* rest of the total, is not negative.                                     *)
CountsAddUp == todo = {} => converted + Cardinality(Failed(issues)) <= Total

(* When all traffic moves, every selected Ingress got a route or was       *)
(* reported: "anything that can't be translated is reported as a status    *)
(* condition instead of being silently dropped" (README.md:12-14).         *)
NothingDropped ==
  [][Report /\ Completes
       => \A i \in DOMAIN found \ desired :
            \E issue \in issues : issue[1] # "overlap" /\ issue[2] = i]_vars

(* Two routes for one place with different backends are a "silent routing  *)
(* change after cutover" (overlap.go:40-41) unless they are reported: when *)
(* a loop ends, the status names both as overlapping.  The check compares  *)
(* Ingresses, so that two of one Service of which one got a canary escape  *)
(* it: of these the status has at least that the canary was merged.        *)
ClashesReported ==
  [][Report =>
       \A i, j \in desired :
         /\ found[i].places \intersect found[j].places # {}
         /\ Backends(found, i) # Backends(found, j)
         => \/ {<<"overlap", i>>, <<"overlap", j>>} \subseteq issues
            \/ /\ found[i].service = found[j].service
               /\ \E c \in Merged(found, i) \union Merged(found, j) : <<"merged", c>> \in issues]_vars

Pruned(k) == PruneRoute /\ routes[k] # NoRoute /\ routes'[k] = NoRoute

(* The route k is what an Ingress in f asks for.                           *)
Deserved(f, k) ==
  k[2] \in DOMAIN f /\ k[1] = f[k[2]].kind /\ RoutedAlone(f, k[2])

(* Pruning takes routes "whose source Ingress no longer matches the        *)
(* selector" (transfergw_controller.go:602), never one whose Ingress the   *)
(* TransferGW it is labelled for selects at that moment.                   *)
PrunesUnmatched ==
  [][\A k \in Keys :
       Pruned(k) => ~\E m \in live : routes[k].label = Name[m] /\ Deserved(Found(m), k)]_vars

(* Pruning takes routes "whose source Ingress no longer matches the        *)
(* selector" (transfergw_controller.go:602), never the route of an Ingress *)
(* the reconcile selected and could convert.                               *)
KeepsServed ==
  [][\A k \in Keys : Pruned(k) => ~Deserved(found, k)]_vars

(* The routes with the label of m are the ones its Ingresses ask for.      *)
InSync(m) ==
  \A k \in Keys :
    LET f == Found(m)
    IN IF Deserved(f, k)
       THEN routes[k].label = Name[m] /\ routes[k].backends = Backends(f, k[2])
       ELSE routes[k].label # Name[m]

(* The generated routes are kept in sync with the selected Ingresses       *)
(* (transfergw_types.go:408-410), after the last change and for ever; a    *)
(* deleted TransferGW leaves none.                                         *)
RoutesFollow ==
  \A m \in Migrations :
    <>[](IF m \in live THEN InSync(m) ELSE \A k \in Keys : routes[k].maker # m)
=============================================================================
