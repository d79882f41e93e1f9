---------------------------- MODULE RoutesProofs ----------------------------
(* Theorems about the routes TransferGWs make and prune, and about what    *)
(* the loop over the selected Ingresses counts and reports.                *)
EXTENDS Routes, FiniteSetTheorems, WellFoundedInduction, TLAPS

(* The loop.                                                               *)

LEMMA LeastExists ==
  ASSUME NEW S \in SUBSET Nat, S # {}
  PROVE  Min(S) \in S /\ \A n \in S : Min(S) <= n
<1>1. PICK x \in S : \A y \in S : ~(<<y, x>> \in OpToRel(<, Nat))
  BY NatLessThanWellFounded, WFMin
<1>2. \A y \in S : ~(y < x)
  BY <1>1 DEF OpToRel
<1>3. \A y \in S : x <= y
  BY <1>2
<1> QED
  BY <1>3 DEF Min

(* The Ingresses the loop has dealt with.                                  *)
Read == DOMAIN found \ todo

(* Those behind the count: the routes, and the canaries met with their     *)
(* primaries.                                                              *)
Counted ==
  desired \union UNION {Merged(found, i) : i \in {j \in Read : RoutedAlone(found, j)}}

(* What is known of an Ingress the loop has dealt with.                    *)
Handled(i) ==
  /\ ~PairedCanary(found, i) /\ ~found[i].converts => <<"unconvertible", i>> \in issues
  /\ RoutedAlone(found, i) =>
       /\ PairingIssues(found, i) \subseteq issues
       /\ i \in desired \/ <<"unapplied", i>> \in issues

LoopInv ==
  /\ todo \subseteq DOMAIN found
  /\ pc = "idle" => desired = {} /\ converted = 0 /\ todo = {}
  /\ pc \notin {"idle", "convert"} => todo = {}
  /\ pc # "idle" => Overlaps(found) \subseteq issues
  /\ pc \in {"idle", "convert"} => orphans = {}
  /\ \A k \in orphans : k[2] \notin desired
  /\ desired \subseteq {i \in Read : RoutedAlone(found, i)}
  /\ Failed(issues) \subseteq {i \in Read : ~PairedCanary(found, i)} \ desired
  /\ converted = Cardinality(Counted)
  /\ \A i \in Read : Handled(i)

LEMMA IngressesFinite == Ingresses \subseteq Nat /\ IsFiniteSet(Ingresses)
<1>1. NumIngresses \in Nat
  BY RoutesAssumption, Zenon
<1>2. IsFiniteSet(1..NumIngresses)
  BY <1>1, FS_Interval
<1> QED
  BY <1>1, <1>2 DEF Ingresses

(* The Ingress at hand is one of those left to do.                         *)
LEMMA CurrentInTodo ==
  ASSUME todo \subseteq DOMAIN found, DOMAIN found \subseteq Ingresses, Advance
  PROVE  /\ Current \in todo /\ Current \in DOMAIN found /\ Current \notin Read
         /\ Read' = Read \union {Current}
         /\ todo' \subseteq DOMAIN found'
<1>1. todo \in SUBSET Nat /\ todo # {}
  BY IngressesFinite DEF Advance
<1>2. Current \in todo
  BY <1>1, LeastExists DEF Current
<1> QED
  BY <1>2 DEF Advance, Read

-----------------------------------------------------------------------------
(* Types.                                                                  *)

(* The backends of a route, weighted between a primary and its canary.     *)
LEMMA BackendsType ==
  ASSUME NEW f, NEW i \in DOMAIN f, \A j \in DOMAIN f : f[j] \in Shapes
  PROVE  Backends(f, i) \in Seq(Backend)
<1>1. \A j \in DOMAIN f : f[j].service \in STRING /\ f[j].weight \in 0..NoWeight
  BY RoutesAssumption DEF ShapeType
<1>2. CASE Merged(f, i) = {}
  <2>1. [service |-> f[i].service, weight |-> 1] \in Backend
    BY <1>1 DEF Backend
  <2> QED
    BY <1>2, <2>1 DEF Backends
<1>3. CASE Merged(f, i) # {}
  <2> DEFINE c == CHOOSE c \in Merged(f, i) : TRUE
  <2>1. c \in Merged(f, i)
    BY <1>3
  <2>2. c \in DOMAIN f /\ f[c].weight # NoWeight
    BY <2>1 DEF Merged, Canaries, IsPair
  <2>3. f[c].weight \in 0..100 /\ 100 - f[c].weight \in 0..100
    BY <1>1, <2>2 DEF NoWeight
  <2>4. /\ [service |-> f[i].service, weight |-> 100 - f[c].weight] \in Backend
        /\ [service |-> f[c].service, weight |-> f[c].weight] \in Backend
    BY <1>1, <2>2, <2>3 DEF Backend
  <2>5. Backends(f, i) = <<[service |-> f[i].service, weight |-> 100 - f[c].weight],
                           [service |-> f[c].service, weight |-> f[c].weight]>>
    BY <1>3 DEF Backends
  <2> HIDE DEF c
  <2> QED
    BY <2>4, <2>5
<1> QED
  BY <1>2, <1>3

LEMMA SeqsType ==
  ASSUME NEW S \in SUBSET Migrations, NEW s \in SetToSeqs(S)
  PROVE  s \in Seq(Migrations)
<1>1. Cardinality(S) \in Nat
  BY RoutesAssumption, FS_Subset, FS_CardinalityType
<1>2. s \in [1..Cardinality(S) -> Migrations]
  BY DEF SetToSeqs
<1> QED
  BY <1>1, <1>2

LEMMA EnqueueType ==
  ASSUME queue \in Seq(Migrations), again \in BOOLEAN, NEW S \in SUBSET Migrations, Enqueue(S)
  PROVE  queue' \in Seq(Migrations) /\ again' \in BOOLEAN
<1> DEFINE others == (S \ ToSet(queue)) \ {worker}
<1>1. PICK new \in SetToSeqs(others) : queue' = queue \o new
  BY DEF Enqueue
<1>2. others \in SUBSET Migrations
  OBVIOUS
<1> HIDE DEF others
<1>3. new \in Seq(Migrations)
  BY <1>2, SeqsType
<1> QED
  BY <1>1, <1>3 DEF Enqueue

LEMMA SelectedType ==
  ASSUME TypeOK, NEW m \in Migrations
  PROVE  DOMAIN Found(m) \subseteq Ingresses /\ \A i \in DOMAIN Found(m) : Found(m)[i] \in Shapes
<1>1. m \notin Absent.selectedBy
  BY DEF Absent
<1> QED
  BY <1>1 DEF TypeOK, Found

(* What the loop says of Ingresses.                                        *)
LEMMA IssuesType ==
  ASSUME NEW f, DOMAIN f \subseteq Ingresses, NEW i \in DOMAIN f
  PROVE  /\ PairingIssues(f, i) \subseteq IssueType
         /\ <<"unconvertible", i>> \in IssueType /\ <<"unapplied", i>> \in IssueType
BY DEF PairingIssues, Canaries, Merged, IssueType

LEMMA OverlapsType ==
  ASSUME NEW f, DOMAIN f \subseteq Ingresses
  PROVE  Overlaps(f) \subseteq IssueType
BY DEF Overlaps, Claimants, IssueType

(* One canary at most is folded into a route.                              *)
LEMMA OneMerged ==
  ASSUME NEW f, NEW i \in DOMAIN f, DOMAIN f \subseteq Ingresses
  PROVE  /\ IsFiniteSet(Merged(f, i)) /\ Cardinality(Merged(f, i)) \in Nat
         /\ \A c, d \in Merged(f, i) : c = d
<1>1. ASSUME NEW c \in Merged(f, i), NEW d \in Merged(f, i)
      PROVE  c = d
  <2>1. IsPair(f, c, i) /\ IsPair(f, d, i) /\ c \in DOMAIN f /\ d \in DOMAIN f
    BY <1>1 DEF Merged, Canaries
  <2>2. Group(f, c) = {c, i} /\ Group(f, d) = {d, i} /\ d # i
    BY <2>1 DEF IsPair
  <2>3. f[i].places = f[c].places /\ Site[i] = Site[c] /\ f[i].places = f[d].places /\ Site[i] = Site[d]
    BY <2>2 DEF Group
  <2>4. d \in Group(f, c)
    BY <2>1, <2>3 DEF Group
  <2> QED
    BY <2>2, <2>4
<1>2. Merged(f, i) \in SUBSET Ingresses
  BY DEF Merged, Canaries
<1> QED
  BY <1>1, <1>2, IngressesFinite, FS_Subset, FS_CardinalityType

LEMMA NoRouteType == NoRoute \in RouteType
<1>1. <<>> \in Seq(Backend)
  OBVIOUS
<1>2. "" \in {Name[m] : m \in Migrations} \union {""}
  OBVIOUS
<1>3. Nobody \in Migrations \union {Nobody}
  OBVIOUS
<1> QED
  BY <1>1, <1>2, <1>3 DEF NoRoute, RouteType

RoutesOK ==
  /\ DOMAIN routes = Keys /\ \A k \in Keys : routes[k] \in RouteType
  /\ DOMAIN seen = Keys /\ \A k \in Keys : seen[k] \in RouteType
  /\ news \subseteq Keys \X (Migrations \union {Nobody})
  /\ queue \in Seq(Migrations) /\ again \in BOOLEAN

LEMMA WatchersType ==
  ASSUME NEW k, NEW m \in Migrations \union {Nobody}
  PROVE  Watchers(k, m) \in SUBSET Migrations
BY DEF Watchers

(* A route is written or deleted, by whomever.                             *)
LEMMA StoreType ==
  ASSUME TypeOK, NEW k \in Keys, NEW route \in RouteType, Store(k, route)
  PROVE  RoutesOK' /\ lags' \in Nat
<1> DEFINE told == Watchers(k, routes[k].owner) \union Watchers(k, route.owner)
<1>1. routes[k].owner \in Migrations \union {Nobody} /\ route.owner \in Migrations \union {Nobody}
  BY DEF TypeOK, RouteType
<1>2. told \in SUBSET Migrations
  BY <1>1, WatchersType
<1>3. DOMAIN routes' = Keys /\ \A o \in Keys : routes'[o] \in RouteType
  BY DEF Store, TypeOK
<1> HIDE DEF told
<1>4. CASE seen' = [seen EXCEPT ![k] = route] /\ Enqueue(told) /\ UNCHANGED <<news, lags>>
  <2>1. queue' \in Seq(Migrations) /\ again' \in BOOLEAN
    BY <1>2, <1>4, EnqueueType DEF TypeOK
  <2> QED
    BY <1>3, <1>4, <2>1 DEF TypeOK, RoutesOK
<1>5. CASE /\ lags' = lags \/ lags' = lags + 1
           /\ news' = news \union {<<k, routes[k].owner>>, <<k, route.owner>>}
           /\ UNCHANGED <<seen, queueVars>>
  BY <1>1, <1>3, <1>5 DEF TypeOK, RoutesOK, queueVars
<1> QED
  BY <1>4, <1>5 DEF Store, told

(* A route applied by the loop.                                            *)
LEMMA RouteWritten ==
  ASSUME TypeOK, ApplyRoute, worker \in Migrations, Current \in DOMAIN found
  PROVE  RoutesOK' /\ lags' \in Nat /\ converted' \in Nat
<1> DEFINE key == <<found[Current].kind, Current>>
<1>1. Current \in Ingresses /\ found[Current].kind \in Kinds
  BY RoutesAssumption DEF TypeOK, ShapeType
<1>2. key \in Keys
  BY <1>1 DEF Keys
<1>3. seen[key].owner \in Migrations \union {Nobody}
  BY <1>2 DEF TypeOK, RouteType
<1>4. Backends(found, Current) \in Seq(Backend)
  BY BackendsType DEF TypeOK
<1>5. Wanted(key) \in RouteType
  BY <1>3, <1>4 DEF RouteType, Wanted
<1>6. UNCHANGED <<routeVars, queueVars, lags>> \/ Store(key, Wanted(key))
  BY DEF ApplyRoute
<1> HIDE DEF key
<1>7. RoutesOK' /\ lags' \in Nat
  <2>1. CASE UNCHANGED <<routeVars, queueVars, lags>>
    BY <2>1 DEF TypeOK, RoutesOK, routeVars, queueVars
  <2> QED
    BY <1>2, <1>5, <1>6, <2>1, StoreType
<1>8. converted' \in Nat
  <2>1. Cardinality(Merged(found, Current)) \in Nat
    BY OneMerged DEF TypeOK
  <2>2. converted \in Nat
    BY DEF TypeOK
  <2>3. converted' = converted + 1 + Cardinality(Merged(found, Current))
    BY DEF ApplyRoute
  <2> QED
    BY <2>1, <2>2, <2>3
<1> QED
  BY <1>7, <1>8

AtWork == pc # "idle" => worker \in Migrations

LEMMA InitTypes == Init => TypeOK /\ AtWork /\ LoopInv
<1> SUFFICES ASSUME Init
             PROVE  TypeOK /\ AtWork /\ LoopInv
  OBVIOUS
<1>1. queue \in Seq(Migrations)
  BY SeqsType DEF Init
<1>2. \A k \in Keys : routes[k] \in RouteType
  BY NoRouteType DEF Init
<1>3. NoReport \in ReportType
  BY DEF NoReport, ReportType
<1>4. DOMAIN found = {}
  BY DEF Init
<1>5. TypeOK
  BY <1>1, <1>2, <1>3, <1>4 DEF Init, TypeOK, Stages
<1>6. Read = {} /\ Counted = {}
  BY <1>4 DEF Read, Counted, Init
<1>7. Failed({}) = {}
  BY DEF Failed
<1> QED
  BY <1>4, <1>5, <1>6, <1>7, FS_EmptySet DEF Init, AtWork, LoopInv

(* The worker has nothing in its hands.                                    *)
LEMMA RestInv ==
  ASSUME TypeOK, Rest
  PROVE  /\ AtWork' /\ LoopInv'
         /\ worker' \in Migrations \union {Nobody} /\ pc' \in Stages
         /\ DOMAIN found' = {} /\ todo' \subseteq Ingresses
         /\ desired' \subseteq Ingresses /\ orphans' \subseteq Keys
         /\ issues' \subseteq IssueType /\ converted' \in Nat
<1>1. DOMAIN found' = {}
  BY DEF Rest
<1>2. Read' = {} /\ Counted' = {}
  BY <1>1 DEF Read, Counted, Rest
<1>3. Failed({}) = {}
  BY DEF Failed
<1> QED
  BY <1>1, <1>2, <1>3, FS_EmptySet DEF Rest, AtWork, LoopInv, Stages

LEMMA NextTypes ==
  ASSUME TypeOK, AtWork, LoopInv, [Next]_vars
  PROVE  TypeOK' /\ AtWork'
<1> USE DEF clusterVars, statusVars, queueVars, workVars, boundVars, routeVars
<1>1. CASE Begin
  <2> DEFINE m == Head(queue)
  <2>1. m \in Migrations /\ queue' \in Seq(Migrations)
    BY <1>1 DEF Begin, TypeOK
  <2>2. CASE m \in live
    <3>1. DOMAIN Found(m) \subseteq Ingresses /\ \A i \in DOMAIN Found(m) : Found(m)[i] \in Shapes
      BY <2>1, SelectedType
    <3>2. Overlaps(Found(m)) \subseteq IssueType
      BY <3>1, OverlapsType
    <3> HIDE DEF m
    <3>3. /\ found' = Found(m) /\ todo' = DOMAIN Found(m) /\ issues' = Overlaps(Found(m))
          /\ worker' = m /\ pc' = "convert" /\ UNCHANGED <<desired, orphans, converted>>
      BY <1>1, <2>2 DEF Begin, m
    <3> QED
      BY <1>1, <2>1, <3>1, <3>2, <3>3 DEF Begin, TypeOK, AtWork, Stages
  <2>3. CASE m \notin live
    BY <1>1, <2>1, <2>3 DEF Begin, TypeOK, AtWork
  <2> QED
    BY <2>2, <2>3
<1>2. ASSUME Advance
      PROVE  /\ Current \in DOMAIN found /\ Current \in Ingresses /\ worker \in Migrations
             /\ todo' \subseteq Ingresses
             /\ UNCHANGED <<worker, pc, found, orphans>>
             /\ DOMAIN found \subseteq Ingresses
             /\ PairingIssues(found, Current) \subseteq IssueType
             /\ <<"unconvertible", Current>> \in IssueType
             /\ <<"unapplied", Current>> \in IssueType
  <2>1. Current \in DOMAIN found /\ Current \in Ingresses
    BY <1>2, CurrentInTodo DEF TypeOK, LoopInv
  <2> QED
    BY <1>2, <2>1, IssuesType DEF TypeOK, LoopInv, AtWork, Advance
<1>3. CASE SkipCanary
  BY <1>2, <1>3 DEF SkipCanary, TypeOK, AtWork
<1>4. CASE ConversionFails
  BY <1>2, <1>4 DEF ConversionFails, TypeOK, AtWork
<1>5. CASE ApplyRoute
  <2>1. Advance /\ UNCHANGED <<live, ingresses, report, fresh, changes, faults, crashes>>
        /\ desired' = desired \union {Current}
        /\ issues' = issues \union PairingIssues(found, Current)
    BY <1>5 DEF ApplyRoute
  <2> QED
    BY <1>2, <1>5, <2>1, RouteWritten DEF TypeOK, AtWork, RoutesOK
<1>6. CASE ApplyFails
  <2>1. /\ Advance /\ UNCHANGED <<live, ingresses, routes, seen, news, report, fresh, queue, again, desired>>
        /\ issues' = issues \union PairingIssues(found, Current) \union {<<"unapplied", Current>>}
        /\ converted' = converted + Cardinality(Merged(found, Current))
        /\ UNCHANGED <<changes, faults, crashes, lags>> \/ Fault
    BY <1>6 DEF ApplyFails
  <2>2. changes' \in Nat /\ faults' \in Nat /\ crashes' \in Nat /\ lags' \in Nat
    BY <2>1 DEF Fault, TypeOK
  <2>3. Cardinality(Merged(found, Current)) \in Nat /\ converted \in Nat
    BY <1>2, <2>1, OneMerged DEF TypeOK
  <2>4. converted' \in Nat
    BY <2>1, <2>3
  <2> QED
    BY <1>2, <2>1, <2>2, <2>4 DEF TypeOK, AtWork
<1>7. CASE PruneRoute
  <2>1. PICK k \in orphans :
          /\ orphans' = orphans \ {k}
          /\ UNCHANGED <<routeVars, queueVars, lags>> \/ Store(k, NoRoute)
    BY <1>7 DEF PruneRoute
  <2>2. k \in Keys /\ orphans' \subseteq Keys
    BY <2>1 DEF TypeOK
  <2>3. RoutesOK' /\ lags' \in Nat
    <3>1. CASE UNCHANGED <<routeVars, queueVars, lags>>
      BY <3>1 DEF TypeOK, RoutesOK
    <3> QED
      BY <2>1, <2>2, <3>1, NoRouteType, StoreType
  <2> QED
    BY <1>7, <2>2, <2>3 DEF PruneRoute, TypeOK, AtWork, RoutesOK
<1>8. CASE PruneFails \/ ListRoutes
  <2>1. Orphans(pc') \subseteq Keys
    BY DEF Orphans, Listed
  <2>2. pc' \in Stages /\ orphans' \subseteq Keys /\ pc # "idle"
    BY <1>8, <2>1 DEF PruneFails, ListRoutes, Stages, Kinds
  <2>3. faults' \in Nat /\ UNCHANGED <<changes, crashes, lags>>
    BY <1>8 DEF PruneFails, ListRoutes, Fault, TypeOK
  <2> QED
    BY <1>8, <2>2, <2>3 DEF PruneFails, ListRoutes, TypeOK, AtWork
<1>9. CASE Report
  <2>1. worker \in Migrations /\ DOMAIN found \subseteq Ingresses
    BY <1>9 DEF Report, AtWork, TypeOK
  <2>2. Total \in Nat
    BY <2>1, IngressesFinite, FS_Subset, FS_CardinalityType DEF Total
  <2>3. [total |-> Total, converted |-> converted, issues |-> issues] \in ReportType
    BY <2>2 DEF TypeOK, ReportType
  <2>4. report' \in [Migrations -> ReportType] /\ fresh' \in [Migrations -> BOOLEAN]
    BY <1>9, <2>3 DEF Report, TypeOK
  <2>5. queue' \in Seq(Migrations) /\ again' \in BOOLEAN
    <3>1. Append(queue, worker) \in Seq(Migrations) /\ queue \in Seq(Migrations)
      BY <2>1 DEF TypeOK
    <3>2. queue' \in {queue, Append(queue, worker)} /\ again' = FALSE
      BY <1>9 DEF Report, Done
    <3> QED
      BY <3>1, <3>2
  <2>6. Rest
    BY <1>9 DEF Report
  <2> QED
    BY <1>9, <2>4, <2>5, <2>6, RestInv DEF Report, TypeOK
<1>10. CASE Crash
  <2>1. live \in SUBSET Migrations /\ Rest /\ again' = FALSE /\ queue' \in SetToSeqs(live)
        /\ crashes' \in Nat
    BY <1>10 DEF Crash, TypeOK
  <2>2. queue' \in Seq(Migrations)
    BY <2>1, SeqsType
  <2> QED
    BY <1>10, <2>1, <2>2, RestInv DEF Crash, TypeOK
<1>11. CASE ChangeIngress
  <2>1. Enqueue(live) /\ live \in SUBSET Migrations
    BY <1>11 DEF ChangeIngress, TypeOK
  <2>2. queue' \in Seq(Migrations) /\ again' \in BOOLEAN
    BY <2>1, EnqueueType DEF TypeOK
  <2> QED
    BY <1>11, <2>2 DEF ChangeIngress, Change, TypeOK, AtWork
<1>12. CASE DeleteRoute \/ Collect
  <2>1. PICK k \in Keys : Store(k, NoRoute)
    BY <1>12 DEF DeleteRoute, Collect
  <2>2. RoutesOK' /\ lags' \in Nat
    BY <2>1, NoRouteType, StoreType
  <2>3. changes' \in Nat /\ UNCHANGED <<faults, crashes>>
    BY <1>12 DEF DeleteRoute, Collect, Change, TypeOK
  <2> QED
    BY <1>12, <2>2, <2>3 DEF DeleteRoute, Collect, TypeOK, AtWork, RoutesOK
<1>13. CASE DeleteMigration
  <2>1. PICK m \in live : live' = live \ {m} /\ Enqueue({m})
    BY <1>13 DEF DeleteMigration
  <2>2. {m} \in SUBSET Migrations
    BY <2>1 DEF TypeOK
  <2>3. queue' \in Seq(Migrations) /\ again' \in BOOLEAN
    BY <2>1, <2>2, EnqueueType DEF TypeOK
  <2> QED
    BY <1>13, <2>1, <2>3 DEF DeleteMigration, Change, TypeOK, AtWork
<1>14. CASE Sync
  <2> DEFINE told(k) == UNION {Watchers(k, n[2]) : n \in {n \in news : n[1] = k}}
  <2>1. PICK k \in {n[1] : n \in news} :
          /\ seen' = [seen EXCEPT ![k] = routes[k]]
          /\ news' = {n \in news : n[1] # k}
          /\ Enqueue(told(k))
    BY <1>14 DEF Sync
  <2>2. k \in Keys /\ told(k) \in SUBSET Migrations
    BY <2>1, WatchersType DEF TypeOK
  <2> HIDE DEF told
  <2>3. queue' \in Seq(Migrations) /\ again' \in BOOLEAN
    BY <2>1, <2>2, EnqueueType DEF TypeOK
  <2>4. DOMAIN seen' = Keys /\ (\A o \in Keys : seen'[o] \in RouteType) /\ news' \subseteq news
    BY <2>1, <2>2 DEF TypeOK
  <2> QED
    BY <1>14, <2>3, <2>4 DEF Sync, TypeOK, AtWork
<1>15. CASE NewSecond
  BY <1>15 DEF NewSecond, TypeOK, AtWork
<1>16. CASE UNCHANGED vars
  BY <1>16 DEF vars, TypeOK, AtWork
<1> QED
  BY <1>1, <1>3, <1>4, <1>5, <1>6, <1>7, <1>8, <1>9, <1>10, <1>11, <1>12, <1>13, <1>14,
     <1>15, <1>16 DEF Next, Reconcile, Environment

-----------------------------------------------------------------------------
(* What the loop knows.                                                    *)

(* The counts when the loop comes to another Ingress: it adds a route, the *)
(* canary it met, or nothing.                                              *)
LEMMA CountedGrows ==
  ASSUME TypeOK, LoopInv, Advance, Current \in DOMAIN found,
         desired' \in {desired, desired \union {Current}}
  PROVE  Counted' = Counted \union (desired' \ desired)
                      \union (IF RoutedAlone(found, Current) THEN Merged(found, Current) ELSE {})
<1>1. found' = found /\ Read' = Read \union {Current}
  BY CurrentInTodo DEF TypeOK, LoopInv, Advance
<1> QED
  BY <1>1 DEF Counted, RoutedAlone, PairedCanary, Merged, Canaries

(* Whose canary it is is settled, and a canary gets no route, so that what *)
(* is met with a primary was not counted before.                           *)
LEMMA MetOnce ==
  ASSUME TypeOK, LoopInv, Advance, Current \in DOMAIN found
  PROVE  /\ Merged(found, Current) \intersect Counted = {}
         /\ RoutedAlone(found, Current) => Current \notin Counted
         /\ Current \notin Merged(found, Current)
<1>1. Current \notin Read
  BY CurrentInTodo DEF TypeOK, LoopInv
<1>2. \A i, c \in DOMAIN found : c \in Merged(found, i) => PairedCanary(found, c) /\ IsPair(found, c, i)
  BY DEF Merged, Canaries, PairedCanary
<1>3. \A c, i, j \in DOMAIN found : IsPair(found, c, i) /\ IsPair(found, c, j) => i = j
  BY DEF IsPair
<1>4. \A i \in DOMAIN found : Merged(found, i) \subseteq DOMAIN found
  BY DEF Merged, Canaries
<1>5. desired \subseteq Read /\ Read \subseteq DOMAIN found
      /\ \A i \in desired : ~PairedCanary(found, i)
  BY DEF LoopInv, RoutedAlone, Read
<1>6. ASSUME NEW c \in Merged(found, Current), c \in Counted
      PROVE  FALSE
  <2>1. c \in DOMAIN found /\ PairedCanary(found, c) /\ IsPair(found, c, Current)
    BY <1>2, <1>4, <1>6
  <2>2. PICK i \in Read : c \in Merged(found, i)
    BY <1>5, <1>6, <2>1 DEF Counted
  <2>3. i = Current
    BY <1>2, <1>3, <1>5, <2>1, <2>2
  <2> QED
    BY <1>1, <2>2, <2>3
<1>7. Current \notin Merged(found, Current)
  BY <1>2, <1>4 DEF IsPair
<1>8. ASSUME Current \in Counted, RoutedAlone(found, Current)
      PROVE  FALSE
  <2>1. Current \notin desired
    BY <1>1, <1>5
  <2>2. PICK i \in Read : Current \in Merged(found, i)
    BY <1>8, <2>1 DEF Counted
  <2> QED
    BY <1>2, <1>5, <1>8, <2>2 DEF RoutedAlone
<1> QED
  BY <1>6, <1>7, <1>8

LEMMA DisjointUnion ==
  ASSUME NEW S, NEW T, IsFiniteSet(S), IsFiniteSet(T), S \intersect T = {}
  PROVE  Cardinality(S \union T) = Cardinality(S) + Cardinality(T)
<1>1. Cardinality(S \union T) = Cardinality(S) + Cardinality(T) - Cardinality(S \intersect T)
  BY FS_Union, Zenon
<1>2. Cardinality(S \intersect T) = 0
  BY FS_EmptySet
<1>3. Cardinality(S) \in Nat /\ Cardinality(T) \in Nat
  BY FS_CardinalityType
<1> QED
  BY <1>1, <1>2, <1>3

(* The count goes up by what is counted.                                   *)
LEMMA CountKept ==
  ASSUME TypeOK, LoopInv, Advance, Current \in DOMAIN found,
         desired' \in {desired, desired \union {Current}},
         desired' # desired => RoutedAlone(found, Current),
         converted' = converted + Cardinality(desired' \ desired)
                        + (IF RoutedAlone(found, Current) THEN Cardinality(Merged(found, Current)) ELSE 0)
  PROVE  converted' = Cardinality(Counted')
<1> DEFINE met == IF RoutedAlone(found, Current) THEN Merged(found, Current) ELSE {}
           new == desired' \ desired
<1>1. new \in {{}, {Current}} /\ (new # {} => RoutedAlone(found, Current))
  OBVIOUS
<1>2. met \subseteq Ingresses /\ Counted \subseteq Ingresses /\ new \subseteq Ingresses
  <2>1. \A i \in DOMAIN found : Merged(found, i) \subseteq DOMAIN found
    BY DEF Merged, Canaries
  <2> QED
    BY <1>1, <2>1 DEF TypeOK, LoopInv, Counted, Read
<1>3. Counted' = (Counted \union new) \union met
  BY CountedGrows
<1>4. Counted \intersect new = {} /\ (Counted \union new) \intersect met = {}
  BY <1>1, MetOnce
<1>5. Cardinality(met)
        = IF RoutedAlone(found, Current) THEN Cardinality(Merged(found, Current)) ELSE 0
  BY FS_EmptySet
<1>6. converted' = converted + Cardinality(new) + Cardinality(met)
  BY <1>5
<1> HIDE DEF met, new
<1>7. IsFiniteSet(Counted) /\ IsFiniteSet(new) /\ IsFiniteSet(met) /\ IsFiniteSet(Counted \union new)
  BY <1>2, IngressesFinite, FS_Subset
<1>8. Cardinality(Counted) \in Nat /\ Cardinality(new) \in Nat /\ Cardinality(met) \in Nat
      /\ Cardinality(Counted \union new) \in Nat
  BY <1>7, FS_CardinalityType
<1>9. Cardinality(Counted \union new) = Cardinality(Counted) + Cardinality(new)
  BY <1>4, <1>7, DisjointUnion
<1>10. Cardinality(Counted') = Cardinality(Counted \union new) + Cardinality(met)
  BY <1>3, <1>4, <1>7, DisjointUnion
<1> QED
  BY <1>6, <1>8, <1>9, <1>10 DEF LoopInv

(* What is known of an Ingress stays known.                                *)
LEMMA HandledStays ==
  ASSUME LoopInv, NEW i \in Read, found' = found, issues \subseteq issues', desired \subseteq desired'
  PROVE  Handled(i)'
BY DEF LoopInv, Handled, PairedCanary, RoutedAlone, PairingIssues, Canaries, Merged

(* A step of the loop.                                                     *)
LEMMA AdvanceInv ==
  ASSUME TypeOK, LoopInv, Advance, NEW i, i = Current,
         desired' \in {desired, desired \union {i}},
         desired' # desired => RoutedAlone(found, i),
         converted' = converted + Cardinality(desired' \ desired)
                        + (IF RoutedAlone(found, i) THEN Cardinality(Merged(found, i)) ELSE 0),
         issues \subseteq issues',
         Failed(issues') \subseteq Failed(issues) \union
           (IF PairedCanary(found, i) \/ i \in desired' THEN {} ELSE {i}),
         Handled(i)'
  PROVE  LoopInv'
<1>1. /\ i \in DOMAIN found /\ i \notin Read /\ Read' = Read \union {i}
      /\ todo' \subseteq DOMAIN found' /\ found' = found /\ pc' = pc /\ pc = "convert"
  BY CurrentInTodo DEF TypeOK, LoopInv, Advance
<1>2. desired' \subseteq {j \in Read' : RoutedAlone(found', j)}
  BY <1>1 DEF LoopInv
<1>3. Failed(issues') \subseteq {j \in Read' : ~PairedCanary(found', j)} \ desired'
  BY <1>1 DEF LoopInv
<1>4. \A j \in Read' : Handled(j)'
  <2>1. \A j \in Read : Handled(j)'
    BY <1>1, HandledStays
  <2> QED
    BY <1>1, <2>1
<1>5. converted' = Cardinality(Counted')
  BY <1>1, CountKept
<1>6. Overlaps(found') \subseteq issues'
  BY <1>1 DEF LoopInv
<1>7. orphans' = {}
  BY <1>1 DEF LoopInv, Advance
<1> QED
  BY <1>1, <1>2, <1>3, <1>4, <1>5, <1>6, <1>7 DEF LoopInv

(* What is said of a canary fails nobody.                                  *)
LEMMA PairingFailsNobody ==
  ASSUME NEW f, NEW i, NEW list
  PROVE  Failed(list \union PairingIssues(f, i)) = Failed(list)
BY DEF Failed, PairingIssues

LEMMA NextLoop ==
  ASSUME TypeOK, AtWork, LoopInv, [Next]_vars
  PROVE  LoopInv'
<1> USE DEF clusterVars, statusVars, queueVars, workVars, boundVars, routeVars
<1>1. CASE Begin
  <2> DEFINE m == Head(queue)
  <2>1. CASE m \in live
    <3>1. /\ todo' = DOMAIN found' /\ issues' = Overlaps(found') /\ pc' = "convert"
          /\ desired' = {} /\ orphans' = {} /\ converted' = 0
      BY <1>1, <2>1 DEF Begin, LoopInv
    <3>2. Read' = {} /\ Counted' = {}
      BY <3>1 DEF Read, Counted
    <3>3. Failed(issues') = {}
      BY <3>1 DEF Failed, Overlaps
    <3> QED
      BY <3>1, <3>2, <3>3, FS_EmptySet DEF LoopInv
  <2>2. CASE m \notin live
    <3>1. UNCHANGED workVars
      BY <1>1, <2>2 DEF Begin
    <3> QED
      BY <3>1 DEF LoopInv, Read, Counted, Handled
  <2> QED
    BY <2>1, <2>2
<1>2. CASE SkipCanary
  <2>1. PICK i : i = Current
    OBVIOUS
  <2>2. /\ Advance /\ PairedCanary(found, i) /\ ~RoutedAlone(found, i)
        /\ UNCHANGED <<found, desired, converted, issues>>
    BY <1>2, <2>1 DEF SkipCanary, Advance, RoutedAlone
  <2>3. Handled(i)'
    BY <2>2 DEF Handled, PairedCanary, RoutedAlone
  <2>4. Cardinality(desired' \ desired) = 0 /\ converted \in Nat
    BY <2>2, FS_EmptySet DEF TypeOK
  <2>5. converted' = converted + Cardinality(desired' \ desired)
                       + (IF RoutedAlone(found, i) THEN Cardinality(Merged(found, i)) ELSE 0)
    BY <2>2, <2>4
  <2> QED
    BY <2>1, <2>2, <2>3, <2>5, AdvanceInv
<1>3. CASE ConversionFails
  <2>1. PICK i : i = Current
    OBVIOUS
  <2>2. /\ Advance /\ ~PairedCanary(found, i) /\ ~found[i].converts /\ ~RoutedAlone(found, i)
        /\ UNCHANGED <<found, desired, converted>>
        /\ issues' = issues \union {<<"unconvertible", i>>}
    BY <1>3, <2>1 DEF ConversionFails, Advance, RoutedAlone
  <2>3. Handled(i)'
    BY <2>2 DEF Handled, PairedCanary, RoutedAlone
  <2>4. Cardinality(desired' \ desired) = 0 /\ converted \in Nat
    BY <2>2, FS_EmptySet DEF TypeOK
  <2>5. converted' = converted + Cardinality(desired' \ desired)
                       + (IF RoutedAlone(found, i) THEN Cardinality(Merged(found, i)) ELSE 0)
    BY <2>2, <2>4
  <2>6. i \notin desired
    BY <2>2 DEF LoopInv
  <2>7. Failed(issues') \subseteq Failed(issues) \union {i}
    BY <2>2 DEF Failed
  <2> QED
    BY <2>1, <2>2, <2>3, <2>5, <2>6, <2>7, AdvanceInv
<1>4. CASE ApplyRoute
  <2>1. PICK i : i = Current
    OBVIOUS
  <2>2. /\ Advance /\ RoutedAlone(found, i) /\ UNCHANGED found
        /\ desired' = desired \union {i}
        /\ converted' = converted + 1 + Cardinality(Merged(found, i))
        /\ issues' = issues \union PairingIssues(found, i)
    BY <1>4, <2>1 DEF ApplyRoute, Advance
  <2>3. Handled(i)'
    BY <2>2 DEF Handled, PairedCanary, RoutedAlone, PairingIssues, Canaries, Merged
  <2>4. desired' \ desired = {i}
    BY <2>1, <2>2, CurrentInTodo DEF TypeOK, LoopInv
  <2>5. Cardinality(desired' \ desired) = 1 /\ converted \in Nat
    BY <2>4, FS_Singleton DEF TypeOK
  <2>6. i \in DOMAIN found /\ DOMAIN found \subseteq Ingresses
    BY <2>1, <2>2, CurrentInTodo DEF TypeOK, LoopInv
  <2>7. Cardinality(Merged(found, i)) \in Nat
    BY <2>6, OneMerged
  <2>8. converted' = converted + Cardinality(desired' \ desired)
                       + (IF RoutedAlone(found, i) THEN Cardinality(Merged(found, i)) ELSE 0)
    BY <2>2, <2>5, <2>7
  <2>9. Failed(issues') = Failed(issues)
    BY <2>2, PairingFailsNobody
  <2> QED
    BY <2>1, <2>2, <2>3, <2>8, <2>9, AdvanceInv
<1>5. CASE ApplyFails
  <2>1. PICK i : i = Current
    OBVIOUS
  <2>2. /\ Advance /\ RoutedAlone(found, i) /\ UNCHANGED <<found, desired>>
        /\ converted' = converted + Cardinality(Merged(found, i))
        /\ issues' = issues \union PairingIssues(found, i) \union {<<"unapplied", i>>}
    BY <1>5, <2>1 DEF ApplyFails, Advance
  <2>3. Handled(i)'
    BY <2>2 DEF Handled, PairedCanary, RoutedAlone, PairingIssues, Canaries, Merged
  <2>4. Cardinality(desired' \ desired) = 0 /\ converted \in Nat
    BY <2>2, FS_EmptySet DEF TypeOK
  <2>5. i \in DOMAIN found /\ i \notin Read /\ DOMAIN found \subseteq Ingresses
    BY <2>1, <2>2, CurrentInTodo DEF TypeOK, LoopInv
  <2>6. Cardinality(Merged(found, i)) \in Nat
    BY <2>5, OneMerged
  <2>7. converted' = converted + Cardinality(desired' \ desired)
                       + (IF RoutedAlone(found, i) THEN Cardinality(Merged(found, i)) ELSE 0)
    BY <2>2, <2>4, <2>6
  <2>8. i \notin desired' /\ ~PairedCanary(found, i)
    BY <2>2, <2>5 DEF LoopInv, RoutedAlone
  <2>9. Failed(issues') = Failed(issues) \union {i}
    <3>1. issues' = (issues \union {<<"unapplied", i>>}) \union PairingIssues(found, i)
      BY <2>2
    <3>2. Failed(issues') = Failed(issues \union {<<"unapplied", i>>})
      BY <3>1, PairingFailsNobody
    <3>3. i \in Ingresses
      BY <2>5
    <3> QED
      BY <3>2, <3>3 DEF Failed
  <2> QED
    BY <2>1, <2>2, <2>3, <2>7, <2>8, <2>9, AdvanceInv
<1>6. CASE PruneFails \/ ListRoutes \/ PruneRoute
  <2>1. /\ todo = {} \/ pc \in Kinds
        /\ pc # "idle" /\ pc' \notin {"idle", "convert"}
        /\ UNCHANGED <<found, todo, desired, converted, issues>>
    BY <1>6 DEF PruneFails, ListRoutes, PruneRoute, Kinds
  <2>2. todo' = {}
    BY <2>1 DEF LoopInv, Kinds
  <2>3. Read' = Read /\ Counted' = Counted
    BY <2>1 DEF Read, Counted
  <2>4. \A i \in Read : Handled(i)'
    BY <2>1, HandledStays
  <2>5. \A k \in orphans' : k[2] \notin desired'
    BY <1>6, <2>1 DEF PruneFails, ListRoutes, PruneRoute, Orphans, LoopInv
  <2> QED
    BY <2>1, <2>2, <2>3, <2>4, <2>5 DEF LoopInv
<1>7. CASE Report \/ Crash
  BY <1>7, RestInv DEF Report, Crash
<1>8. CASE UNCHANGED workVars
  BY <1>8 DEF LoopInv, Read, Counted, Handled
<1> QED
  BY <1>1, <1>2, <1>3, <1>4, <1>5, <1>6, <1>7, <1>8
  DEF Next, Reconcile, Environment, ChangeIngress, DeleteRoute, DeleteMigration, Collect, Sync,
      NewSecond, vars

LEMMA AlwaysLoop == Spec => [](TypeOK /\ AtWork /\ LoopInv)
<1>1. TypeOK /\ AtWork /\ LoopInv /\ [Next]_vars => (TypeOK /\ AtWork /\ LoopInv)'
  BY NextTypes, NextLoop
<1> QED
  BY InitTypes, <1>1, PTL DEF Spec

(* The tables, the queue and the loop's locals stay of their types, for    *)
(* every set of TransferGWs and Ingresses and every bound.                 *)
THEOREM RoutesTypes == Spec => []TypeOK
  BY AlwaysLoop, PTL

(* For any Ingresses, canaries and failed calls, what the status counts as *)
(* converted and failed never exceeds what was selected, although a canary *)
(* is counted with its primary (transfergw_controller.go:240-320).         *)
THEOREM CountsAreRight == Spec => []CountsAddUp
<1>1. TypeOK /\ LoopInv => CountsAddUp
  <2> SUFFICES ASSUME TypeOK, LoopInv
               PROVE  converted + Cardinality(Failed(issues)) <= Cardinality(DOMAIN found)
    BY DEF CountsAddUp, Total
  <2>1. Counted \subseteq DOMAIN found /\ Failed(issues) \subseteq DOMAIN found
    BY DEF LoopInv, Counted, Read, Merged, Canaries
  <2>2. \A i, c : c \in Merged(found, i) /\ i \in DOMAIN found => PairedCanary(found, c)
    BY DEF Merged, Canaries, PairedCanary
  <2>3. Counted \intersect Failed(issues) = {}
    BY <2>2 DEF LoopInv, Counted, Read
  <2>4. IsFiniteSet(DOMAIN found)
    BY IngressesFinite, FS_Subset DEF TypeOK
  <2>5. IsFiniteSet(Counted) /\ IsFiniteSet(Failed(issues))
    BY <2>1, <2>4, FS_Subset
  <2>6. Cardinality(Counted \union Failed(issues)) <= Cardinality(DOMAIN found)
    BY <2>1, <2>4, FS_Subset
  <2> QED
    BY <2>3, <2>5, <2>6, DisjointUnion DEF LoopInv
<1> QED
  BY <1>1, AlwaysLoop, PTL

(* When the loop has come to its end, some of what was selected is counted *)
(* as converted or as failed: a canary that is paired leaves its primary,  *)
(* which is not (canary.go:68-120).  Migration's outcomes rest on this and *)
(* on CountsAreRight.                                                      *)
THEOREM SomeAreCounted ==
  Spec => [](pc # "idle" /\ todo = {} /\ Total > 0 => converted + Cardinality(Failed(issues)) > 0)
<1>1. TypeOK /\ LoopInv =>
        (pc # "idle" /\ todo = {} /\ Total > 0 => converted + Cardinality(Failed(issues)) > 0)
  <2> SUFFICES ASSUME TypeOK, LoopInv, todo = {}, Total > 0
               PROVE  converted + Cardinality(Failed(issues)) > 0
    OBVIOUS
  <2>1. IsFiniteSet(DOMAIN found) /\ DOMAIN found # {}
    BY IngressesFinite, FS_Subset, FS_EmptySet DEF TypeOK, Total
  <2>2. PICK i \in DOMAIN found : ~PairedCanary(found, i)
    <3>1. PICK c \in DOMAIN found : TRUE
      BY <2>1
    <3>2. ASSUME PairedCanary(found, c)
          PROVE  \E p \in DOMAIN found : ~PairedCanary(found, p)
      BY <3>2 DEF PairedCanary, IsPair
    <3> QED
      BY <3>1, <3>2
  <2>3. Handled(i)
    BY <2>2 DEF LoopInv, Read
  <2>4. i \in Counted \/ i \in Failed(issues)
    BY <2>2, <2>3 DEF Handled, RoutedAlone, Counted, Failed, TypeOK
  <2>5. IsFiniteSet(Counted) /\ IsFiniteSet(Failed(issues))
    BY <2>1, FS_Subset DEF LoopInv, Counted, Read, Merged, Canaries
  <2>6. Cardinality(Counted) \in Nat /\ Cardinality(Failed(issues)) \in Nat
        /\ (Cardinality(Counted) # 0 \/ Cardinality(Failed(issues)) # 0)
    BY <2>4, <2>5, FS_CardinalityType, FS_EmptySet
  <2> QED
    BY <2>6 DEF LoopInv
<1> QED
  BY <1>1, AlwaysLoop, PTL

(* Whoever is whose canary and whatever fails, a loop that ends has        *)
(* something to say of two Ingresses whose routes have one place and       *)
(* different backends: that they overlap (overlap.go:47-100), or, where    *)
(* only a canary makes the difference, that it was merged.                 *)
THEOREM ClashesAreReported == Spec => ClashesReported
<1> DEFINE Reported ==
             \A i, j \in desired :
               /\ found[i].places \intersect found[j].places # {}
               /\ Backends(found, i) # Backends(found, j)
               => \/ {<<"overlap", i>>, <<"overlap", j>>} \subseteq issues
                  \/ /\ found[i].service = found[j].service
                     /\ \E c \in Merged(found, i) \union Merged(found, j) : <<"merged", c>> \in issues
<1>1. ASSUME TypeOK, LoopInv, Report
      PROVE  Reported
  <2> SUFFICES ASSUME NEW i \in desired, NEW j \in desired,
                      NEW p \in found[i].places \intersect found[j].places,
                      Backends(found, i) # Backends(found, j)
               PROVE  \/ {<<"overlap", i>>, <<"overlap", j>>} \subseteq issues
                      \/ /\ found[i].service = found[j].service
                         /\ \E c \in Merged(found, i) \union Merged(found, j) : <<"merged", c>> \in issues
    OBVIOUS
  <2>1. i \in Claimants(found, p) /\ j \in Claimants(found, p)
    BY <1>1 DEF LoopInv, Read, RoutedAlone, Claimants
  <2>2. CASE found[i].service # found[j].service
    <3>1. p \in UNION {found[k].places : k \in DOMAIN found}
      BY <1>1 DEF LoopInv, Read
    <3>2. {<<"overlap", i>>, <<"overlap", j>>} \subseteq Overlaps(found)
      BY <2>1, <2>2, <3>1 DEF Overlaps
    <3>3. pc # "idle"
      BY <1>1 DEF Report
    <3> QED
      BY <1>1, <3>2, <3>3 DEF LoopInv
  <2>3. CASE found[i].service = found[j].service
    <3>1. Merged(found, i) \union Merged(found, j) # {}
      BY <2>3 DEF Backends
    <3>2. \A k \in desired : {"merged"} \X Merged(found, k) \subseteq issues
      BY <1>1 DEF LoopInv, Handled, PairingIssues
    <3>3. PICK c \in Merged(found, i) \union Merged(found, j) : <<"merged", c>> \in issues
      BY <3>1, <3>2
    <3> QED
      BY <2>3, <3>3
  <2> QED
    BY <2>2, <2>3
<1>2. TypeOK /\ LoopInv /\ [Next]_vars => [Report => Reported]_vars
  BY <1>1
<1> QED
  BY <1>2, AlwaysLoop, PTL DEF Spec, ClashesReported

(* No gRPC Ingress that a canary could belong to: the loop is done with    *)
(* such a primary before it looks for its canary.                          *)
NoGRPCPrimaries ==
  \A shape \in Shapes :
    shape.kind = "GRPCRoute" => shape.canary \/ Cardinality(shape.places) # 1

(* Unless a canary has a gRPC primary, an Ingress is never dropped when    *)
(* all traffic moves: it has its route, or the status says what became of  *)
(* it, whatever failed on the way (README.md:12-14).                       *)
THEOREM NothingIsDropped == NoGRPCPrimaries => (Spec => NothingDropped)
<1> DEFINE Told ==
             \A i \in DOMAIN found \ desired :
               \E issue \in issues : issue[1] # "overlap" /\ issue[2] = i
<1> SUFFICES ASSUME NoGRPCPrimaries
             PROVE  Spec => NothingDropped
  OBVIOUS
<1>1. ASSUME TypeOK, LoopInv, Report, Completes
      PROVE  Told
  <2> SUFFICES ASSUME NEW i \in DOMAIN found \ desired
               PROVE  \E issue \in issues : issue[1] # "overlap" /\ issue[2] = i
    OBVIOUS
  <2>1. Read = DOMAIN found
    BY <1>1 DEF Report, LoopInv, Read
  <2>2. ASSUME NEW j \in DOMAIN found
        PROVE  <<"unconvertible", j>> \notin issues /\ <<"unapplied", j>> \notin issues
    BY <1>1 DEF Completes, Failed, TypeOK
  <2>3. PairedCanary(found, i)
    BY <1>1, <2>1, <2>2 DEF LoopInv, Handled, RoutedAlone
  <2>4. PICK p \in DOMAIN found : IsPair(found, i, p)
    BY <2>3 DEF PairedCanary
  <2>5. ~found[p].canary /\ found[p].places = found[i].places
    BY <2>4 DEF IsPair, Group
  <2>6. found[p].kind = "HTTPRoute"
    <3>1. found[p] \in Shapes /\ Cardinality(found[p].places) = 1
      BY <1>1, <2>4, <2>5 DEF TypeOK, IsPair
    <3>2. found[p].kind \in Kinds
      BY <3>1, RoutesAssumption DEF ShapeType
    <3> QED
      BY <2>5, <3>1, <3>2 DEF NoGRPCPrimaries, Kinds
  <2>7. i \in Canaries(found, p)
    BY <2>4, <2>6 DEF Canaries
  <2>8. ~PairedCanary(found, p)
    BY <2>5 DEF PairedCanary, IsPair
  <2>9. PairingIssues(found, p) \subseteq issues
    BY <1>1, <2>1, <2>2, <2>4, <2>8 DEF LoopInv, Handled, RoutedAlone
  <2>10. <<"merged", i>> \in issues \/ <<"unmerged", i>> \in issues
    BY <2>7, <2>9 DEF PairingIssues
  <2> QED
    BY <2>10
<1>2. TypeOK /\ LoopInv /\ [Next]_vars => [Report /\ Completes => Told]_vars
  BY <1>1
<1> QED
  BY <1>2, AlwaysLoop, PTL DEF Spec, NothingDropped

-----------------------------------------------------------------------------
(* Pruning.                                                                *)

LEMMA PrunedIsOrphan ==
  ASSUME TypeOK, LoopInv, NEW k \in Keys, Pruned(k)
  PROVE  k[2] \notin desired /\ Read = DOMAIN found
<1>1. PICK o \in orphans : UNCHANGED routes \/ routes' = [routes EXCEPT ![o] = NoRoute]
  BY DEF Pruned, PruneRoute, Store, routeVars
<1>2. k = o
  BY <1>1 DEF Pruned, TypeOK
<1>3. todo = {}
  BY DEF Pruned, PruneRoute, LoopInv, Kinds
<1> QED
  BY <1>1, <1>2, <1>3 DEF LoopInv, Read

(* With any number of TransferGWs, canaries and faults and any lag of the  *)
(* cache, the one way to prune the route of an Ingress that was selected   *)
(* and converted is that this pass could not apply it, and says so in the  *)
(* status (transfergw_controller.go:602-612).                              *)
THEOREM PrunedForAReason ==
  Spec => [][\A k \in Keys :
               Pruned(k) /\ Deserved(found, k) => <<"unapplied", k[2]>> \in issues]_vars
<1>1. ASSUME TypeOK, LoopInv, NEW k \in Keys, Pruned(k), Deserved(found, k)
      PROVE  <<"unapplied", k[2]>> \in issues
  <2>1. k[2] \notin desired /\ k[2] \in Read
    BY <1>1, PrunedIsOrphan DEF Deserved
  <2> QED
    BY <1>1, <2>1 DEF LoopInv, Handled, Deserved
<1>2. TypeOK /\ LoopInv /\ [Next]_vars
        => [\A k \in Keys :
              Pruned(k) /\ Deserved(found, k) => <<"unapplied", k[2]>> \in issues]_vars
  BY <1>1
<1> QED
  BY <1>2, AlwaysLoop, PTL DEF Spec

(* No two TransferGWs in one namespace.                                    *)
HomesDiffer == \A m, n \in Migrations : Home[m] = Home[n] => m = n

(* A controller reference stays within its namespace.                      *)
OwnersLocal ==
  \A k \in Keys :
    routes[k].owner # Nobody => routes[k].owner \in Migrations /\ Home[routes[k].owner] = Site[k[2]]

CacheCurrent == seen = routes /\ news = {}

NoneUnapplied == \A i \in Ingresses : <<"unapplied", i>> \notin issues

(* What is stored is cached, and has an owner in its namespace.            *)
LEMMA StoreCurrent ==
  ASSUME TypeOK, MaxLags = 0, OwnersLocal, CacheCurrent,
         NEW k \in Keys, NEW route, Store(k, route),
         route.owner # Nobody => route.owner \in Migrations /\ Home[route.owner] = Site[k[2]]
  PROVE  OwnersLocal' /\ CacheCurrent'
<1>1. ~Trails(k) /\ ~(lags < MaxLags)
  BY DEF CacheCurrent, Trails, TypeOK
<1>2. seen' = [seen EXCEPT ![k] = route] /\ news' = news /\ routes' = [routes EXCEPT ![k] = route]
  BY <1>1 DEF Store
<1> QED
  BY <1>2 DEF OwnersLocal, CacheCurrent, TypeOK

LEMMA NextOwners ==
  ASSUME MaxLags = 0, TypeOK, AtWork, LoopInv, OwnersLocal, CacheCurrent, [Next]_vars
  PROVE  OwnersLocal' /\ CacheCurrent'
<1> USE DEF clusterVars, routeVars, statusVars, queueVars, workVars, boundVars
<1>1. CASE ApplyRoute
  <2> DEFINE key == <<found[Current].kind, Current>>
  <2>1. Current \in Ingresses /\ found[Current].kind \in Kinds /\ worker \in Migrations
    BY <1>1, CurrentInTodo, RoutesAssumption
    DEF ApplyRoute, TypeOK, LoopInv, ShapeType, AtWork, Advance
  <2>2. key \in Keys /\ key[2] = Current
    BY <2>1 DEF Keys
  <2>3. UNCHANGED <<routes, seen, news>> \/ Store(key, Wanted(key))
    BY <1>1 DEF ApplyRoute
  <2>4. Wanted(key).owner = IF Local THEN worker ELSE routes[key].owner
    BY DEF Wanted, CacheCurrent
  <2>5. Wanted(key).owner # Nobody
          => Wanted(key).owner \in Migrations /\ Home[Wanted(key).owner] = Site[Current]
    BY <2>1, <2>2, <2>4 DEF OwnersLocal, Local
  <2> HIDE DEF key
  <2>6. CASE UNCHANGED <<routes, seen, news>>
    BY <2>6 DEF OwnersLocal, CacheCurrent
  <2> QED
    BY <2>2, <2>3, <2>5, <2>6, StoreCurrent
<1>2. ASSUME NEW k \in Keys, Store(k, NoRoute)
      PROVE  OwnersLocal' /\ CacheCurrent'
  BY <1>2, StoreCurrent DEF NoRoute
<1>3. ASSUME UNCHANGED <<routes, seen, news>>
      PROVE  OwnersLocal' /\ CacheCurrent'
  BY <1>3 DEF OwnersLocal, CacheCurrent
<1>4. CASE PruneRoute
  <2>1. UNCHANGED <<routes, seen, news>> \/ \E k \in Keys : Store(k, NoRoute)
    BY <1>4 DEF PruneRoute, TypeOK
  <2> QED
    BY <1>2, <1>3, <2>1
<1>5. CASE DeleteRoute \/ Collect
  <2>1. PICK k \in Keys : Store(k, NoRoute)
    BY <1>5 DEF DeleteRoute, Collect
  <2> QED
    BY <1>2, <2>1
<1>6. ~Sync
  BY DEF Sync, CacheCurrent
<1>7. CASE Crash
  BY <1>7 DEF Crash, OwnersLocal, CacheCurrent
<1>8. CASE Reconcile /\ ~ApplyRoute /\ ~PruneRoute
  <2>1. UNCHANGED <<routes, seen, news>>
    BY <1>8 DEF Reconcile, Begin, SkipCanary, ConversionFails, ApplyFails, ListRoutes, PruneFails,
                Report
  <2> QED
    BY <1>3, <2>1
<1>9. CASE ChangeIngress \/ DeleteMigration \/ NewSecond \/ UNCHANGED vars
  <2>1. UNCHANGED <<routes, seen, news>>
    BY <1>9 DEF ChangeIngress, DeleteMigration, NewSecond, vars
  <2> QED
    BY <1>3, <2>1
<1> QED
  BY <1>1, <1>4, <1>5, <1>6, <1>7, <1>8, <1>9 DEF Next, Environment

LEMMA NextNoneUnapplied ==
  ASSUME HomesDiffer, MaxFaults = 0, TypeOK, AtWork, LoopInv, OwnersLocal, CacheCurrent,
         NoneUnapplied, [Next]_vars
  PROVE  NoneUnapplied'
<1> USE DEF clusterVars, routeVars, statusVars, queueVars, workVars, boundVars
<1>1. ~Fault
  BY DEF Fault, TypeOK
<1>2. ASSUME Advance, Refused(<<found[Current].kind, Current>>)
      PROVE  FALSE
  <2> DEFINE key == <<found[Current].kind, Current>>
  <2>1. Current \in Ingresses /\ found[Current].kind \in Kinds /\ worker \in Migrations
    BY <1>2, CurrentInTodo, RoutesAssumption DEF TypeOK, LoopInv, ShapeType, AtWork, Advance
  <2>2. key \in Keys /\ key[2] = Current
    BY <2>1 DEF Keys
  <2>3. Home[worker] = Site[Current] /\ routes[key].owner \notin {Nobody, worker}
    BY <1>2 DEF Refused, Local, CacheCurrent
  <2>4. routes[key].owner \in Migrations /\ Home[routes[key].owner] = Site[Current]
    BY <2>2, <2>3 DEF OwnersLocal
  <2> QED
    BY <2>1, <2>3, <2>4 DEF HomesDiffer
<1>3. ~ApplyFails
  BY <1>1, <1>2 DEF ApplyFails, Trails, CacheCurrent
<1>4. \/ issues' = issues \/ issues' = {}
      \/ issues' = issues \union {<<"unconvertible", Current>>}
      \/ issues' = issues \union PairingIssues(found, Current)
      \/ \E m \in Migrations : issues' = Overlaps(Found(m))
  <2>1. CASE Begin
    <3>1. CASE Head(queue) \in live
      <4>1. issues' = Overlaps(Found(Head(queue))) /\ Head(queue) \in Migrations
        BY <2>1, <3>1 DEF Begin, TypeOK
      <4> QED
        BY <4>1
    <3>2. CASE Head(queue) \notin live
      BY <2>1, <3>2 DEF Begin
    <3> QED
      BY <3>1, <3>2
  <2>2. CASE Reconcile /\ ~Begin
    BY <1>3, <2>2 DEF Reconcile, SkipCanary, ConversionFails, ApplyRoute, ListRoutes, PruneRoute,
                      PruneFails, Report, Rest
  <2>3. CASE Environment
    BY <2>3 DEF Environment, Crash, Rest, ChangeIngress, DeleteRoute, DeleteMigration, Collect,
                Sync, NewSecond
  <2>4. CASE UNCHANGED vars
    BY <2>4 DEF vars
  <2> QED
    BY <2>1, <2>2, <2>3, <2>4 DEF Next
<1>5. ASSUME NEW i \in Ingresses, <<"unapplied", i>> \in issues'
      PROVE  FALSE
  <2>1. <<"unapplied", i>> \notin issues
    BY DEF NoneUnapplied
  <2>2. <<"unapplied", i>> # <<"unconvertible", Current>>
    OBVIOUS
  <2>3. <<"unapplied", i>> \notin PairingIssues(found, Current)
    BY DEF PairingIssues
  <2>4. \A m \in Migrations : <<"unapplied", i>> \notin Overlaps(Found(m))
    BY DEF Overlaps
  <2> QED
    BY <1>4, <1>5, <2>1, <2>2, <2>3, <2>4
<1> QED
  BY <1>5 DEF NoneUnapplied

(* When no call fails, the cache is current and TransferGWs have           *)
(* namespaces of their own, no pass prunes the route of an Ingress it      *)
(* selected and could convert, wherever the controller crashes and         *)
(* whatever changes while it runs.                                         *)
THEOREM ServedAreKept ==
  HomesDiffer /\ MaxFaults = 0 /\ MaxLags = 0 => (Spec => KeepsServed)
<1> SUFFICES ASSUME HomesDiffer, MaxFaults = 0, MaxLags = 0
             PROVE  Spec => KeepsServed
  OBVIOUS
<1> DEFINE Kept == \A k \in Keys : Pruned(k) => ~Deserved(found, k)
           Known == OwnersLocal /\ CacheCurrent /\ NoneUnapplied
<1>1. ASSUME Init
      PROVE  Known
  <2>1. NoRoute.owner = Nobody
    BY DEF NoRoute
  <2>2. OwnersLocal /\ CacheCurrent
    BY <1>1, <2>1 DEF Init, OwnersLocal, CacheCurrent
  <2>3. NoneUnapplied
    BY <1>1 DEF Init, NoneUnapplied
  <2> QED
    BY <2>2, <2>3
<1>2. TypeOK /\ AtWork /\ LoopInv /\ Known /\ [Next]_vars => Known'
  BY NextOwners, NextNoneUnapplied
<1>3. ASSUME TypeOK, LoopInv, NoneUnapplied, NEW k \in Keys, Pruned(k), Deserved(found, k)
      PROVE  FALSE
  <2>1. k[2] \notin desired /\ k[2] \in Read
    BY <1>3, PrunedIsOrphan DEF Deserved
  <2>2. <<"unapplied", k[2]>> \in issues /\ k[2] \in Ingresses
    BY <1>3, <2>1 DEF LoopInv, Handled, Deserved, TypeOK
  <2> QED
    BY <1>3, <2>2 DEF NoneUnapplied
<1>4. TypeOK /\ LoopInv /\ Known /\ [Next]_vars => [Kept]_vars
  BY <1>3
<1> HIDE DEF Known
<1> QED
  BY <1>1, <1>2, <1>4, AlwaysLoop, PTL DEF Spec, KeepsServed
=============================================================================
