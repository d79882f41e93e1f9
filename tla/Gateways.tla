------------------------------ MODULE Gateways ------------------------------
(***************************************************************************)
(* Who may have which Gateway: the validating webhook that admits          *)
(* TransferGWs, and the part of Reconcile that creates the Gateway and     *)
(* writes its class and its listeners.                                     *)
(*                                                                         *)
(* The webhook looks at the class first, then at the other TransferGWs,    *)
(* and the API server stores what it admitted later; both the webhook and  *)
(* Reconcile read TransferGWs from a cache that may trail (Lags).          *)
(*                                                                         *)
(* Abstracted: a Gateway is its namespace and name; its listeners beyond   *)
(* port 80 are the TLS secrets they serve, in order.  Reconcile reads the  *)
(* Gateway it updates as it is, where the code reads a cached one.  Hooks, *)
(* the rollback hold and the status are in module Migration, routes in     *)
(* module Routes.                                                          *)
(***************************************************************************)
EXTENDS Naturals, FiniteSets, SequencesExt

CONSTANTS Migrations,      \* the TransferGWs that may exist
          Nobody,          \* no TransferGW
          Name,            \* metadata.name of each
          Home,            \* metadata.namespace of each
          GatewayNames,    \* the Gateways that may exist
          Space,           \* the namespace of each
          Unset,           \* gatewayName and targetNamespace are not set
          DefaultGateway,  \* the Gateway of a TransferGW that sets neither
          Classes,         \* the GatewayClasses that may exist
          Specs,           \* the specs each TransferGW may be given
          Secrets,         \* TLS secrets, by namespace and name
          NoSecret,        \* a TLS block without a secret
          TLSLists,        \* the TLS blocks of the Ingresses selected
          Lags,            \* the cache trails the API server
          MaxRequests,     \* bound on requests in flight at once
          MaxChanges       \* bound on requests and changes by others

(* conversion.generateGateway, where it is, conversion.gatewayClass and    *)
(* rollout.paused.                                                         *)
SpecType ==
  [generate : BOOLEAN, gateway : GatewayNames \union {Unset}, class : Classes,
   paused : BOOLEAN]

ASSUME GatewaysAssumption ==
  /\ IsFiniteSet(Migrations) /\ Nobody \notin Migrations
  /\ Unset \notin GatewayNames /\ NoSecret \notin Secrets
  /\ DefaultGateway \in [Migrations -> GatewayNames]
  /\ DOMAIN Specs = Migrations /\ \A m \in Migrations : Specs[m] \subseteq SpecType
  /\ TLSLists \subseteq Seq(Secrets \union {NoSecret})
  /\ Lags \in BOOLEAN /\ MaxRequests \in Nat /\ MaxChanges \in Nat

(* No spec: the TransferGW does not exist.                                 *)
Gone == [generate |-> FALSE, gateway |-> Unset, class |-> "", paused |-> TRUE]

(* Nobody's: there is no such Gateway, or somebody else made it (foreign). *)
GatewayType ==
  [exists : BOOLEAN, owner : Migrations \union {Nobody},
   writer : Migrations \union {Nobody}, class : Classes \union {""},
   listeners : Seq(Secrets)]

NoGateway ==
  [exists |-> FALSE, owner |-> Nobody, writer |-> Nobody, class |-> "",
   listeners |-> <<>>]

Foreign(class) == [NoGateway EXCEPT !.exists = TRUE, !.class = class]

NoRequest == [stage |-> "none", spec |-> Gone]

VARIABLES
  stored,    \* the spec of every TransferGW in the API server, or Gone
  cached,    \* the same as the manager's cache has it
  behind,    \* the TransferGWs whose last change has not reached the cache
  requests,  \* the create or update of each TransferGW that is being admitted
  classes,   \* the GatewayClasses that exist
  gateways,  \* the Gateways
  tls,       \* the TLS blocks of the Ingresses each TransferGW selects
  dirty,     \* the TransferGWs on the work queue
  changes    \* requests and changes by others so far

vars == <<stored, cached, behind, requests, classes, gateways, tls, dirty, changes>>

-----------------------------------------------------------------------------
Exists(spec) == spec # Gone

(* The defaults Reconcile and the webhook both apply.                      *)
DesiredGateway(m, spec) ==
  IF spec.gateway = Unset THEN DefaultGateway[m] ELSE spec.gateway

(* m intends to own g.                                                     *)
Claims(m, spec, g) ==
  Exists(spec) /\ spec.generate /\ DesiredGateway(m, spec) = g

(* "this is an update of itself"                                           *)
SameObject(m, other) == Home[m] = Home[other] /\ Name[m] = Name[other]

(* checkGatewayNotAlreadyOwned refuses m this spec.                        *)
AlreadyClaimed(m, spec) ==
  /\ spec.generate
  /\ \E other \in Migrations :
       /\ ~SameObject(m, other)
       /\ Claims(other, cached[other], DesiredGateway(m, spec))

BuildListeners_OnePerBlock(blocks) == SelectSeq(blocks, LAMBDA s : s # NoSecret)

BuildListeners_AnyBlock(blocks) ==
  FoldLeft(LAMBDA done, s : IF s \in ToSet(done) THEN done ELSE Append(done, s),
           <<>>, blocks)

(* A TLS block gets a listener unless its secret has one.                  *)
AddListener(done, s) ==
  IF s = NoSecret \/ s \in ToSet(done) THEN done ELSE Append(done, s)

(* One HTTPS listener per distinct TLS secret, in the order of the         *)
(* Ingresses; the one on port 80 is always there.                          *)
BuildListeners(blocks) ==
  LET after[n \in 0..Len(blocks)] ==
        IF n = 0 THEN <<>> ELSE AddListener(after[n - 1], blocks[n])
  IN after[Len(blocks)]

-----------------------------------------------------------------------------
Init ==
  /\ stored = [m \in Migrations |-> Gone] /\ cached = stored /\ behind = {}
  /\ requests = [m \in Migrations |-> NoRequest]
  /\ classes = Classes
  /\ gateways \in [GatewayNames -> {NoGateway} \union {Foreign(c) : c \in Classes}]
  /\ tls \in [Migrations -> TLSLists]
  /\ dirty = {} /\ changes = 0

Change == changes < MaxChanges /\ changes' = changes + 1

(* The API server's objects change; the cache follows, now or later.  The  *)
(* work queue is filled by the watch that fills the cache.                 *)
Publish(m, spec) ==
  /\ stored' = [stored EXCEPT ![m] = spec]
  /\ IF Lags THEN behind' = behind \union {m} /\ UNCHANGED <<cached, dirty>>
     ELSE /\ cached' = [cached EXCEPT ![m] = spec] /\ dirty' = dirty \union {m}
          /\ UNCHANGED behind

Deliver(m) ==
  /\ m \in behind /\ behind' = behind \ {m}
  /\ cached' = [cached EXCEPT ![m] = stored[m]] /\ dirty' = dirty \union {m}
  /\ UNCHANGED <<stored, requests, classes, gateways, tls, changes>>

-----------------------------------------------------------------------------
(* Admission.                                                              *)

(* A user creates m or updates it; the API server asks the webhook.        *)
Submit(m) ==
  /\ Change
  /\ requests[m].stage = "none"
  /\ Cardinality({n \in Migrations : requests[n].stage # "none"}) < MaxRequests
  /\ \E spec \in Specs[m] \ {stored[m]} :
       requests' = [requests EXCEPT ![m] = [stage |-> "class", spec |-> spec]]
  /\ UNCHANGED <<stored, cached, behind, classes, gateways, tls, dirty>>

Refuse(m) == requests' = [requests EXCEPT ![m] = NoRequest]

Pass(m, stage) == requests' = [requests EXCEPT ![m].stage = stage]

CheckGatewayClassExists(m) ==
  /\ requests[m].stage = "class"
  /\ IF requests[m].spec.class \in classes THEN Pass(m, "gateway") ELSE Refuse(m)
  /\ UNCHANGED <<stored, cached, behind, classes, gateways, tls, dirty, changes>>

CheckGatewayNotAlreadyOwned(m) ==
  /\ requests[m].stage = "gateway"
  /\ IF AlreadyClaimed(m, requests[m].spec) THEN Refuse(m) ELSE Pass(m, "admitted")
  /\ UNCHANGED <<stored, cached, behind, classes, gateways, tls, dirty, changes>>

(* The class, the TransferGWs or the Ingresses of the selector cannot be   *)
(* read, or the selector is not valid.                                     *)
CheckFails(m) ==
  /\ requests[m].stage \in {"class", "gateway"}
  /\ Refuse(m)
  /\ UNCHANGED <<stored, cached, behind, classes, gateways, tls, dirty, changes>>

(* The API server stores what was admitted.                                *)
Persist(m) ==
  /\ requests[m].stage = "admitted"
  /\ Publish(m, requests[m].spec)
  /\ requests' = [requests EXCEPT ![m] = NoRequest]
  /\ UNCHANGED <<classes, gateways, tls, changes>>

-----------------------------------------------------------------------------
(* Reconcile.                                                              *)

(* SetControllerReference refuses a Gateway that another one controls.     *)
Local(m, g) == Home[m] = Space[g]

Refused_Never(m, g) == FALSE

Refused(m, g) == Local(m, g) /\ gateways[g].owner \notin {Nobody, m}

(* Reconcile as far as ensureGateway.  An error puts m back on the queue.  *)
EnsureGateway(m) ==
  LET spec == cached[m]
      g    == DesiredGateway(m, spec)
  IN /\ m \in dirty
     /\ IF spec.paused \/ ~spec.generate
        THEN dirty' = dirty \ {m} /\ UNCHANGED gateways
        ELSE /\ ~Refused(m, g)
             /\ gateways' = [gateways EXCEPT ![g] =
                  [exists |-> TRUE, writer |-> m, class |-> spec.class,
                   owner |-> IF Local(m, g) THEN m ELSE gateways[g].owner,
                   listeners |-> BuildListeners(tls[m])]]
             /\ dirty' = dirty \ {m}
     /\ UNCHANGED <<stored, cached, behind, requests, classes, tls, changes>>

-----------------------------------------------------------------------------
(* Everybody else.                                                         *)

Delete(m) ==
  /\ Change /\ Exists(stored[m]) /\ requests[m].stage = "none"
  /\ Publish(m, Gone)
  /\ UNCHANGED <<requests, classes, gateways, tls>>

DeleteClass ==
  /\ Change
  /\ \E c \in classes : classes' = classes \ {c}
  /\ UNCHANGED <<stored, cached, behind, requests, gateways, tls, dirty>>

MigrationsForIngress_None == {}

(* Whom an event of an Ingress concerns: all there are.                    *)
MigrationsForIngress == {n \in Migrations : Exists(cached[n])}

(* An Ingress is edited.                                                   *)
ChangeTLS(m) ==
  /\ Change
  /\ \E blocks \in TLSLists \ {tls[m]} : tls' = [tls EXCEPT ![m] = blocks]
  /\ dirty' = dirty \union MigrationsForIngress
  /\ UNCHANGED <<stored, cached, behind, requests, classes, gateways>>

(* The garbage collector removes what a deleted TransferGW controls.       *)
Collect(g) ==
  /\ gateways[g].owner # Nobody /\ ~Exists(stored[gateways[g].owner])
  /\ gateways' = [gateways EXCEPT ![g] = NoGateway]
  /\ UNCHANGED <<stored, cached, behind, requests, classes, tls, dirty, changes>>

Next ==
  \/ \E m \in Migrations :
       \/ Submit(m) \/ CheckGatewayClassExists(m) \/ CheckGatewayNotAlreadyOwned(m)
       \/ CheckFails(m) \/ Persist(m) \/ EnsureGateway(m) \/ Delete(m) \/ ChangeTLS(m) \/ Deliver(m)
  \/ DeleteClass
  \/ \E g \in GatewayNames : Collect(g)

Spec == Init /\ [][Next]_vars

(* The controller works off its queue, the cache catches up, the garbage   *)
(* collector works.  Nobody has to ask for anything.                       *)
Fairness ==
  /\ \A m \in Migrations : WF_vars(EnsureGateway(m)) /\ WF_vars(Deliver(m))
  /\ \A g \in GatewayNames : WF_vars(Collect(g))

FairSpec == Spec /\ Fairness

-----------------------------------------------------------------------------
(* Properties.                                                             *)

TypeOK ==
  /\ stored \in [Migrations -> SpecType \union {Gone}]
  /\ cached \in [Migrations -> SpecType \union {Gone}] /\ behind \subseteq Migrations
  /\ requests \in [Migrations ->
       [stage : {"none", "class", "gateway", "admitted"}, spec : SpecType \union {Gone}]]
  /\ classes \subseteq Classes
  /\ DOMAIN gateways = GatewayNames /\ \A g \in GatewayNames : gateways[g] \in GatewayType
  /\ tls \in [Migrations -> TLSLists]
  /\ dirty \subseteq Migrations /\ changes \in Nat

(* Nobody "keeps overwriting the first's listeners" (webhook.go:113-114):  *)
(* a Gateway its writer still claims is not overwritten by another.        *)
KeepsOwner ==
  [][\A g \in GatewayNames :
       LET m == gateways[g].writer
       IN m # Nobody /\ Claims(m, stored[m], g)
            => gateways'[g] \in {gateways[g], NoGateway} \/ gateways'[g].writer = m]_vars

(* Nobody else claims the Gateway m claims.                                *)
Alone(m) ==
  \A n \in Migrations \ {m} : ~Claims(n, stored[n], DesiredGateway(m, stored[m]))

(* It is there with m's class and one listener for every secret of m's     *)
(* Ingresses.                                                              *)
Served(m) ==
  LET g == DesiredGateway(m, stored[m])
  IN /\ gateways[g].exists /\ gateways[g].class = stored[m].class
     /\ ToSet(gateways[g].listeners) = ToSet(tls[m]) \ {NoSecret}
     /\ IsInjective(gateways[g].listeners)

(* A TransferGW about which nothing is queued or under way has the Gateway *)
(* it claims, as it should be (transfergw_controller.go:446-474), although *)
(* Gateways are not watched: no other TransferGW and no collection takes   *)
(* it away, whatever raced before.                                         *)
AtRestServed ==
  \A m \in Migrations \ (dirty \union behind) :
    Exists(stored[m]) /\ stored[m].generate /\ ~stored[m].paused => Served(m)

(* A TransferGW that goes on claiming a Gateway, alone, gets it, as it     *)
(* should be, and keeps it (transfergw_controller.go:446, 476-492),        *)
(* whatever races were lost before and whoever had it then.                *)
GatewaysFollow ==
  \A m \in Migrations :
    <>[](Exists(stored[m]) /\ stored[m].generate /\ ~stored[m].paused /\ Alone(m)
           => Served(m))
=============================================================================
