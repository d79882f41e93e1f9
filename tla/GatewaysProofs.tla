--------------------------- MODULE GatewaysProofs ---------------------------
(***************************************************************************)
(* Theorems about Gateways: their listeners, and what Kubernetes'          *)
(* controller reference guarantees of their ownership whatever races the   *)
(* webhook's check loses.                                                  *)
(***************************************************************************)
EXTENDS Gateways, FiniteSetTheorems, WellFoundedInduction, TLAPS

-----------------------------------------------------------------------------
(* Listeners.                                                              *)

(* A set that holds 0 and with each number the next holds all: there is no *)
(* smallest one it lacks.                                                  *)
LEMMA UpToL ==
  ASSUME NEW L \in Nat, NEW S, 0 \in S, \A n \in 0..(L - 1) : n \in S => n + 1 \in S
  PROVE  \A n \in 0..L : n \in S
<1> DEFINE Missing == (0..L) \ S
<1> SUFFICES ASSUME Missing # {}
             PROVE  FALSE
  OBVIOUS
<1>1. Missing \subseteq Nat
  OBVIOUS
<1>2. PICK n \in Missing : \A k \in Missing : ~(<<k, n>> \in OpToRel(<, Nat))
  BY <1>1, NatLessThanWellFounded, WFMin
<1>3. n \in 1..L
  OBVIOUS
<1>4. n - 1 \in Missing
  <2>1. n - 1 \in 0..(L - 1) /\ (n - 1) + 1 = n
    BY <1>3
  <2> QED
    BY <1>3, <2>1
<1>5. n - 1 < n /\ n - 1 \in Nat /\ n \in Nat
  BY <1>3
<1> QED
  BY <1>2, <1>4, <1>5 DEF OpToRel

(* One listener for each secret among the blocks, no secret twice.         *)
Serves(listeners, secrets) ==
  /\ listeners \in Seq(Secrets)
  /\ ToSet(listeners) = secrets \ {NoSecret}
  /\ IsInjective(listeners)

LEMMA AddServes ==
  ASSUME NEW secrets, NEW done, Serves(done, secrets), NEW s \in Secrets \union {NoSecret}
  PROVE  Serves(AddListener(done, s), secrets \union {s})
<1>1. CASE s = NoSecret \/ s \in ToSet(done)
  BY <1>1 DEF Serves, AddListener
<1>2. CASE s \in Secrets /\ s # NoSecret /\ s \notin ToSet(done)
  <2> DEFINE more == Append(done, s)
  <2>1. AddListener(done, s) = more
    BY <1>2 DEF AddListener
  <2>2. /\ done \in Seq(Secrets) /\ more \in Seq(Secrets) /\ DOMAIN done = 1..Len(done)
        /\ DOMAIN more = 1..(Len(done) + 1) /\ Len(done) \in Nat
        /\ \A i \in 1..Len(done) : more[i] = done[i]
        /\ more[Len(done) + 1] = s
    BY <1>2 DEF Serves
  <2> HIDE DEF more
  <2>3. ToSet(more) = ToSet(done) \union {s}
    <3>1. \A x : x \in ToSet(more) <=> x \in ToSet(done) \/ x = s
      BY <2>2 DEF ToSet
    <3> QED
      BY <3>1
  <2>4. ASSUME NEW i \in DOMAIN more, NEW j \in DOMAIN more, more[i] = more[j]
        PROVE  i = j
    <3>1. \A k \in 1..Len(done) : done[k] # s
      BY <1>2, <2>2 DEF ToSet
    <3>2. \A k, l \in 1..Len(done) : done[k] = done[l] => k = l
      BY <2>2 DEF Serves, IsInjective
    <3> QED
      BY <2>2, <2>4, <3>1, <3>2
  <2> QED
    BY <1>2, <2>1, <2>2, <2>3, <2>4 DEF Serves, IsInjective
<1> QED
  BY <1>1, <1>2

(* The secrets of the first n blocks.                                      *)
SecretsOf(blocks, n) == {blocks[j] : j \in 1..n}

LEMMA OneMoreBlock ==
  ASSUME NEW blocks, NEW n \in Nat
  PROVE  SecretsOf(blocks, n + 1) = SecretsOf(blocks, n) \union {blocks[n + 1]}
<1>1. \A j : j \in 1..(n + 1) <=> j \in 1..n \/ j = n + 1
  OBVIOUS
<1>2. \A s : s \in SecretsOf(blocks, n + 1) <=> s \in SecretsOf(blocks, n) \/ s = blocks[n + 1]
  BY <1>1 DEF SecretsOf
<1> QED
  BY <1>2

(* The listeners after each of the first n blocks.                         *)
After(blocks, n, listeners) ==
  /\ DOMAIN listeners = 0..n
  /\ \A k \in 0..n : Serves(listeners[k], SecretsOf(blocks, k))
  /\ listeners[0] = <<>>
  /\ \A k \in 1..n : listeners[k] = AddListener(listeners[k - 1], blocks[k])

LEMMA AfterExists ==
  ASSUME NEW blocks \in Seq(Secrets \union {NoSecret})
  PROVE  \E listeners : After(blocks, Len(blocks), listeners)
<1> DEFINE L == Len(blocks)
           S == {n \in 0..L : \E listeners : After(blocks, n, listeners)}
<1>1. L \in Nat
  OBVIOUS
<1>2. 0 \in S
  <2> DEFINE none == [k \in 0..0 |-> <<>>]
  <2>1. Serves(<<>>, {})
    BY DEF Serves, ToSet, IsInjective
  <2>2. SecretsOf(blocks, 0) = {}
    BY DEF SecretsOf
  <2>3. DOMAIN none = 0..0 /\ none[0] = <<>>
    OBVIOUS
  <2> HIDE DEF none
  <2>4. ASSUME NEW k \in 0..0
        PROVE  Serves(none[k], SecretsOf(blocks, k))
    <3>1. k = 0
      OBVIOUS
    <3>2. Serves(none[0], SecretsOf(blocks, 0))
      BY <2>1, <2>2, <2>3
    <3> QED
      BY <3>1, <3>2
  <2>5. \A k \in 1..0 : FALSE
    OBVIOUS
  <2>6. After(blocks, 0, none)
    BY <2>3, <2>4, <2>5 DEF After
  <2> QED
    BY <1>1, <2>6
<1>3. ASSUME NEW n \in 0..(L - 1), n \in S
      PROVE  n + 1 \in S
  <2>1. PICK listeners : After(blocks, n, listeners)
    BY <1>3
  <2> DEFINE next == AddListener(listeners[n], blocks[n + 1])
             more == [k \in 0..(n + 1) |-> IF k = n + 1 THEN next ELSE listeners[k]]
  <2>2. n \in Nat /\ n + 1 \in 1..L /\ blocks[n + 1] \in Secrets \union {NoSecret}
    BY <1>1, <1>3
  <2>3. Serves(next, SecretsOf(blocks, n + 1))
    <3>1. Serves(listeners[n], SecretsOf(blocks, n))
      BY <2>1, <2>2 DEF After
    <3> QED
      BY <2>2, <3>1, AddServes, OneMoreBlock
  <2>4. /\ DOMAIN more = 0..(n + 1) /\ more[n + 1] = next
        /\ \A k \in 0..n : more[k] = listeners[k]
    BY <2>2
  <2> HIDE DEF more
  <2>5. ASSUME NEW k \in 0..(n + 1)
        PROVE  Serves(more[k], SecretsOf(blocks, k))
    <3>1. CASE k = n + 1
      BY <2>3, <2>4, <3>1
    <3>2. CASE k \in 0..n
      BY <2>1, <2>4, <3>2 DEF After
    <3> QED
      BY <2>2, <3>1, <3>2
  <2>6. ASSUME NEW k \in 1..(n + 1)
        PROVE  more[k] = AddListener(more[k - 1], blocks[k])
    <3>1. CASE k = n + 1
      BY <2>2, <2>4, <3>1
    <3>2. CASE k \in 1..n
      BY <2>1, <2>2, <2>4, <3>2 DEF After
    <3> QED
      BY <2>2, <3>1, <3>2
  <2>7. more[0] = <<>>
    BY <2>1, <2>2, <2>4 DEF After
  <2>8. After(blocks, n + 1, more)
    BY <2>4, <2>5, <2>6, <2>7 DEF After
  <2> QED
    BY <1>1, <2>2, <2>8
<1> HIDE DEF S
<1>4. \A n \in 0..L : n \in S
  BY <1>1, <1>2, <1>3, UpToL
<1> USE DEF S
<1> QED
  BY <1>1, <1>4

(* Whatever the TLS blocks of the Ingresses are, there is one HTTPS        *)
(* listener for each secret among them, and no secret has two              *)
(* (transfergw_controller.go:493-521).                                     *)
THEOREM EverySecretServed ==
  ASSUME NEW blocks \in Seq(Secrets \union {NoSecret})
  PROVE  Serves(BuildListeners(blocks), ToSet(blocks))
<1> DEFINE L == Len(blocks)
           Step(f) == [n \in 0..L |-> IF n = 0 THEN <<>> ELSE AddListener(f[n - 1], blocks[n])]
           after == CHOOSE f : f = Step(f)
<1>1. L \in Nat
  OBVIOUS
<1>2. PICK f : After(blocks, L, f)
  BY AfterExists
<1>3. f = Step(f)
  <2>1. DOMAIN f = 0..L /\ f = [n \in 0..L |-> f[n]]
    BY <1>2 DEF After
  <2>2. \A n \in 0..L : f[n] = IF n = 0 THEN <<>> ELSE AddListener(f[n - 1], blocks[n])
    BY <1>1, <1>2 DEF After
  <2> QED
    BY <2>1, <2>2
<1>4. after = Step(after)
  BY <1>3
<1>5. BuildListeners(blocks) = after[L]
  BY DEF BuildListeners
<1>6. \A n \in 0..L : after[n] = IF n = 0 THEN <<>> ELSE AddListener(after[n - 1], blocks[n])
  BY <1>4
<1> HIDE DEF after
<1>7. \A n \in 0..L : n \in {k \in 0..L : after[k] = f[k]}
  <2> DEFINE S == {k \in 0..L : after[k] = f[k]}
  <2>1. 0 \in S
    BY <1>1, <1>2, <1>6 DEF After
  <2>2. ASSUME NEW n \in 0..(L - 1), n \in S
        PROVE  n + 1 \in S
    <3>1. n + 1 \in 1..L /\ (n + 1) - 1 = n
      BY <1>1
    <3>2. after[n + 1] = AddListener(after[n], blocks[n + 1])
      BY <1>1, <1>6, <3>1
    <3>3. f[n + 1] = AddListener(f[n], blocks[n + 1])
      BY <1>2, <3>1 DEF After
    <3> QED
      BY <2>2, <3>1, <3>2, <3>3
  <2> HIDE DEF S
  <2>3. \A n \in 0..L : n \in S
    BY <1>1, <2>1, <2>2, UpToL
  <2> QED
    BY <2>3 DEF S
<1>8. after[L] = f[L] /\ Serves(f[L], SecretsOf(blocks, L))
  BY <1>1, <1>2, <1>7 DEF After
<1>9. SecretsOf(blocks, L) = ToSet(blocks)
  BY DEF ToSet, SecretsOf
<1> QED
  BY <1>5, <1>8, <1>9

-----------------------------------------------------------------------------
(* In one namespace the controller reference names the writer.             *)
OwnerIsWriter ==
  /\ gateways = [g \in GatewayNames |-> gateways[g]]
  /\ \A g \in GatewayNames : gateways[g].owner = gateways[g].writer

OneNamespace == \A m \in Migrations : \A g \in GatewayNames : Local(m, g)

KeepsOwnerStep ==
  \A g \in GatewayNames :
    LET m == gateways[g].writer
    IN m # Nobody /\ Claims(m, stored[m], g)
         => gateways'[g] \in {gateways[g], NoGateway} \/ gateways'[g].writer = m

(* A Gateway that is there at first is nobody's.                           *)
LEMMA OwnerInit == Init => OwnerIsWriter
<1> SUFFICES ASSUME Init
             PROVE  OwnerIsWriter
  OBVIOUS
<1>1. gateways \in [GatewayNames -> {NoGateway} \union {Foreign(c) : c \in Classes}]
  BY DEF Init
<1>2. NoGateway.owner = Nobody /\ NoGateway.writer = Nobody
  BY DEF NoGateway
<1>3. ASSUME NEW c \in Classes
      PROVE  Foreign(c).owner = Nobody /\ Foreign(c).writer = Nobody
  BY <1>2 DEF Foreign, NoGateway
<1>4. ASSUME NEW g \in GatewayNames
      PROVE  gateways[g].owner = gateways[g].writer
  BY <1>1, <1>2, <1>3
<1> QED
  BY <1>1, <1>4 DEF OwnerIsWriter

(* Reconcile and the garbage collector alone touch Gateways.               *)
LEMMA OwnerNext ==
  ASSUME OneNamespace, OwnerIsWriter, [Next]_vars
  PROVE  OwnerIsWriter' /\ [KeepsOwnerStep]_vars
<1>1. ASSUME NEW m \in Migrations, EnsureGateway(m)
      PROVE  OwnerIsWriter' /\ KeepsOwnerStep
  <2> DEFINE g == DesiredGateway(m, cached[m])
  <2>1. CASE gateways' = gateways
    BY <2>1 DEF OwnerIsWriter, KeepsOwnerStep
  <2>2. CASE gateways' # gateways
    <3>1. /\ ~Refused(m, g)
          /\ gateways' = [gateways EXCEPT ![g] =
               [exists |-> TRUE, writer |-> m, class |-> cached[m].class,
                owner |-> IF Local(m, g) THEN m ELSE gateways[g].owner,
                listeners |-> BuildListeners(tls[m])]]
      BY <1>1, <2>2 DEF EnsureGateway
    <3>2. g \in GatewayNames
      BY <2>2, <3>1 DEF OwnerIsWriter
    <3>3. gateways[g].writer \in {Nobody, m}
      BY <3>1, <3>2 DEF OneNamespace, Refused, OwnerIsWriter
    <3> QED
      BY <3>1, <3>2, <3>3 DEF OwnerIsWriter, KeepsOwnerStep, OneNamespace
  <2> QED
    BY <2>1, <2>2
<1>2. ASSUME NEW g \in GatewayNames, Collect(g)
      PROVE  OwnerIsWriter' /\ KeepsOwnerStep
  BY <1>2 DEF Collect, OwnerIsWriter, KeepsOwnerStep, NoGateway
<1>3. CASE UNCHANGED gateways
  BY <1>3 DEF OwnerIsWriter, KeepsOwnerStep
<1>4. \/ \E m \in Migrations : EnsureGateway(m)
      \/ \E g \in GatewayNames : Collect(g)
      \/ UNCHANGED gateways
  BY DEF Next, vars, Submit, CheckGatewayClassExists, CheckGatewayNotAlreadyOwned, CheckFails, Persist,
         Delete, ChangeTLS, Deliver, DeleteClass
<1> QED
  BY <1>1, <1>2, <1>3, <1>4

(* Where Gateways live beside their TransferGWs no Gateway is overwritten  *)
(* by another TransferGW while its writer claims it, with or without the   *)
(* webhook, with any number of requests at once and however stale the      *)
(* cache: SetControllerReference refuses it                                *)
(* (transfergw_controller.go:465-467).                                     *)
THEOREM OwnersAreKept ==
  OneNamespace => (Spec => KeepsOwner)
<1> SUFFICES ASSUME OneNamespace
             PROVE  Spec => KeepsOwner
  OBVIOUS
<1>1. OwnerIsWriter /\ [Next]_vars => OwnerIsWriter' /\ [KeepsOwnerStep]_vars
  BY OwnerNext
<1>2. [KeepsOwnerStep]_vars => [\A g \in GatewayNames :
       LET m == gateways[g].writer
       IN m # Nobody /\ Claims(m, stored[m], g)
            => gateways'[g] \in {gateways[g], NoGateway} \/ gateways'[g].writer = m]_vars
  BY DEF KeepsOwnerStep
<1> QED
  BY OwnerInit, <1>1, <1>2, PTL DEF Spec, KeepsOwner

-----------------------------------------------------------------------------
(* Types.                                                                  *)

LEMMA GoneIs ==
  /\ Gone.paused = TRUE /\ Gone.generate = FALSE /\ Gone.gateway = Unset
BY DEF Gone

LEMMA SpecFields ==
  ASSUME NEW spec \in SpecType \union {Gone}
  PROVE  /\ spec.paused \in BOOLEAN /\ spec.generate \in BOOLEAN
         /\ spec.gateway \in GatewayNames \union {Unset}
         /\ spec # Gone => spec.class \in Classes
BY GoneIs DEF SpecType

LEMMA DesiredType ==
  ASSUME NEW m \in Migrations, NEW spec \in SpecType \union {Gone}
  PROVE  DesiredGateway(m, spec) \in GatewayNames
BY SpecFields, GatewaysAssumption DEF DesiredGateway

LEMMA ListenersType ==
  ASSUME NEW blocks \in TLSLists
  PROVE  Serves(BuildListeners(blocks), ToSet(blocks))
<1>1. blocks \in Seq(Secrets \union {NoSecret})
  BY GatewaysAssumption
<1> QED
  BY <1>1, EverySecretServed

LEMMA GatewaysInit == Init => TypeOK
<1> SUFFICES ASSUME Init
             PROVE  TypeOK
  OBVIOUS
<1>1. NoGateway \in GatewayType
  BY DEF NoGateway, GatewayType
<1>2. ASSUME NEW c \in Classes
      PROVE  Foreign(c) \in GatewayType
  BY <1>1, <1>2 DEF Foreign, NoGateway, GatewayType
<1>3. DOMAIN gateways = GatewayNames /\ \A g \in GatewayNames : gateways[g] \in GatewayType
  <2>1. gateways \in [GatewayNames -> {NoGateway} \union {Foreign(c) : c \in Classes}]
    BY DEF Init
  <2> QED
    BY <1>1, <1>2, <2>1
<1>4. NoRequest \in [stage : {"none", "class", "gateway", "admitted"}, spec : SpecType \union {Gone}]
  BY DEF NoRequest
<1> QED
  BY <1>3, <1>4 DEF Init, TypeOK

LEMMA PublishTypes ==
  ASSUME TypeOK, NEW m \in Migrations, NEW spec \in SpecType \union {Gone}, Publish(m, spec)
  PROVE  /\ stored' \in [Migrations -> SpecType \union {Gone}]
         /\ cached' \in [Migrations -> SpecType \union {Gone}]
         /\ behind' \subseteq Migrations /\ dirty' \subseteq Migrations
BY DEF Publish, TypeOK

LEMMA GatewaysNext ==
  ASSUME TypeOK, [Next]_vars
  PROVE  TypeOK'
<1>1. ASSUME NEW m \in Migrations, Submit(m)
      PROVE  TypeOK'
  <2>1. PICK spec \in Specs[m] : requests' = [requests EXCEPT ![m] = [stage |-> "class", spec |-> spec]]
    BY <1>1 DEF Submit
  <2>2. spec \in SpecType
    BY <2>1, GatewaysAssumption
  <2> QED
    BY <1>1, <2>1, <2>2 DEF Submit, Change, TypeOK
<1>2. ASSUME NEW m \in Migrations,
             CheckGatewayClassExists(m) \/ CheckGatewayNotAlreadyOwned(m) \/ CheckFails(m)
      PROVE  TypeOK'
  BY <1>2 DEF CheckGatewayClassExists, CheckGatewayNotAlreadyOwned, CheckFails, Pass, Refuse, NoRequest, TypeOK
<1>3. ASSUME NEW m \in Migrations, Persist(m)
      PROVE  TypeOK'
  BY <1>3, PublishTypes DEF Persist, NoRequest, TypeOK
<1>4. ASSUME NEW m \in Migrations, Delete(m)
      PROVE  TypeOK'
  BY <1>4, PublishTypes DEF Delete, Change, TypeOK
<1>5. ASSUME NEW m \in Migrations, EnsureGateway(m)
      PROVE  TypeOK'
  <2>1. dirty' \subseteq Migrations
    BY <1>5 DEF EnsureGateway, TypeOK
  <2>2. cached[m] \in SpecType \union {Gone} /\ tls[m] \in TLSLists
    BY DEF TypeOK
  <2>3. DOMAIN gateways' = GatewayNames /\ \A g \in GatewayNames : gateways'[g] \in GatewayType
    <3>1. CASE UNCHANGED gateways
      BY <3>1 DEF TypeOK
    <3>2. CASE ~UNCHANGED gateways
      <4> DEFINE own == DesiredGateway(m, cached[m])
                 new == [exists |-> TRUE, writer |-> m, class |-> cached[m].class,
                         owner |-> IF Local(m, own) THEN m ELSE gateways[own].owner,
                         listeners |-> BuildListeners(tls[m])]
      <4>1. gateways' = [gateways EXCEPT ![own] = new] /\ ~cached[m].paused
        BY <1>5, <3>2 DEF EnsureGateway
      <4>2. own \in GatewayNames /\ gateways[own] \in GatewayType
        BY <2>2, DesiredType DEF TypeOK
      <4>3. cached[m].class \in Classes
        BY <2>2, <4>1, SpecFields, GoneIs
      <4>4. BuildListeners(tls[m]) \in Seq(Secrets)
        BY <2>2, ListenersType DEF Serves
      <4>5. new \in GatewayType
        BY <4>2, <4>3, <4>4 DEF GatewayType
      <4> HIDE DEF new, own
      <4> QED
        BY <4>1, <4>2, <4>5 DEF TypeOK
    <3> QED
      BY <3>1, <3>2
  <2> QED
    BY <1>5, <2>1, <2>3 DEF EnsureGateway, TypeOK
<1>6. ASSUME NEW m \in Migrations, ChangeTLS(m)
      PROVE  TypeOK'
  BY <1>6 DEF ChangeTLS, Change, MigrationsForIngress, TypeOK
<1>7. ASSUME NEW m \in Migrations, Deliver(m)
      PROVE  TypeOK'
  BY <1>7 DEF Deliver, TypeOK
<1>8. CASE DeleteClass
  BY <1>8 DEF DeleteClass, Change, TypeOK
<1>9. ASSUME NEW g \in GatewayNames, Collect(g)
      PROVE  TypeOK'
  <2>1. NoGateway \in GatewayType
    BY DEF NoGateway, GatewayType
  <2> QED
    BY <1>9, <2>1 DEF Collect, TypeOK
<1>10. CASE UNCHANGED vars
  BY <1>10 DEF vars, TypeOK
<1> QED
  BY <1>1, <1>2, <1>3, <1>4, <1>5, <1>6, <1>7, <1>8, <1>9, <1>10 DEF Next

(* The tables of TransferGWs, requests and Gateways stay of their types,   *)
(* for any number of each, with or without lag; a Gateway's listeners are  *)
(* secrets, never a TLS block without one.                                 *)
THEOREM GatewaysTypes == Spec => []TypeOK
  BY GatewaysInit, GatewaysNext, PTL DEF Spec

-----------------------------------------------------------------------------
(* At rest.                                                                *)

(* m, as the cache has it, wants the controller to make its Gateway.       *)
Wanting(m) == stored[m].generate /\ ~stored[m].paused

(* Its Gateway is as the last reconcile left it, and m's.                  *)
Reconciled(m) ==
  LET g == DesiredGateway(m, stored[m])
  IN /\ gateways[g].exists /\ gateways[g].class = stored[m].class
     /\ gateways[g].listeners = BuildListeners(tls[m])
     /\ gateways[g].owner = m

AtRest ==
  \A m \in Migrations \ behind :
    /\ cached[m] = stored[m]
    /\ m \notin dirty /\ Wanting(m) => Reconciled(m)

(* A step that changes neither the Gateways nor what m asks for.           *)
LEMMA AtRestKept ==
  ASSUME AtRest, UNCHANGED gateways,
         \A m \in Migrations \ behind' :
           /\ m \notin behind => cached'[m] = stored'[m]
           /\ m \in behind => cached'[m] = stored'[m] /\ m \in dirty'
           /\ m \notin dirty' =>
                m \notin dirty /\ stored'[m] = stored[m] /\ tls'[m] = tls[m]
  PROVE  AtRest'
BY DEF AtRest, Wanting, Reconciled, DesiredGateway

LEMMA AtRestInit == Init => AtRest
BY GoneIs DEF Init, AtRest, Wanting

LEMMA AtRestNext ==
  ASSUME OneNamespace, TypeOK, AtRest, [Next]_vars
  PROVE  AtRest'
<1>1. ASSUME NEW m \in Migrations, NEW spec, Publish(m, spec), UNCHANGED <<gateways, tls>>
      PROVE  AtRest'
  BY <1>1, AtRestKept DEF Publish, AtRest, TypeOK
<1>2. ASSUME NEW m \in Migrations, Persist(m) \/ Delete(m)
      PROVE  AtRest'
  BY <1>1, <1>2 DEF Persist, Delete
<1>3. ASSUME NEW m \in Migrations, EnsureGateway(m)
      PROVE  AtRest'
  <2>1. stored[m] \in SpecType \union {Gone} /\ cached[m] \in SpecType \union {Gone}
    BY DEF TypeOK
  <2>2. UNCHANGED <<stored, cached, behind, tls>> /\ dirty' = dirty \ {m}
    BY <1>3 DEF EnsureGateway
  <2>3. CASE cached[m].paused \/ ~cached[m].generate
    <3>1. UNCHANGED gateways
      BY <1>3, <2>3 DEF EnsureGateway
    <3> QED
      BY <2>2, <2>3, <3>1 DEF AtRest, Wanting, Reconciled, DesiredGateway
  <2>4. CASE ~(cached[m].paused \/ ~cached[m].generate)
    <3> DEFINE g == DesiredGateway(m, cached[m])
               new == [exists |-> TRUE, writer |-> m, class |-> cached[m].class,
                       owner |-> IF Local(m, g) THEN m ELSE gateways[g].owner,
                       listeners |-> BuildListeners(tls[m])]
    <3>1. ~Refused(m, g) /\ gateways' = [gateways EXCEPT ![g] = new]
      BY <1>3, <2>4 DEF EnsureGateway
    <3>2. g \in GatewayNames /\ DOMAIN gateways = GatewayNames
      BY <2>1, DesiredType DEF TypeOK
    <3>3. gateways[g].owner \in {Nobody, m} /\ Local(m, g)
      BY <3>1, <3>2 DEF Refused, OneNamespace
    <3>4. /\ gateways'[g].exists /\ gateways'[g].class = cached[m].class
          /\ gateways'[g].listeners = BuildListeners(tls[m]) /\ gateways'[g].owner = m
      BY <3>1, <3>2, <3>3
    <3>5. \A h : h # g => gateways'[h] = gateways[h]
      BY <3>1
    <3> HIDE DEF new, g
    <3>6. ASSUME NEW n \in Migrations \ behind', n \notin dirty', Wanting(n)'
          PROVE  Reconciled(n)'
      <4>1. cached[n] = stored[n]
        BY <2>2, <3>6 DEF AtRest
      <4>2. CASE n = m
        BY <2>2, <3>4, <4>1, <4>2 DEF Reconciled, DesiredGateway, g
      <4>3. CASE n # m
        <5>1. Reconciled(n)
          BY <2>2, <3>6, <4>3 DEF AtRest, Wanting
        <5>2. DesiredGateway(n, stored[n]) # g
          BY <3>3, <4>3, <5>1, GatewaysAssumption DEF Reconciled
        <5> QED
          BY <2>2, <3>5, <5>1, <5>2 DEF Reconciled, DesiredGateway
      <4> QED
        BY <4>2, <4>3
    <3> QED
      BY <2>2, <3>6 DEF AtRest
  <2> QED
    BY <2>3, <2>4
<1>4. ASSUME NEW m \in Migrations, ChangeTLS(m)
      PROVE  AtRest'
  <2>1. /\ UNCHANGED <<stored, cached, behind, gateways>>
        /\ dirty' = dirty \union {n \in Migrations : cached[n] # Gone}
    BY <1>4 DEF ChangeTLS, MigrationsForIngress, Exists
  <2>2. ASSUME NEW n \in Migrations \ behind', n \notin dirty', Wanting(n)'
        PROVE  FALSE
    <3>1. stored[n] = Gone
      BY <2>1, <2>2 DEF AtRest
    <3> QED
      BY <2>1, <2>2, <3>1, GoneIs DEF Wanting
  <2> QED
    BY <2>1, <2>2 DEF AtRest
<1>5. ASSUME NEW m \in Migrations, Deliver(m)
      PROVE  AtRest'
  BY <1>5, AtRestKept DEF Deliver, AtRest, TypeOK
<1>6. ASSUME NEW g \in GatewayNames, Collect(g)
      PROVE  AtRest'
  <2>1. /\ UNCHANGED <<stored, cached, behind, dirty, tls>>
        /\ stored[gateways[g].owner] = Gone /\ gateways' = [gateways EXCEPT ![g] = NoGateway]
    BY <1>6 DEF Collect, Exists
  <2>2. ASSUME NEW n \in Migrations \ behind, n \notin dirty, Wanting(n)
        PROVE  Reconciled(n) /\ DesiredGateway(n, stored[n]) # g
    <3>1. Reconciled(n)
      BY <2>2 DEF AtRest
    <3>2. stored[n] # Gone
      BY <2>2, GoneIs DEF Wanting
    <3> QED
      BY <2>1, <3>1, <3>2 DEF Reconciled
  <2>3. \A h : h # g => gateways'[h] = gateways[h]
    BY <2>1
  <2> QED
    BY <2>1, <2>2, <2>3 DEF AtRest, Wanting, Reconciled, DesiredGateway
<1>7. CASE UNCHANGED <<stored, cached, behind, gateways, tls, dirty>>
  BY <1>7, AtRestKept DEF AtRest
<1> QED
  BY <1>2, <1>3, <1>4, <1>5, <1>6, <1>7
     DEF Next, vars, Submit, CheckGatewayClassExists, CheckGatewayNotAlreadyOwned, CheckFails,
         DeleteClass

(* Where Gateways live beside their TransferGWs, one with nothing queued   *)
(* or under way has its Gateway, with its class and a listener for every   *)
(* secret of its Ingresses: for any number of TransferGWs and Gateways,    *)
(* whatever races the webhook lost and however far the cache trails.       *)
THEOREM NothingIsForgotten ==
  OneNamespace => (Spec => []AtRestServed)
<1> SUFFICES ASSUME OneNamespace
             PROVE  Spec => []AtRestServed
  OBVIOUS
<1>1. TypeOK /\ AtRest => AtRestServed
  <2> SUFFICES ASSUME TypeOK, NEW m \in Migrations, Reconciled(m)
               PROVE  Served(m)
    BY DEF AtRest, AtRestServed, Wanting
  <2>1. Serves(BuildListeners(tls[m]), ToSet(tls[m]))
    BY ListenersType DEF TypeOK
  <2> QED
    BY <2>1 DEF Serves, Served, Reconciled
<1> QED
  BY <1>1, AtRestInit, AtRestNext, GatewaysTypes, PTL DEF Spec
=============================================================================
