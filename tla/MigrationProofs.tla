-------------------------- MODULE MigrationProofs --------------------------
(***************************************************************************)
(* What holds of Migration for every set of specs and outcomes, every      *)
(* bound and, unless MaxLag = 0 is assumed, every lag of the cache.        *)
(***************************************************************************)
EXTENDS Migration, RolloutProofs

-----------------------------------------------------------------------------
(* The operators keep their types.                                         *)

LEMMA SpecIsRollout ==
  ASSUME NEW spec \in SpecType
  PROVE  IsRollout(spec)
BY DEF SpecType, IsRollout, IsSchedule

LEMMA NewStatusType == NewStatus \in StatusType
<1>1. NoConditions \in ConditionsType
  BY DEF NoConditions, ConditionsType, ReadyType, HookConditionType
<1> QED
  BY <1>1 DEF NewStatus, StatusType, Phases, Percent

LEMMA IdleType == Idle \in ObjectType
<1>1. (CHOOSE s \in Specs : TRUE) \in Specs
  BY MigrationAssumption
<1> QED
  BY <1>1, NewStatusType, MigrationAssumption DEF Idle, ObjectType

LEMMA MergeType ==
  ASSUME NEW stored \in StatusType, NEW base \in StatusType, NEW new \in StatusType
  PROVE  Merge(stored, base, new) \in StatusType
BY DEF Merge, StatusType

LEMMA RecordedType ==
  ASSUME status \in StatusType, mig \in ObjectType, NEW s \in Stages, NEW ok \in BOOLEAN
  PROVE  Recorded(s, ok) \in StatusType
<1> DEFINE entry == [approved |-> ok, generation |-> mig.generation]
           hooks == [status.conditions.hooks EXCEPT ![s] = entry]
           conditions == [status.conditions EXCEPT !.hooks = hooks]
<1>1. entry \in HookConditionType
  BY DEF HookConditionType, ObjectType
<1>2. hooks \in [Stages -> HookConditionType]
  BY <1>1 DEF StatusType, ConditionsType
<1>3. conditions \in ConditionsType
  BY <1>2 DEF StatusType, ConditionsType
<1>4. [status EXCEPT !.conditions = conditions] \in StatusType
  BY <1>3 DEF StatusType
<1> QED
  BY <1>4 DEF Recorded

LEMMA ReportedType ==
  ASSUME NEW base \in StatusType, percentage \in Percent, NEW phase \in Phases,
         NEW reason, NEW shown, [reason |-> reason, shown |-> shown] \in ReadyType
  PROVE  Reported(base, phase, reason, shown) \in StatusType
BY DEF Reported, StatusType, ConditionsType

LEMMA PublishType ==
  ASSUME TypeOK, NEW object \in ObjectType, Publish(object)
  PROVE  server' \in ObjectType /\ cache' \in ObjectType /\ watch' \in Seq(ObjectType)
BY DEF Publish, TypeOK

LEMMA GrantType ==
  ASSUME TypeOK, NEW s \in Stages, NEW ok \in BOOLEAN, Grant(s, ok)
  PROVE  granted' \in [Stages -> SUBSET Nat]
BY DEF Grant, TypeOK, ObjectType

LEMMA ForgetType ==
  ASSUME ForgetLocals
  PROVE  /\ pc' \in Steps /\ mig' \in ObjectType /\ status' \in StatusType
         /\ percentage' \in Percent /\ awaiting' \in BOOLEAN
<1>1. 0 \in Percent /\ "idle" \in Steps
  BY DEF Percent, Steps
<1>2. awaiting' \in BOOLEAN
  BY DEF ForgetLocals
<1> QED
  BY <1>1, <1>2, IdleType, NewStatusType DEF ForgetLocals

LEMMA ScheduledType == TypeOK => Scheduled \in Percent
BY RolloutPercentageIsPercent, SpecIsRollout DEF TypeOK, Scheduled, ObjectType, StatusType

-----------------------------------------------------------------------------
(* Type correctness.                                                       *)

LEMMA InitType == Init => TypeOK
<1> SUFFICES ASSUME Init
             PROVE  TypeOK
  OBVIOUS
<1>1. server \in ObjectType
  BY NewStatusType, MigrationAssumption DEF Init, ObjectType
<1>2. 0 \in Percent /\ "idle" \in Steps /\ 0 \in Nat
  BY DEF Percent, Steps
<1>3. watch \in Seq(ObjectType) /\ granted \in [Stages -> SUBSET Nat]
  BY DEF Init
<1>4. queued \in BOOLEAN /\ awaiting \in BOOLEAN
  BY DEF Init
<1> QED
  BY <1>1, <1>2, <1>3, <1>4, IdleType, NewStatusType DEF Init, TypeOK

LEMMA NextType == TypeOK /\ [Next]_vars => TypeOK'
<1> SUFFICES ASSUME TypeOK, [Next]_vars
             PROVE  TypeOK'
  OBVIOUS
<1> USE DEF objectVars, localVars, worldVars, historyVars
<1>1. CASE Begin
  BY <1>1 DEF Begin, TypeOK, Steps, ObjectType
<1>2. ASSUME NEW ok \in BOOLEAN, PreConversion(ok)
      PROVE  TypeOK'
  <2>1. "PreConversion" \in Stages
    BY DEF Stages
  <2>2. Recorded("PreConversion", ok) \in StatusType
    BY <2>1, RecordedType DEF TypeOK
  <2>3. status' \in StatusType
    BY <1>2, <2>2 DEF PreConversion, StatusType, Phases
  <2>4. granted' \in [Stages -> SUBSET Nat]
    BY <1>2, <2>1, GrantType DEF PreConversion
  <2> QED
    BY <1>2, <2>3, <2>4 DEF PreConversion, TypeOK, Steps
<1>3. CASE Convert
  <2>1. status' \in StatusType
    BY <1>3, MigrationAssumption DEF Convert, TypeOK, StatusType, OutcomeType
  <2> QED
    BY <1>3, <2>1 DEF Convert, TypeOK, Steps
<1>4. ASSUME NEW ok \in BOOLEAN, PostConversion(ok)
      PROVE  TypeOK'
  <2>1. "PostConversion" \in Stages
    BY DEF Stages
  <2>2. status' \in StatusType
    BY <1>4, <2>1, RecordedType DEF PostConversion, TypeOK
  <2>3. granted' \in [Stages -> SUBSET Nat]
    BY <1>4, <2>1, GrantType DEF PostConversion
  <2> QED
    BY <1>4, <2>2, <2>3 DEF PostConversion, TypeOK, Steps
<1>5. ASSUME NEW ok \in BOOLEAN, PreRollout(ok)
      PROVE  TypeOK'
  <2>1. "PreRollout" \in Stages
    BY DEF Stages
  <2>2. status' \in StatusType
    BY <1>5, <2>1, RecordedType DEF PreRollout, TypeOK
  <2>3. granted' \in [Stages -> SUBSET Nat]
    BY <1>5, <2>1, GrantType DEF PreRollout, TypeOK
  <2>4. percentage' \in Percent
    <3>1. (IF ok THEN Scheduled ELSE 0) \in Percent
      BY ScheduledType DEF Percent
    <3>2. IsRollout(mig.spec)
      BY SpecIsRollout DEF TypeOK, ObjectType
    <3> QED
      BY <1>5, <3>1, <3>2, ApprovedShareBounds DEF PreRollout
  <2> QED
    BY <1>5, <2>2, <2>3, <2>4 DEF PreRollout, TypeOK, Steps
<1>6. ASSUME NEW phase \in Phases, NEW reason, NEW shown,
             [reason |-> reason, shown |-> shown] \in ReadyType,
             Report(phase, reason, shown)
      PROVE  TypeOK'
  <2>1. status' \in StatusType
    BY <1>6, ReportedType DEF Report, TypeOK
  <2> QED
    BY <1>6, <2>1 DEF Report, TypeOK, Steps
<1>7. CASE ReportAwaiting
  BY <1>6, <1>7 DEF ReportAwaiting, Phases, ReadyType
<1>8. CASE ReportNoIngresses
  <2>1. "Analyzing" \in Phases
    BY DEF Phases
  <2>2. [reason |-> "NoMatchingIngresses", shown |-> <<0, 0>>] \in ReadyType
    BY DEF ReadyType
  <2> QED
    BY <1>6, <1>8, <2>1, <2>2 DEF ReportNoIngresses
<1>9. CASE ReportFailed
  <2>1. status.total \in Nat
    BY DEF TypeOK, StatusType
  <2> QED
    BY <1>6, <1>9, <2>1 DEF ReportFailed, Phases, ReadyType
<1>10. ASSUME NEW ok \in BOOLEAN, ReportComplete(ok)
       PROVE  TypeOK'
  <2>1. "PostRollout" \in Stages
    BY DEF Stages
  <2>2. Recorded("PostRollout", ok) \in StatusType
    BY <2>1, RecordedType DEF TypeOK
  <2>3. [reason |-> "MigrationComplete", shown |-> <<status.converted, status.total>>]
          \in ReadyType
    BY DEF TypeOK, StatusType, ReadyType
  <2>4. status' \in StatusType
    BY <1>10, <2>2, <2>3, ReportedType DEF ReportComplete, TypeOK, Phases
  <2>5. granted' \in [Stages -> SUBSET Nat]
    BY <1>10, <2>1, GrantType DEF ReportComplete
  <2> QED
    BY <1>10, <2>4, <2>5 DEF ReportComplete, TypeOK, Steps
<1>11. CASE ReportUnchecked
  <2>1. percentage \in Nat
    BY DEF TypeOK, Percent
  <2> QED
    BY <1>6, <1>11, <2>1 DEF ReportUnchecked, Phases, ReadyType
<1>12. CASE ReportHealthy
  <2>1. [status EXCEPT !.nextHealthCheck = clock + HealthInterval] \in StatusType
    <3>1. clock + HealthInterval \in Nat
      BY MigrationAssumption DEF TypeOK
    <3> QED
      BY <3>1 DEF TypeOK, StatusType
  <2>2. [reason |-> "RolloutInProgress", shown |-> <<percentage, 0>>] \in ReadyType
    BY DEF TypeOK, Percent, ReadyType
  <2>3. status' \in StatusType
    BY <1>12, <2>1, <2>2, ReportedType DEF ReportHealthy, TypeOK, Phases
  <2> QED
    BY <1>12, <2>3 DEF ReportHealthy, TypeOK, Steps
<1>13. CASE RollBack
  <2>1. status' \in StatusType
    <3> DEFINE conditions == [ready |-> [reason |-> "HealthRollback", shown |-> <<0, 0>>],
                              rolledBack |-> "True",
                              hooks |-> status.conditions.hooks]
    <3>1. conditions \in ConditionsType
      BY DEF TypeOK, StatusType, ConditionsType, ReadyType
    <3>2. mig.generation \in Nat /\ clock + HealthInterval \in Nat
      BY MigrationAssumption DEF TypeOK, ObjectType
    <3>3. "RolledBack" \in Phases /\ 0 \in Percent
      BY DEF Phases, Percent
    <3>4. status' = [status EXCEPT !.phase = "RolledBack", !.completion = 0,
                       !.rollbackGeneration = mig.generation,
                       !.nextHealthCheck = clock + HealthInterval,
                       !.conditions = conditions]
      BY <1>13 DEF RollBack
    <3> QED
      BY <3>1, <3>2, <3>3, <3>4 DEF TypeOK, StatusType
  <2>2. alerted' \in SUBSET Nat
    BY <1>13 DEF RollBack, Alerted, TypeOK, ObjectType
  <2> QED
    BY <1>13, <2>1, <2>2 DEF RollBack, TypeOK, Steps, Percent
<1>14. ASSUME NEW base \in StatusType, Write(base)
       PROVE  TypeOK'
  <2> DEFINE object == [server EXCEPT !.status = Merge(server.status, base, status)]
  <2>1. object \in ObjectType
    BY MergeType DEF TypeOK, ObjectType
  <2>2. Publish(object)
    BY <1>14 DEF Write
  <2>3. server' \in ObjectType /\ cache' \in ObjectType /\ watch' \in Seq(ObjectType)
    BY <2>1, <2>2, PublishType
  <2>4. queued' \in BOOLEAN
    BY <1>14 DEF Write, TypeOK, Requeues, Notifies
  <2> QED
    BY <1>14, <2>3, <2>4, ForgetType DEF Write, TypeOK
<1>15. CASE PatchStatus
  BY <1>14, <1>15 DEF PatchStatus, TypeOK, ObjectType
<1>16. CASE RetryPatch
  BY <1>14, <1>16 DEF RetryPatch, TypeOK, ObjectType
<1>17. CASE PatchConflict
  BY <1>17 DEF PatchConflict, Fault, TypeOK, Steps
<1>18. CASE ConvertFails \/ PatchFails \/ Crash
  <2>1. ForgetLocals /\ faults' = faults + 1 /\ queued' = TRUE
        /\ UNCHANGED <<objectVars, worldVars, historyVars>>
    BY <1>18 DEF ConvertFails, PatchFails, Crash, Fault, ReturnError
  <2>2. faults' \in Nat
    BY <2>1 DEF TypeOK
  <2>3. queued' \in BOOLEAN
    BY <2>1
  <2> QED
    BY <2>1, <2>2, <2>3, ForgetType DEF TypeOK
<1>19. CASE EditSpec
  <2>1. PICK spec \in Specs \ {server.spec} :
          LET object == [server EXCEPT !.generation = @ + 1, !.spec = spec]
          IN Publish(object) /\ queued' = (queued \/ Notifies(object))
    BY <1>19 DEF EditSpec
  <2> DEFINE object == [server EXCEPT !.generation = @ + 1, !.spec = spec]
  <2>2. object \in ObjectType
    <3>1. spec \in SpecType /\ server.generation + 1 \in Nat
      BY MigrationAssumption DEF TypeOK, ObjectType
    <3> QED
      BY <3>1 DEF TypeOK, ObjectType
  <2>3. server' \in ObjectType /\ cache' \in ObjectType /\ watch' \in Seq(ObjectType)
    BY <2>1, <2>2, PublishType
  <2>4. queued' \in BOOLEAN
    BY <2>1 DEF TypeOK, Notifies
  <2> QED
    BY <1>19, <2>3, <2>4 DEF EditSpec, TypeOK
<1>20. CASE Deliver
  BY <1>20 DEF Deliver, TypeOK
<1>21. CASE ClusterChange
  <2>1. queued' \in BOOLEAN /\ changes' \in Nat /\ cluster' \in Outcomes
    BY <1>21 DEF ClusterChange, TypeOK
  <2> QED
    BY <1>21, <2>1 DEF ClusterChange, TypeOK
<1>22. CASE Wake
  <2>1. queued' \in BOOLEAN
    BY <1>22 DEF Wake
  <2> QED
    BY <1>22, <2>1 DEF Wake, TypeOK
<1>23. CASE Tick
  BY <1>23 DEF Tick, TypeOK
<1>24. CASE UNCHANGED vars
  BY <1>24 DEF vars, TypeOK
<1> QED
  BY <1>1, <1>2, <1>3, <1>4, <1>5, <1>7, <1>8, <1>9, <1>10, <1>11, <1>12, <1>13,
     <1>15, <1>16, <1>17, <1>18, <1>19, <1>20, <1>21, <1>22, <1>23, <1>24
  DEF Next, Reconcile, Hooked, Failure, Environment

(* Every variable keeps its type; in particular a stored or computed share *)
(* is a percentage, whatever the schedule overflows to.                    *)
THEOREM TypeCorrect == Spec => []TypeOK
BY InitType, NextType, PTL DEF Spec

-----------------------------------------------------------------------------
(* Honesty: what a copy of the object claims has happened.                 *)

LEMMA HonestMonotonic ==
  ASSUME NEW st, NEW gr, NEW al, NEW gr2, NEW al2, Honest(st, gr, al),
         \A s \in Stages : gr[s] \subseteq gr2[s], al \subseteq al2
  PROVE  Honest(st, gr2, al2)
<1>1. "PreRollout" \in Stages
  BY DEF Stages
<1> QED
  BY <1>1 DEF Honest

LEMMA NewStatusHonest ==
  ASSUME NEW gr, NEW al
  PROVE  Honest(NewStatus, gr, al)
BY DEF Honest, NewStatus, NoConditions

LEMMA MergeHonest ==
  ASSUME NEW stored \in StatusType, NEW base \in StatusType, NEW new \in StatusType,
         NEW gr, NEW al, Honest(stored, gr, al), Honest(new, gr, al)
  PROVE  Honest(Merge(stored, base, new), gr, al)
BY DEF Honest, Merge

LEMMA GrantGrows ==
  ASSUME TypeOK, NEW s \in Stages, NEW ok \in BOOLEAN, Grant(s, ok)
  PROVE  \A t \in Stages : granted[t] \subseteq granted'[t]
BY DEF Grant, TypeOK

(* What a hook's answer leaves is honest.                                  *)
LEMMA RecordedHonest ==
  ASSUME TypeOK, HonestCopies, NEW s \in Stages, NEW ok \in BOOLEAN, Grant(s, ok)
  PROVE  Honest(Recorded(s, ok), granted', alerted)
<1>1. Honest(status, granted', alerted)
  BY GrantGrows, HonestMonotonic DEF HonestCopies
<1>2. CASE Calls(s)
  <2> DEFINE entry == [approved |-> ok, generation |-> mig.generation]
             hooks == [status.conditions.hooks EXCEPT ![s] = entry]
             recorded == [status EXCEPT !.conditions.hooks[s] = entry]
  <2>1. status \in StatusType /\ status.conditions.hooks \in [Stages -> HookConditionType]
        /\ status.conditions \in ConditionsType
    BY DEF TypeOK, StatusType, ConditionsType
  <2>2. recorded.conditions.hooks = hooks
    BY <2>1 DEF StatusType, ConditionsType
  <2>3. recorded.completion = status.completion
        /\ recorded.rollbackGeneration = status.rollbackGeneration
    BY <2>1 DEF StatusType
  <2>4. ASSUME NEW t \in Stages, hooks[t].approved
        PROVE  hooks[t].generation \in granted'[t]
    <3>1. CASE t = s
      BY <1>2, <2>1, <2>4, <3>1 DEF Grant, TypeOK
    <3>2. CASE t # s
      BY <1>1, <2>1, <2>4, <3>2 DEF Honest
    <3> QED
      BY <3>1, <3>2
  <2>5. Honest(recorded, granted', alerted)
    BY <1>1, <2>2, <2>3, <2>4 DEF Honest
  <2> QED
    BY <1>2, <2>5 DEF Recorded
<1>3. CASE ~Calls(s)
  BY <1>1, <1>3 DEF Recorded
<1> QED
  BY <1>2, <1>3

(* A reported status claims no more than the percentage it reports.        *)
LEMMA ReportedHonest ==
  ASSUME NEW base \in StatusType, NEW phase, NEW reason, NEW shown, NEW gr, NEW al,
         Honest(base, gr, al), AllGated /\ percentage > 0 => gr["PreRollout"] # {}
  PROVE  Honest(Reported(base, phase, reason, shown), gr, al)
BY DEF Honest, Reported, StatusType, ConditionsType

HonestObject(object, gr, al) == object.spec \in Specs /\ Honest(object.status, gr, al)

(* A step that brings no copy but honest ones keeps all copies honest.     *)
LEMMA CopiesStayHonest ==
  ASSUME HonestCopies, NEW object, HonestObject(object, granted', alerted'),
         Copies' \subseteq Copies \union {object},
         \A s \in Stages : granted[s] \subseteq granted'[s], alerted \subseteq alerted'
  PROVE  \A o \in Copies' : HonestObject(o, granted', alerted')
BY HonestMonotonic DEF HonestCopies, HonestObject

LEMMA PublishCopies ==
  ASSUME TypeOK, NEW object \in ObjectType, Publish(object)
  PROVE  /\ server' = object /\ cache' \in {cache, object}
         /\ {watch'[i] : i \in DOMAIN watch'}
              \subseteq {watch[i] : i \in DOMAIN watch} \union {object}
BY DEF Publish, TypeOK

LEMMA IdleHonest ==
  ASSUME NEW gr, NEW al
  PROVE  HonestObject(Idle, gr, al)
BY NewStatusHonest, MigrationAssumption DEF Idle, HonestObject

LEMMA InitHonest == Init => HonestCopies
<1> SUFFICES ASSUME Init
             PROVE  HonestCopies
  OBVIOUS
<1>1. HonestObject(server, granted, alerted)
  BY NewStatusHonest DEF Init, HonestObject
<1>2. Copies \subseteq {server, Idle}
  BY DEF Init, Copies
<1>3. \A object \in Copies : HonestObject(object, granted, alerted)
  BY <1>1, <1>2, IdleHonest
<1>4. Honest(status, granted, alerted) /\ ~(percentage > 0)
  BY NewStatusHonest DEF Init
<1> QED
  BY <1>3, <1>4 DEF HonestCopies, HonestObject

(* The steps that leave the object alone and keep working on the same      *)
(* migration: only the working copy has to be looked at.                   *)
LEMMA LocalStepHonest ==
  ASSUME HonestCopies, UNCHANGED <<server, cache, watch, mig>>,
         \A s \in Stages : granted[s] \subseteq granted'[s], alerted \subseteq alerted',
         Honest(status', granted', alerted'),
         AllGated /\ percentage' > 0 => granted'["PreRollout"] # {}
  PROVE  HonestCopies'
<1>1. Copies' = Copies
  BY DEF Copies
<1>2. \A o \in Copies' : HonestObject(o, granted', alerted')
  BY <1>1, HonestMonotonic DEF HonestCopies, HonestObject
<1> QED
  BY <1>2 DEF HonestCopies, HonestObject, AllGated

LEMMA ForgettingHonest ==
  ASSUME HonestCopies, ForgetLocals, UNCHANGED <<granted, alerted>>,
         NEW object, HonestObject(object, granted, alerted),
         server' \in {server, object}, cache' \in {cache, object},
         {watch'[i] : i \in DOMAIN watch'}
           \subseteq {watch[i] : i \in DOMAIN watch} \union {object}
  PROVE  HonestCopies'
<1>1. Copies' \subseteq Copies \union {Idle, object}
  BY DEF Copies, ForgetLocals
<1>2. \A o \in Copies' : HonestObject(o, granted', alerted')
  BY <1>1, IdleHonest DEF HonestCopies, HonestObject
<1>3. Honest(status', granted', alerted') /\ percentage' = 0
  BY NewStatusHonest DEF ForgetLocals
<1> QED
  BY <1>2, <1>3 DEF HonestCopies, HonestObject

LEMMA NextHonest == TypeOK /\ HonestCopies /\ [Next]_vars => HonestCopies'
<1> SUFFICES ASSUME TypeOK, HonestCopies, [Next]_vars
             PROVE  HonestCopies'
  OBVIOUS
<1> USE DEF objectVars, localVars, worldVars, historyVars
<1>1. CASE Begin
  <2>1. CASE Skips(cache)
    BY <1>1, <2>1 DEF Begin, HonestCopies, Copies
  <2>2. CASE ~Skips(cache)
    <3>1. Copies' \subseteq Copies
      BY <1>1, <2>2 DEF Begin, Copies
    <3>2. Honest(status', granted', alerted')
      BY <1>1, <2>2 DEF Begin, HonestCopies, Copies
    <3> QED
      BY <1>1, <2>2, <3>1, <3>2 DEF Begin, HonestCopies
  <2> QED
    BY <2>1, <2>2
<1>2. ASSUME NEW ok \in BOOLEAN, PreConversion(ok)
      PROVE  HonestCopies'
  <2> DEFINE recorded == Recorded("PreConversion", ok)
  <2>1. "PreConversion" \in Stages /\ Grant("PreConversion", ok)
    BY <1>2 DEF Stages, PreConversion
  <2>2. recorded \in StatusType /\ Honest(recorded, granted', alerted)
    BY <2>1, RecordedType, RecordedHonest DEF TypeOK
  <2>3. status' = recorded \/ status' = [recorded EXCEPT !.phase = "Pending"]
    BY <1>2 DEF PreConversion
  <2>4. Honest(status', granted', alerted')
    BY <1>2, <2>2, <2>3 DEF PreConversion, Honest, StatusType
  <2>5. "PreRollout" \in Stages
    BY DEF Stages
  <2> QED
    BY <1>2, <2>1, <2>4, <2>5, GrantGrows, LocalStepHonest DEF PreConversion, HonestCopies
<1>3. CASE Convert
  <2>1. Honest(status', granted', alerted')
    BY <1>3 DEF Convert, HonestCopies, Honest, TypeOK, StatusType
  <2> QED
    BY <1>3, <2>1, LocalStepHonest DEF Convert, HonestCopies
<1>4. ASSUME NEW ok \in BOOLEAN, PostConversion(ok)
      PROVE  HonestCopies'
  <2>1. "PostConversion" \in Stages /\ "PreRollout" \in Stages
    BY DEF Stages
  <2>2. Honest(status', granted', alerted')
    BY <1>4, <2>1, RecordedHonest DEF PostConversion
  <2> QED
    BY <1>4, <2>1, <2>2, GrantGrows, LocalStepHonest DEF PostConversion, HonestCopies
<1>5. ASSUME NEW ok \in BOOLEAN, PreRollout(ok)
      PROVE  HonestCopies'
  <2>1. "PreRollout" \in Stages
    BY DEF Stages
  <2>2. \A s \in Stages : granted[s] \subseteq granted'[s]
    BY <1>5, <2>1, GrantGrows DEF PreRollout
  <2>3. Honest(status', granted', alerted')
    BY <1>5, <2>1, RecordedHonest DEF PreRollout, HonestCopies
  <2>4. ASSUME AllGated, percentage' > 0
        PROVE  granted'["PreRollout"] # {}
    <3>1. mig.spec \in Specs /\ Honest(status, granted, alerted)
      BY DEF HonestCopies, Copies
    <3>2. "PreRollout" \in mig.spec.hooks
      BY <2>4, <3>1 DEF AllGated
    <3>3. ok /\ Scheduled > 0
      <4>1. IsRollout(mig.spec) /\ Scheduled \in Percent
        BY SpecIsRollout, ScheduledType DEF TypeOK, ObjectType
      <4>2. (IF ok THEN Scheduled ELSE 0) \in Percent
        BY <4>1 DEF Percent
      <4>3. percentage' <= (IF ok THEN Scheduled ELSE 0) /\ percentage' \in Percent
        BY <1>5, <4>1, <4>2, ApprovedShareBounds DEF PreRollout
      <4> QED
        BY <2>4, <4>1, <4>3 DEF Percent
    <3>4. CASE Calls("PreRollout")
      BY <1>5, <2>1, <3>3, <3>4 DEF PreRollout, Grant, TypeOK
    <3>5. CASE ~Calls("PreRollout")
      <4>1. ApprovedBefore("PreRollout")
        BY <3>2, <3>5 DEF Calls
      <4>2. mig.generation \in granted["PreRollout"]
        BY <2>1, <3>1, <4>1 DEF ApprovedBefore, Honest
      <4> QED
        BY <2>1, <2>2, <4>2
    <3> QED
      BY <3>4, <3>5
  <2> QED
    BY <1>5, <2>2, <2>3, <2>4, LocalStepHonest DEF PreRollout
<1>6. ASSUME NEW phase, NEW reason, NEW shown, Report(phase, reason, shown)
      PROVE  HonestCopies'
  <2>1. Honest(status', granted', alerted')
    BY <1>6, ReportedHonest DEF Report, HonestCopies, TypeOK
  <2> QED
    BY <1>6, <2>1, LocalStepHonest DEF Report, HonestCopies
<1>7. CASE ReportAwaiting \/ ReportNoIngresses \/ ReportFailed \/ ReportUnchecked
  BY <1>6, <1>7 DEF ReportAwaiting, ReportNoIngresses, ReportFailed, ReportUnchecked
<1>8. ASSUME NEW ok \in BOOLEAN, ReportComplete(ok)
      PROVE  HonestCopies'
  <2>1. "PostRollout" \in Stages /\ "PreRollout" \in Stages
    BY DEF Stages
  <2>2. \A s \in Stages : granted[s] \subseteq granted'[s]
    BY <1>8, <2>1, GrantGrows DEF ReportComplete
  <2>3. AllGated /\ percentage > 0 => granted'["PreRollout"] # {}
    BY <2>1, <2>2 DEF HonestCopies
  <2>4. Recorded("PostRollout", ok) \in StatusType
        /\ Honest(Recorded("PostRollout", ok), granted', alerted)
    BY <1>8, <2>1, RecordedType, RecordedHonest DEF ReportComplete, TypeOK
  <2>5. Honest(status', granted', alerted')
    BY <1>8, <2>3, <2>4, ReportedHonest DEF ReportComplete
  <2> QED
    BY <1>8, <2>2, <2>3, <2>5, LocalStepHonest DEF ReportComplete
<1>9. CASE ReportHealthy
  <2> DEFINE base == [status EXCEPT !.nextHealthCheck = clock + HealthInterval]
  <2>1. base \in StatusType
    <3>1. clock + HealthInterval \in Nat
      BY MigrationAssumption DEF TypeOK
    <3> QED
      BY <3>1 DEF TypeOK, StatusType
  <2>2. Honest(base, granted, alerted)
    BY DEF HonestCopies, Honest, TypeOK, StatusType
  <2>3. Honest(status', granted', alerted')
    BY <1>9, <2>1, <2>2, ReportedHonest DEF ReportHealthy, HonestCopies
  <2> QED
    BY <1>9, <2>3, LocalStepHonest DEF ReportHealthy, HonestCopies
<1>10. CASE RollBack
  <2>1. alerted \subseteq alerted' /\ (AllAlerting => mig.generation \in alerted')
    BY <1>10 DEF RollBack, Alerted, AllAlerting, HonestCopies, Copies
  <2>2. Honest(status', granted', alerted')
    <3>1. status'.conditions.hooks = status.conditions.hooks
          /\ status'.completion = 0 /\ status'.rollbackGeneration = mig.generation
      BY <1>10 DEF RollBack, TypeOK, StatusType, ConditionsType
    <3> QED
      BY <1>10, <2>1, <3>1 DEF RollBack, Honest, HonestCopies
  <2> QED
    BY <1>10, <2>1, <2>2, LocalStepHonest DEF RollBack, HonestCopies
<1>11. ASSUME NEW base \in StatusType, Write(base)
       PROVE  HonestCopies'
  <2> DEFINE object == [server EXCEPT !.status = Merge(server.status, base, status)]
  <2>1. HonestObject(server, granted, alerted) /\ Honest(status, granted, alerted)
    BY DEF HonestCopies, Copies, HonestObject
  <2>2. Merge(server.status, base, status) \in StatusType
        /\ Honest(Merge(server.status, base, status), granted, alerted)
    BY <2>1, MergeType, MergeHonest DEF TypeOK, ObjectType, HonestObject
  <2>3. object \in ObjectType /\ HonestObject(object, granted, alerted)
    BY <2>1, <2>2 DEF TypeOK, ObjectType, HonestObject
  <2>4. Publish(object) /\ ForgetLocals /\ UNCHANGED <<granted, alerted>>
    BY <1>11 DEF Write
  <2> QED
    BY <2>3, <2>4, PublishCopies, ForgettingHonest
<1>12. CASE PatchStatus
  BY <1>11, <1>12 DEF PatchStatus, TypeOK, ObjectType
<1>13. CASE RetryPatch
  BY <1>11, <1>13 DEF RetryPatch, TypeOK, ObjectType
<1>14. CASE PatchConflict
  BY <1>14 DEF PatchConflict, HonestCopies, Copies
<1>15. CASE ConvertFails \/ PatchFails \/ Crash
  <2>1. ForgetLocals /\ UNCHANGED <<server, cache, watch, granted, alerted>>
    BY <1>15 DEF ConvertFails, PatchFails, Crash, ReturnError
  <2> QED
    BY <2>1, IdleHonest, ForgettingHonest
<1>16. CASE EditSpec
  <2>1. PICK spec \in Specs \ {server.spec} :
          Publish([server EXCEPT !.generation = @ + 1, !.spec = spec])
    BY <1>16 DEF EditSpec
  <2> DEFINE object == [server EXCEPT !.generation = @ + 1, !.spec = spec]
  <2>2. object \in ObjectType
    <3>1. spec \in SpecType /\ server.generation + 1 \in Nat
      BY MigrationAssumption DEF TypeOK, ObjectType
    <3> QED
      BY <3>1 DEF TypeOK, ObjectType
  <2>3. HonestObject(object, granted, alerted)
    BY DEF HonestCopies, Copies, HonestObject, TypeOK, ObjectType
  <2>4. Copies' \subseteq Copies \union {object}
    BY <1>16, <2>1, <2>2, PublishCopies DEF EditSpec, Copies
  <2>5. \A o \in Copies' : HonestObject(o, granted', alerted')
    BY <1>16, <2>3, <2>4 DEF EditSpec, HonestCopies, HonestObject
  <2> QED
    BY <1>16, <2>5 DEF EditSpec, HonestCopies, HonestObject
<1>17. CASE Deliver
  <2>1. cache' \in {watch[i] : i \in DOMAIN watch}
        /\ {watch'[i] : i \in DOMAIN watch'} \subseteq {watch[i] : i \in DOMAIN watch}
    BY <1>17 DEF Deliver, TypeOK
  <2>2. Copies' \subseteq Copies
    BY <1>17, <2>1 DEF Deliver, Copies
  <2> QED
    BY <1>17, <2>2 DEF Deliver, HonestCopies
<1>18. CASE ClusterChange \/ Wake \/ Tick
  BY <1>18 DEF ClusterChange, Wake, Tick, HonestCopies, Copies
<1>19. CASE UNCHANGED vars
  BY <1>19 DEF vars, HonestCopies, Copies
<1> QED
  BY <1>1, <1>2, <1>3, <1>4, <1>5, <1>7, <1>8, <1>9, <1>10, <1>12, <1>13, <1>14, <1>15,
     <1>16, <1>17, <1>18, <1>19
  DEF Next, Reconcile, Hooked, Failure, Environment

LEMMA AlwaysHonest == Spec => []HonestCopies
BY TypeCorrect, InitHonest, NextHonest, PTL DEF Spec

(* With a PreRollout hook on every spec, traffic is on the Gateway only    *)
(* after the hook approved, however much the cache lags, patches fail and  *)
(* the controller restarts.                                                *)
THEOREM TrafficIsApproved == Spec => []NoTrafficUnapproved
<1>1. HonestCopies => NoTrafficUnapproved
  BY DEF HonestCopies, Copies, Honest, NoTrafficUnapproved
<1> QED
  BY <1>1, AlwaysHonest, PTL

(* With alerting on every spec, no rollback is stored without its alert.   *)
THEOREM RollbacksAreAlerted == Spec => []NoSilentRollback
<1>1. HonestCopies => NoSilentRollback
  BY DEF HonestCopies, Copies, Honest, NoSilentRollback
<1> QED
  BY <1>1, AlwaysHonest, PTL

-----------------------------------------------------------------------------
(* Holding a rollback, with a cache that does not lag.                     *)

LEMMA MergeInSync ==
  ASSUME NEW stored \in StatusType, NEW new \in StatusType
  PROVE  Merge(stored, stored, new) = new
BY DEF Merge, StatusType

LEMMA InitInSync == Init => InSync
<1> SUFFICES ASSUME Init
             PROVE  InSync
  OBVIOUS
<1>1. server.generation = 1 /\ server.status.rollbackGeneration = 0
  <2>1. PICK spec \in Specs : server = [generation |-> 1, spec |-> spec, status |-> NewStatus]
    BY DEF Init
  <2> QED
    BY <2>1 DEF NewStatus
<1>2. server.status.rollbackGeneration <= server.generation
  BY <1>1
<1>3. cache = server /\ watch = <<>> /\ pc = "idle"
  BY DEF Init
<1> QED
  BY <1>2, <1>3 DEF InSync

LEMMA WriteInSync ==
  ASSUME TypeOK, InSync, pc # "idle", MaxLag = 0,
         NEW base, base \in {mig.status, cache.status}, Write(base)
  PROVE  /\ server' = [server EXCEPT !.status = status]
         /\ cache' = server' /\ watch' = <<>> /\ pc' = "idle"
<1>1. base = server.status
  BY DEF InSync
<1>2. server.status \in StatusType /\ status \in StatusType
  BY DEF TypeOK, ObjectType
<1>3. Merge(server.status, base, status) = status
  BY <1>1, <1>2, MergeInSync
<1>4. Publish([server EXCEPT !.status = status]) /\ ForgetLocals
  BY <1>3 DEF Write
<1> QED
  BY <1>4 DEF Publish, ForgetLocals, InSync

(* A step within Reconcile that does not touch the object.                 *)
LEMMA LocalStepInSync ==
  ASSUME InSync, pc # "idle", UNCHANGED <<server, cache, watch, mig>>,
         status'.rollbackGeneration <= mig.generation
  PROVE  InSync'
BY DEF InSync, Skips, Held

LEMMA RecordedRollback ==
  ASSUME TypeOK, NEW s \in Stages, NEW ok \in BOOLEAN
  PROVE  Recorded(s, ok).rollbackGeneration = status.rollbackGeneration
BY DEF Recorded, TypeOK, StatusType

LEMMA ReportedRollback ==
  ASSUME NEW base \in StatusType, NEW phase, NEW reason, NEW shown
  PROVE  Reported(base, phase, reason, shown).rollbackGeneration \in {0, base.rollbackGeneration}
BY DEF Reported, StatusType

LEMMA NextInSync == MaxLag = 0 /\ TypeOK /\ InSync /\ [Next]_vars => InSync'
<1> SUFFICES ASSUME MaxLag = 0, TypeOK, InSync, [Next]_vars
             PROVE  InSync'
  OBVIOUS
<1> USE DEF objectVars, localVars, worldVars, historyVars
<1>a. mig.generation \in Nat /\ server.generation \in Nat
      /\ status.rollbackGeneration \in Nat /\ status \in StatusType
  BY DEF TypeOK, ObjectType, StatusType
<1>1. CASE Begin
  BY <1>1 DEF Begin, InSync, TypeOK, ObjectType
<1>2. ASSUME NEW ok \in BOOLEAN, PreConversion(ok)
      PROVE  InSync'
  <2>1. "PreConversion" \in Stages
    BY DEF Stages
  <2>2. Recorded("PreConversion", ok) \in StatusType
    BY <2>1, RecordedType DEF TypeOK
  <2>3. status'.rollbackGeneration = status.rollbackGeneration
    BY <1>2, <2>1, <2>2, RecordedRollback DEF PreConversion, StatusType
  <2> QED
    BY <1>2, <2>3, LocalStepInSync DEF PreConversion, InSync
<1>3. CASE Convert
  BY <1>3, <1>a, LocalStepInSync DEF Convert, InSync, StatusType
<1>4. ASSUME NEW ok \in BOOLEAN, PostConversion(ok)
      PROVE  InSync'
  <2>1. "PostConversion" \in Stages
    BY DEF Stages
  <2> QED
    BY <1>4, <2>1, RecordedRollback, LocalStepInSync DEF PostConversion, InSync
<1>5. ASSUME NEW ok \in BOOLEAN, PreRollout(ok)
      PROVE  InSync'
  <2>1. "PreRollout" \in Stages
    BY DEF Stages
  <2> QED
    BY <1>5, <2>1, RecordedRollback, LocalStepInSync DEF PreRollout, InSync
<1>6. ASSUME NEW phase, NEW reason, NEW shown, Report(phase, reason, shown)
      PROVE  InSync'
  BY <1>6, <1>a, ReportedRollback, LocalStepInSync DEF Report, InSync
<1>7. CASE ReportAwaiting \/ ReportNoIngresses \/ ReportFailed \/ ReportUnchecked
  BY <1>6, <1>7 DEF ReportAwaiting, ReportNoIngresses, ReportFailed, ReportUnchecked
<1>8. ASSUME NEW ok \in BOOLEAN, ReportComplete(ok)
      PROVE  InSync'
  <2>1. "PostRollout" \in Stages
    BY DEF Stages
  <2>2. Recorded("PostRollout", ok) \in StatusType
    BY <2>1, RecordedType DEF TypeOK
  <2> QED
    BY <1>8, <1>a, <2>1, <2>2, RecordedRollback, ReportedRollback, LocalStepInSync
    DEF ReportComplete, InSync
<1>9. CASE ReportHealthy
  <2> DEFINE base == [status EXCEPT !.nextHealthCheck = clock + HealthInterval]
  <2>1. base \in StatusType /\ base.rollbackGeneration = status.rollbackGeneration
    <3>1. clock + HealthInterval \in Nat
      BY MigrationAssumption DEF TypeOK
    <3> QED
      BY <3>1, <1>a DEF StatusType
  <2>2. status'.rollbackGeneration \in {0, status.rollbackGeneration}
    BY <1>9, <2>1, ReportedRollback DEF ReportHealthy
  <2> QED
    BY <1>9, <1>a, <2>2, LocalStepInSync DEF ReportHealthy, InSync
<1>10. CASE RollBack
  <2>1. status'.rollbackGeneration = mig.generation
    BY <1>10, <1>a DEF RollBack, StatusType
  <2> QED
    BY <1>10, <1>a, <2>1, LocalStepInSync DEF RollBack
<1>11. CASE PatchStatus \/ RetryPatch
  <2>1. PICK base \in {mig.status, cache.status} : pc # "idle" /\ Write(base)
    BY <1>11 DEF PatchStatus, RetryPatch
  <2>2. server' = [server EXCEPT !.status = status]
        /\ cache' = server' /\ watch' = <<>> /\ pc' = "idle"
    BY <2>1, WriteInSync
  <2>3. server'.status = status /\ server'.generation = server.generation
    BY <2>2 DEF TypeOK, ObjectType
  <2> QED
    BY <1>a, <2>1, <2>2, <2>3 DEF InSync
<1>12. CASE PatchConflict
  BY <1>12, LocalStepInSync DEF PatchConflict, InSync
<1>13. CASE ConvertFails \/ PatchFails \/ Crash
  BY <1>13 DEF ConvertFails, PatchFails, Crash, ReturnError, ForgetLocals, InSync
<1>14. CASE EditSpec
  <2>1. PICK spec \in Specs : Publish([server EXCEPT !.generation = @ + 1, !.spec = spec])
    BY <1>14 DEF EditSpec
  <2>2. server' = [server EXCEPT !.generation = @ + 1, !.spec = spec]
        /\ cache' = server' /\ watch' = <<>>
    BY <2>1 DEF Publish, InSync
  <2>3. server'.status = server.status /\ server'.generation = server.generation + 1
    BY <2>2 DEF TypeOK, ObjectType
  <2>4. server.status.rollbackGeneration \in Nat
    BY DEF TypeOK, ObjectType, StatusType
  <2>5. server'.status.rollbackGeneration <= server'.generation
    BY <1>a, <2>3, <2>4 DEF InSync
  <2>6. ASSUME pc' # "idle"
        PROVE  /\ mig'.status = server'.status /\ ~Skips(mig')
               /\ mig'.generation <= server'.generation
               /\ server'.status.rollbackGeneration <= mig'.generation
               /\ status'.rollbackGeneration <= mig'.generation
    <3>1. UNCHANGED <<pc, mig, status>>
      BY <1>14 DEF EditSpec
    <3>2. mig.generation <= server.generation + 1
      BY <1>a, <2>6, <3>1 DEF InSync
    <3> QED
      BY <2>3, <2>6, <3>1, <3>2 DEF InSync
  <2> QED
    BY <2>2, <2>5, <2>6 DEF InSync, Skips, Held
<1>15. CASE Deliver
  BY <1>15 DEF Deliver, InSync
<1>16. CASE ClusterChange \/ Wake \/ Tick
  BY <1>16 DEF ClusterChange, Wake, Tick, InSync, Skips, Held
<1>17. CASE UNCHANGED vars
  BY <1>17 DEF vars, InSync, Skips, Held
<1> QED
  BY <1>1, <1>2, <1>3, <1>4, <1>5, <1>7, <1>8, <1>9, <1>10, <1>11, <1>12, <1>13, <1>14,
     <1>15, <1>16, <1>17
  DEF Next, Reconcile, Hooked, Failure, Environment

(* With a cache that does not lag, a rollback recorded for the current     *)
(* generation freezes the status until the spec is edited.                 *)
THEOREM RollbackIsHeld == MaxLag = 0 => (Spec => RollbackHolds)
<1> SUFFICES ASSUME MaxLag = 0
             PROVE  Spec => RollbackHolds
  OBVIOUS
<1> DEFINE RolledBack == /\ server.status.phase = "RolledBack"
                         /\ server.status.rollbackGeneration = server.generation
           Frozen == RolledBack /\ server'.generation = server.generation
                       => server'.status = server.status
<1>1. TypeOK /\ InSync /\ [Next]_vars => [Frozen]_vars
  <2> SUFFICES ASSUME TypeOK, InSync, Next, RolledBack,
                      server'.generation = server.generation
               PROVE  server'.status = server.status
    OBVIOUS
  <2> USE DEF objectVars, localVars, worldVars, historyVars
  <2>1. pc = "idle"
    <3> SUFFICES ASSUME pc # "idle"
                 PROVE  FALSE
      OBVIOUS
    <3>1. mig.generation = server.status.rollbackGeneration
      BY DEF InSync, TypeOK, ObjectType, StatusType
    <3> QED
      BY <3>1 DEF InSync, Skips, Held
  <2>2. CASE EditSpec
    <3>1. PICK spec \in Specs : Publish([server EXCEPT !.generation = @ + 1, !.spec = spec])
      BY <2>2 DEF EditSpec
    <3>2. server'.status = server.status
      BY <3>1 DEF Publish, TypeOK, ObjectType
    <3> QED
      BY <3>2
  <2>3. CASE UNCHANGED server
    BY <2>3
  <2> QED
    BY <2>1, <2>2, <2>3
    DEF Next, Reconcile, Hooked, Failure, Environment, Begin, PreConversion, Convert,
        PostConversion, PreRollout, ReportAwaiting, ReportNoIngresses, ReportFailed,
        ReportUnchecked, Report, ReportComplete, ReportHealthy, RollBack, PatchStatus,
        RetryPatch, ConvertFails, PatchConflict, PatchFails, Crash, Deliver,
        ClusterChange, Wake, Tick
<1>2. Spec => []InSync
  BY InitInSync, NextInSync, TypeCorrect, PTL DEF Spec
<1> QED
  BY <1>1, <1>2, TypeCorrect, PTL DEF Spec, RollbackHolds
=============================================================================
