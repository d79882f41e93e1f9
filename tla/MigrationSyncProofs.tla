------------------------ MODULE MigrationSyncProofs ------------------------
(***************************************************************************)
(* What holds of Migration when the controller's cache does not trail the  *)
(* API server, for every set of specs and outcomes and every bound: what   *)
(* is stored agrees with itself and was permitted, hooks are asked once,   *)
(* a pause freezes, and TrafficSplit is implemented.                       *)
(***************************************************************************)
EXTENDS MigrationProofs

LEMMA AlwaysInSync ==
  ASSUME MaxLag = 0
  PROVE  Spec => [](TypeOK /\ InSync)
BY InitInSync, NextInSync, TypeCorrect, PTL DEF Spec

-----------------------------------------------------------------------------
(* The steps that change the stored object.                                *)

(* A patch stores the working copy as it is.                               *)
LEMMA PatchStores ==
  ASSUME MaxLag = 0, TypeOK, InSync, PatchStatus \/ RetryPatch
  PROVE  /\ pc \in {"patch", "retry"} /\ pc' = "idle"
         /\ server'.status = status /\ server'.generation = server.generation
         /\ server'.spec = server.spec
         /\ UNCHANGED <<faults, historyVars>>
<1>1. PICK base \in {mig.status, cache.status} : pc \in {"patch", "retry"} /\ Write(base)
  BY DEF PatchStatus, RetryPatch
<1>2. server' = [server EXCEPT !.status = status] /\ pc' = "idle"
  BY <1>1, WriteInSync
<1> QED
  BY <1>1, <1>2 DEF TypeOK, ObjectType, Write

LEMMA EditKeepsStatus ==
  ASSUME TypeOK, EditSpec
  PROVE  /\ server'.status = server.status
         /\ server'.generation = server.generation + 1 /\ server'.spec \in Specs
         /\ UNCHANGED <<pc, localVars, worldVars, faults, historyVars>>
<1>1. PICK spec \in Specs : Publish([server EXCEPT !.generation = @ + 1, !.spec = spec])
  BY DEF EditSpec
<1> QED
  BY <1>1 DEF EditSpec, Publish, TypeOK, ObjectType

(* A step that is neither leaves it alone.                                 *)
LEMMA OthersLeaveIt ==
  ASSUME [Next]_vars, ~(PatchStatus \/ RetryPatch), ~EditSpec
  PROVE  UNCHANGED server
BY DEF Next, Reconcile, Hooked, Failure, Environment, Begin, PreConversion, Convert,
       PostConversion, PreRollout, ReportAwaiting, ReportNoIngresses, ReportFailed,
       ReportUnchecked, Report, ReportComplete, ReportHealthy, RollBack, ConvertFails,
       PatchConflict, PatchFails, Crash, Deliver, ClusterChange, Wake, Tick, vars, objectVars

(* The counts of a status.                                                 *)
Counted(new, old) ==
  /\ new.completion = old.completion /\ new.total = old.total
  /\ new.converted = old.converted /\ new.failed = old.failed

LEMMA RecordedCounted ==
  ASSUME TypeOK, NEW s, NEW ok
  PROVE  Counted(Recorded(s, ok), status)
BY DEF Recorded, Counted, TypeOK, StatusType

LEMMA CountTypes ==
  ASSUME TypeOK
  PROVE  /\ percentage \in Nat /\ server.status.completion \in Nat
         /\ status.converted \in Nat /\ status.total \in Nat
<1>1. server.status \in StatusType /\ status \in StatusType /\ percentage \in Percent
  BY DEF TypeOK, ObjectType
<1>2. server.status.completion \in Percent /\ status.converted \in Nat /\ status.total \in Nat
  BY <1>1 DEF StatusType
<1> QED
  BY <1>1, <1>2 DEF Percent

LEMMA GrantsRemain ==
  ASSUME TypeOK, NEW s \in Stages, NEW ok \in BOOLEAN, Grant(s, ok)
  PROVE  granted["PreRollout"] \subseteq granted'["PreRollout"]
BY GrantGrows DEF Stages

-----------------------------------------------------------------------------
(* What is stored.                                                         *)

LEMMA InitSettled == Init => Settled
<1> SUFFICES ASSUME Init
             PROVE  Settled
  OBVIOUS
<1>1. PICK spec \in Specs : server = [generation |-> 1, spec |-> spec, status |-> NewStatus]
  BY DEF Init
<1>2. server.generation = 1 /\ server.status = NewStatus /\ pc = "idle"
  BY <1>1 DEF Init
<1>3. Coherent(NewStatus)
  BY DEF Coherent, NewStatus
<1> QED
  BY <1>2, <1>3 DEF Settled

(* Traffic needs a whole conversion.                                       *)
LEMMA ScheduledNeedsConversion ==
  ASSUME Scheduled > 0, TypeOK
  PROVE  status.converted > 0 /\ status.failed = 0
<1>1. status.converted \in Nat /\ status.failed \in Nat
  BY DEF TypeOK, StatusType
<1> QED
  BY <1>1 DEF Scheduled, RolloutPercentage

(* What Reconcile reports is fit to be stored.                             *)
LEMMA ReportedSettled ==
  ASSUME TypeOK, Settled, pc = "report", pc' = "patch", UNCHANGED <<server, mig, percentage>>,
         granted["PreRollout"] \subseteq granted'["PreRollout"],
         NEW base \in StatusType, Counted(base, status), NEW phase, NEW reason, NEW shown,
         status' = Reported(base, phase, reason, shown),
         phase = "Complete" => percentage >= 100 /\ reason = "MigrationComplete",
         phase # "RolledBack",
         phase \in {"Failed", "Analyzing"} => status.total = 0 \/ status.converted = 0
  PROVE  Settled'
<1>1. /\ status'.phase = phase /\ status'.completion = percentage
      /\ status'.converted = status.converted /\ status'.failed = status.failed
      /\ status'.conditions.ready.reason = reason
  BY DEF Reported, Counted, StatusType
<1>2. status.converted <= status.total
      /\ (percentage > 0 => status.converted > 0 /\ status.failed = 0 /\ Permitted(percentage))
  BY DEF Settled
<1>3. percentage \in Nat /\ status.converted \in Nat /\ status.total \in Nat
      /\ server.status.completion \in Nat
  BY CountTypes
<1>4. phase \in {"Failed", "Analyzing"} => percentage = 0
  BY <1>2, <1>3
<1>5. Coherent(status')
  BY <1>1, <1>2, <1>4 DEF Coherent
<1>6. percentage > 0 => Permitted(percentage)'
  BY <1>2 DEF Permitted
<1>7. (status.completion > server.status.completion => Permitted(status.completion))'
  BY <1>1, <1>3, <1>6 DEF Permitted
<1> QED
  BY <1>1, <1>5, <1>7 DEF Settled

(* A step within Reconcile that only moves on.                             *)
LEMMA LocalStepSettled ==
  ASSUME Settled, pc # "idle", UNCHANGED <<server, mig>>,
         pc' \in {"convert", "postConversion", "preRollout"},
         pc' \in {"postConversion", "preRollout"} => status'.converted <= status'.total
  PROVE  Settled'
BY DEF Settled

LEMMA NextSettled ==
  MaxLag = 0 /\ TypeOK /\ InSync /\ HonestCopies /\ Settled /\ [Next]_vars => Settled'
<1> SUFFICES ASSUME MaxLag = 0, TypeOK, InSync, HonestCopies, Settled, [Next]_vars
             PROVE  Settled'
  OBVIOUS
<1> USE DEF objectVars, localVars, worldVars, historyVars
<1>1. CASE Begin
  <2>1. CASE Skips(cache)
    BY <1>1, <2>1 DEF Begin, Settled, Permitted
  <2>2. CASE ~Skips(cache)
    BY <1>1, <2>2 DEF Begin, Settled, InSync
  <2> QED
    BY <2>1, <2>2
<1>2. ASSUME NEW ok \in BOOLEAN, PreConversion(ok)
      PROVE  Settled'
  <2>1. CASE ok
    BY <1>2, <2>1, LocalStepSettled DEF PreConversion
  <2>2. CASE ~ok
    <3> DEFINE recorded == Recorded("PreConversion", ok)
    <3>1. recorded \in StatusType /\ Counted(recorded, status)
      BY RecordedType, RecordedCounted DEF TypeOK, Stages
    <3>2. status' = [recorded EXCEPT !.phase = "Pending"] /\ pc' = "patch"
          /\ UNCHANGED <<server, mig>> /\ status = server.status
      BY <1>2, <2>2 DEF PreConversion, Settled
    <3>3. status'.phase = "Pending" /\ Counted(status', server.status)
      BY <3>1, <3>2 DEF Counted, StatusType
    <3>4. Coherent(status')
      BY <3>3 DEF Settled, Coherent, Counted
    <3>5. ~(status'.completion > server'.status.completion)
      <4>1. server.status.completion \in Nat
        BY CountTypes
      <4> QED
        BY <3>2, <3>3, <4>1 DEF Counted
    <3> QED
      BY <1>2, <3>2, <3>3, <3>4, <3>5 DEF PreConversion, Settled
  <2> QED
    BY <2>1, <2>2
<1>3. CASE Convert
  <2>1. cluster.converted + cluster.failed <= cluster.total
        /\ cluster.converted \in Nat /\ cluster.failed \in Nat /\ cluster.total \in Nat
    BY MigrationAssumption DEF TypeOK, OutcomeType
  <2>2. status'.converted <= status'.total
    BY <1>3, <2>1 DEF Convert, TypeOK, StatusType
  <2> QED
    BY <1>3, <2>2, LocalStepSettled DEF Convert
<1>4. ASSUME NEW ok \in BOOLEAN, PostConversion(ok)
      PROVE  Settled'
  <2>1. status'.converted <= status'.total
    BY <1>4, RecordedCounted DEF PostConversion, Counted, Settled
  <2> QED
    BY <1>4, <2>1, LocalStepSettled DEF PostConversion
<1>5. ASSUME NEW ok \in BOOLEAN, PreRollout(ok)
      PROVE  Settled'
  <2>1. Counted(status', status) /\ UNCHANGED <<server, mig>> /\ pc = "preRollout"
        /\ pc' = "report"
    BY <1>5, RecordedCounted DEF PreRollout, Counted
  <2>2. status'.converted <= status'.total
    BY <2>1 DEF Counted, Settled
  <2>3. ASSUME percentage' > 0
        PROVE  status'.converted > 0 /\ status'.failed = 0 /\ Permitted(percentage)'
    <3>1. IsRollout(mig.spec) /\ Scheduled \in Percent
      BY SpecIsRollout, ScheduledType DEF TypeOK, ObjectType
    <3>2. (IF ok THEN Scheduled ELSE 0) \in Percent
      BY <3>1 DEF Percent
    <3>3. percentage' <= (IF ok THEN Scheduled ELSE 0) /\ percentage' \in Percent
          /\ (mig.spec.requireApproval => percentage' <= mig.spec.approved)
      BY <1>5, <3>1, <3>2, ApprovedShareBounds DEF PreRollout
    <3>4. ok /\ Scheduled > 0
      BY <2>3, <3>1, <3>3 DEF Percent
    <3>5. status'.converted > 0 /\ status'.failed = 0
      BY <2>1, <3>4, ScheduledNeedsConversion DEF Counted
    <3>6. ASSUME "PreRollout" \in mig.spec.hooks
          PROVE  mig.generation \in granted'["PreRollout"]
      <4>1. Grant("PreRollout", ok) /\ "PreRollout" \in Stages
        BY <1>5, <3>4 DEF PreRollout, Stages
      <4>2. CASE Calls("PreRollout")
        BY <3>4, <4>1, <4>2 DEF Grant, TypeOK
      <4>3. CASE ~Calls("PreRollout")
        <5>1. ApprovedBefore("PreRollout") /\ Honest(status, granted, alerted)
          BY <3>6, <4>3 DEF Calls, HonestCopies
        <5>2. mig.generation \in granted["PreRollout"]
          BY <4>1, <5>1 DEF ApprovedBefore, Honest
        <5> QED
          BY <4>1, <5>2, GrantsRemain
      <4> QED
        BY <4>2, <4>3
    <3> QED
      BY <2>1, <3>3, <3>5, <3>6 DEF Permitted
  <2> QED
    BY <2>1, <2>2, <2>3 DEF Settled
<1>6. ASSUME NEW phase, NEW reason, NEW shown, Report(phase, reason, shown),
             phase \notin {"Complete", "RolledBack"},
             phase \in {"Failed", "Analyzing"} => status.total = 0 \/ status.converted = 0
      PROVE  Settled'
  <2>1. Counted(status, status) /\ status \in StatusType
    BY DEF Counted, TypeOK
  <2> QED
    BY <1>6, <2>1, ReportedSettled DEF Report
<1>7. CASE ReportAwaiting \/ ReportNoIngresses \/ ReportFailed \/ ReportUnchecked
  BY <1>6, <1>7 DEF ReportAwaiting, ReportNoIngresses, ReportFailed, ReportUnchecked,
                    NothingConverted
<1>8. ASSUME NEW ok \in BOOLEAN, ReportComplete(ok)
      PROVE  Settled'
  <2>1. "PostRollout" \in Stages
    BY DEF Stages
  <2>2. Recorded("PostRollout", ok) \in StatusType
        /\ Counted(Recorded("PostRollout", ok), status)
        /\ granted["PreRollout"] \subseteq granted'["PreRollout"]
    BY <1>8, <2>1, RecordedType, RecordedCounted, GrantsRemain DEF ReportComplete, TypeOK
  <2> QED
    BY <1>8, <2>2, ReportedSettled DEF ReportComplete
<1>9. CASE ReportHealthy
  <2> DEFINE base == [status EXCEPT !.nextHealthCheck = clock + HealthInterval]
  <2>1. clock + HealthInterval \in Nat
    BY MigrationAssumption DEF TypeOK
  <2>2. base \in StatusType /\ Counted(base, status)
    BY <2>1 DEF TypeOK, StatusType, Counted
  <2> QED
    BY <1>9, <2>2, ReportedSettled DEF ReportHealthy
<1>10. CASE RollBack
  <2>1. status'.phase = "RolledBack" /\ status'.completion = 0
        /\ status'.rollbackGeneration = mig.generation
        /\ status'.conditions.rolledBack = "True"
    BY <1>10 DEF RollBack, TypeOK, StatusType
  <2>2. server.status.completion \in Nat
    BY CountTypes
  <2>3. Coherent(status') /\ ~(status'.completion > server.status.completion)
    BY <2>1, <2>2 DEF Coherent
  <2> QED
    BY <1>10, <2>1, <2>3 DEF RollBack, Settled
<1>11. CASE PatchStatus \/ RetryPatch
  BY <1>11, PatchStores DEF Settled
<1>12. CASE PatchConflict
  BY <1>12 DEF PatchConflict, Settled, Permitted
<1>13. CASE ConvertFails \/ PatchFails \/ Crash
  BY <1>13 DEF ConvertFails, PatchFails, Crash, ReturnError, ForgetLocals, Settled
<1>14. CASE EditSpec
  <2>1. mig.generation \in Nat /\ server.generation \in Nat
    BY DEF TypeOK, ObjectType
  <2>2. pc # "idle" => mig.generation <= server.generation
    BY DEF InSync
  <2>3. server'.generation >= 1 /\ (pc # "idle" => mig.generation # server'.generation)
    BY <1>14, <2>1, <2>2, EditKeepsStatus
  <2> QED
    BY <1>14, <2>3, EditKeepsStatus DEF Settled, Permitted
<1>15. CASE Deliver \/ ClusterChange \/ Wake \/ Tick \/ UNCHANGED vars
  BY <1>15 DEF Deliver, ClusterChange, Wake, Tick, vars, Settled, Permitted
<1> QED
  BY <1>1, <1>2, <1>3, <1>4, <1>5, <1>7, <1>8, <1>9, <1>10, <1>11, <1>12, <1>13, <1>14,
     <1>15
  DEF Next, Reconcile, Hooked, Failure, Environment

LEMMA AlwaysSettled ==
  ASSUME MaxLag = 0
  PROVE  Spec => [](TypeOK /\ InSync /\ HonestCopies /\ Settled)
BY AlwaysInSync, AlwaysHonest, InitSettled, NextSettled, PTL DEF Spec

(* With a cache that does not lag the fields of the stored status agree,   *)
(* though they are worked out over a whole pass and written as a patch.    *)
THEOREM StoredCoherently ==
  ASSUME MaxLag = 0
  PROVE  Spec => []StatusCoherent
<1>1. Settled => StatusCoherent
  BY DEF Settled, StatusCoherent
<1> QED
  BY <1>1, AlwaysSettled, PTL

(* With a cache that does not lag, a share that rises was permitted for    *)
(* the spec Reconcile read, by its hook and by its approval.               *)
THEOREM RaisesArePermitted ==
  ASSUME MaxLag = 0
  PROVE  Spec => RaisesAreApproved
<1> DEFINE Raise == server'.status.completion > server.status.completion
<1>1. ASSUME TypeOK, InSync, Settled, [Next]_vars, Raise
      PROVE  Permitted(server'.status.completion)
  <2>1. server.status.completion \in Nat
    BY <1>1, CountTypes
  <2>2. CASE PatchStatus \/ RetryPatch
    BY <1>1, <2>2, PatchStores DEF Settled
  <2>3. CASE EditSpec
    BY <1>1, <2>1, <2>3, EditKeepsStatus
  <2>4. CASE UNCHANGED server
    BY <1>1, <2>1, <2>4
  <2> QED
    BY <1>1, <2>2, <2>3, <2>4, OthersLeaveIt
<1>2. TypeOK /\ InSync /\ Settled /\ [Next]_vars
        => [Raise => Permitted(server'.status.completion)]_vars
  BY <1>1
<1> QED
  BY <1>2, AlwaysSettled, PTL DEF Spec, RaisesAreApproved

(* With a cache that does not lag, a paused migration is written only by a *)
(* pass that read the spec before the pause.                               *)
THEOREM PauseIsKept ==
  ASSUME MaxLag = 0
  PROVE  Spec => PauseFreezes
<1> DEFINE Written == server.spec.paused /\ server'.status # server.status
<1>1. ASSUME TypeOK, InSync, Settled, [Next]_vars, Written
      PROVE  mig.generation < server.generation
  <2>1. CASE PatchStatus \/ RetryPatch
    <3>1. pc # "idle"
      BY <1>1, <2>1, PatchStores
    <3>2. mig.generation # server.generation
      BY <1>1, <3>1 DEF InSync, Skips, Settled
    <3>3. mig.generation \in Nat /\ server.generation \in Nat
      BY <1>1 DEF TypeOK, ObjectType
    <3> QED
      BY <1>1, <3>1, <3>2, <3>3 DEF InSync
  <2>2. CASE EditSpec
    BY <1>1, <2>2, EditKeepsStatus
  <2> QED
    BY <1>1, <2>1, <2>2, OthersLeaveIt
<1>2. TypeOK /\ InSync /\ Settled /\ [Next]_vars
        => [Written => mig.generation < server.generation]_vars
  BY <1>1
<1> QED
  BY <1>2, AlwaysSettled, PTL DEF Spec, PauseFreezes

-----------------------------------------------------------------------------
(* Hooks are asked once.                                                   *)

Hooks(st) == st.conditions.hooks

LEMMA RecordedHooks ==
  ASSUME TypeOK, NEW s \in Stages, NEW ok \in BOOLEAN
  PROVE  Hooks(Recorded(s, ok)) =
           IF Calls(s)
           THEN [Hooks(status) EXCEPT ![s] = [approved |-> ok, generation |-> mig.generation]]
           ELSE Hooks(status)
BY DEF Recorded, Hooks, TypeOK, StatusType, ConditionsType

(* A stage's answer goes on record with its approval.                      *)
LEMMA AnswerOnRecord ==
  ASSUME TypeOK, InSync, OnRecord, NEW s \in Stages, NEW ok \in BOOLEAN, Grant(s, ok),
         pc # "idle", pc' # "idle", UNCHANGED <<server, mig, faults>>,
         Hooks(status') = Hooks(Recorded(s, ok))
  PROVE  OnRecord'
<1> SUFFICES ASSUME faults = 0, NEW t \in Stages, NEW g \in granted'[t]
             PROVE  /\ g <= server.generation /\ g <= mig.generation
                    /\ g = mig.generation
                         => Hooks(status')[t] = [approved |-> TRUE, generation |-> g]
  BY DEF OnRecord, Hooks
<1>1. Hooks(status) \in [Stages -> HookConditionType] /\ granted \in [Stages -> SUBSET Nat]
      /\ mig.generation \in Nat /\ server.generation \in Nat
      /\ mig.generation <= server.generation
  BY DEF Hooks, TypeOK, StatusType, ConditionsType, ObjectType, InSync
<1>2. ASSUME g \in granted[t]
      PROVE  /\ g <= server.generation /\ g <= mig.generation
             /\ g = mig.generation
                  => Hooks(status)[t] = [approved |-> TRUE, generation |-> g]
  BY <1>2 DEF OnRecord, Hooks
<1>3. CASE Calls(s) /\ t = s
  <2>1. Hooks(status')[t] = [approved |-> ok, generation |-> mig.generation]
    BY <1>1, <1>3, RecordedHooks
  <2>2. ~(g \in granted[t] /\ g = mig.generation)
    BY <1>2, <1>3 DEF Calls, ApprovedBefore, Hooks
  <2>3. CASE g \in granted[t]
    BY <1>2, <2>2, <2>3
  <2>4. CASE g \notin granted[t]
    <3>1. ok = TRUE /\ g = mig.generation
      BY <1>1, <1>3, <2>4 DEF Grant
    <3>2. [approved |-> ok, generation |-> mig.generation]
            = [approved |-> TRUE, generation |-> g]
      BY <3>1
    <3>3. g <= server.generation /\ g <= mig.generation
      BY <1>1, <3>1
    <3> QED
      BY <2>1, <3>2, <3>3
  <2> QED
    BY <2>3, <2>4
<1>4. CASE ~(Calls(s) /\ t = s)
  <2>1. Hooks(status')[t] = Hooks(status)[t]
    BY <1>1, <1>4, RecordedHooks
  <2>2. g \in granted[t]
    BY <1>1, <1>4 DEF Grant
  <2> QED
    BY <1>2, <2>1, <2>2
<1> QED
  BY <1>3, <1>4

(* A step that asks no hook and leaves the record alone.                   *)
LEMMA RecordKept ==
  ASSUME OnRecord, UNCHANGED <<server, mig, faults, granted>>,
         pc' = "idle" <=> pc = "idle",
         pc # "idle" => Hooks(status') = Hooks(status)
  PROVE  OnRecord'
BY DEF OnRecord, Hooks

LEMMA NextOnRecord ==
  MaxLag = 0 /\ TypeOK /\ InSync /\ OnRecord /\ [Next]_vars => OnRecord'
<1> SUFFICES ASSUME MaxLag = 0, TypeOK, InSync, OnRecord, [Next]_vars
             PROVE  OnRecord'
  OBVIOUS
<1> USE DEF objectVars, localVars, worldVars, historyVars
<1>1. CASE Begin
  <2>1. CASE Skips(cache)
    BY <1>1, <2>1, RecordKept DEF Begin
  <2>2. CASE ~Skips(cache)
    <3>1. mig' = server /\ status' = server.status /\ pc = "idle" /\ pc' = "preConversion"
          /\ UNCHANGED <<server, granted, faults>>
      BY <1>1, <2>2 DEF Begin, InSync
    <3> QED
      BY <3>1 DEF OnRecord
  <2> QED
    BY <2>1, <2>2
<1>2. ASSUME NEW ok \in BOOLEAN, PreConversion(ok)
      PROVE  OnRecord'
  <2> DEFINE recorded == Recorded("PreConversion", ok)
  <2>1. "PreConversion" \in Stages /\ recorded \in StatusType
    BY RecordedType DEF TypeOK, Stages
  <2>2. Hooks(status') = Hooks(recorded)
    BY <1>2, <2>1 DEF PreConversion, Hooks, StatusType
  <2> HIDE DEF recorded
  <2> QED
    BY <1>2, <2>1, <2>2, AnswerOnRecord DEF PreConversion, recorded
<1>3. ASSUME NEW ok \in BOOLEAN, PostConversion(ok)
      PROVE  OnRecord'
  BY <1>3, AnswerOnRecord DEF PostConversion, Stages
<1>4. ASSUME NEW ok \in BOOLEAN, PreRollout(ok)
      PROVE  OnRecord'
  <2>1. CASE Scheduled > 0
    BY <1>4, <2>1, AnswerOnRecord DEF PreRollout, Stages
  <2>2. CASE ~(Scheduled > 0)
    BY <1>4, <2>2, RecordKept DEF PreRollout
  <2> QED
    BY <2>1, <2>2
<1>5. ASSUME NEW ok \in BOOLEAN, ReportComplete(ok)
      PROVE  OnRecord'
  <2>1. "PostRollout" \in Stages /\ Recorded("PostRollout", ok) \in StatusType
    BY RecordedType DEF TypeOK, Stages
  <2>2. Hooks(status') = Hooks(Recorded("PostRollout", ok))
    BY <1>5, <2>1 DEF ReportComplete, Reported, Hooks, StatusType
  <2> QED
    BY <1>5, <2>1, <2>2, AnswerOnRecord DEF ReportComplete
<1>6. CASE Convert \/ RollBack \/ ReportHealthy
  <2>1. status \in StatusType
    BY DEF TypeOK
  <2>2. CASE Convert
    BY <2>1, <2>2, RecordKept DEF Convert, Hooks, StatusType
  <2>3. CASE RollBack
    BY <2>1, <2>3, RecordKept DEF RollBack, Hooks, StatusType
  <2>4. CASE ReportHealthy
    BY <2>1, <2>4, RecordKept DEF ReportHealthy, Reported, Hooks, StatusType
  <2> QED
    BY <1>6, <2>2, <2>3, <2>4
<1>7. CASE ReportAwaiting \/ ReportNoIngresses \/ ReportFailed \/ ReportUnchecked
  <2>1. PICK phase, reason, shown : Report(phase, reason, shown)
    BY <1>7 DEF ReportAwaiting, ReportNoIngresses, ReportFailed, ReportUnchecked
  <2>2. Hooks(status') = Hooks(status)
    BY <2>1 DEF Report, Reported, Hooks, TypeOK, StatusType
  <2> QED
    BY <2>1, <2>2, RecordKept DEF Report
<1>8. CASE PatchStatus \/ RetryPatch
  <2>1. /\ pc # "idle" /\ pc' = "idle" /\ server'.status = status
        /\ server'.generation = server.generation /\ UNCHANGED <<faults, granted>>
    BY <1>8, PatchStores
  <2>2. mig.generation <= server.generation /\ mig.generation \in Nat
        /\ server.generation \in Nat /\ granted \in [Stages -> SUBSET Nat]
    BY <2>1 DEF InSync, TypeOK, ObjectType
  <2> SUFFICES ASSUME faults' = 0, NEW s \in Stages, NEW g \in granted'[s]
               PROVE  /\ g <= server'.generation
                      /\ g = server'.generation
                           => Hooks(server'.status)[s] = [approved |-> TRUE, generation |-> g]
    BY <2>1 DEF OnRecord, Hooks
  <2>3. /\ g <= mig.generation /\ g \in Nat
        /\ g = mig.generation => Hooks(status)[s] = [approved |-> TRUE, generation |-> g]
    BY <2>1, <2>2 DEF OnRecord, Hooks
  <2> QED
    BY <2>1, <2>2, <2>3
<1>9. CASE ConvertFails \/ PatchConflict \/ PatchFails \/ Crash
  <2>1. faults \in Nat /\ faults' = faults + 1
    BY <1>9 DEF ConvertFails, PatchConflict, PatchFails, Crash, Fault, TypeOK
  <2>2. faults' # 0
    BY <2>1
  <2> QED
    BY <2>2 DEF OnRecord
<1>10. CASE EditSpec
  <2>1. server'.generation = server.generation + 1 /\ server.generation \in Nat
        /\ UNCHANGED <<pc, mig, status, faults, granted>> /\ granted \in [Stages -> SUBSET Nat]
    BY <1>10, EditKeepsStatus DEF TypeOK, ObjectType
  <2>2. ASSUME faults = 0, NEW s \in Stages, NEW g \in granted[s]
        PROVE  g <= server'.generation /\ g # server'.generation
    <3>1. g <= server.generation /\ g \in Nat
      BY <2>1, <2>2 DEF OnRecord
    <3> QED
      BY <2>1, <3>1
  <2> QED
    BY <2>1, <2>2 DEF OnRecord
<1>11. CASE Deliver \/ ClusterChange \/ Wake \/ Tick \/ UNCHANGED vars
  BY <1>11, RecordKept DEF Deliver, ClusterChange, Wake, Tick, vars
<1> QED
  BY <1>1, <1>2, <1>3, <1>4, <1>5, <1>6, <1>7, <1>8, <1>9, <1>10, <1>11
  DEF Next, Reconcile, Hooked, Failure, Environment

(* With a cache that does not lag, and nothing lost, a hook that approved  *)
(* a generation is not called for it again.                                *)
THEOREM HooksAskedOnce ==
  ASSUME MaxLag = 0
  PROVE  Spec => []ApprovedOnce
<1>1. Init => OnRecord
  BY DEF Init, OnRecord
<1>2. TypeOK /\ OnRecord => ApprovedOnce
  <2> SUFFICES ASSUME OnRecord, NEW s \in Stages, Asking(s), faults = 0,
                      mig.generation \in granted[s]
               PROVE  FALSE
    BY DEF ApprovedOnce
  <2>1. pc # "idle" /\ Calls(s)
    BY DEF Asking
  <2>2. ApprovedBefore(s)
    BY <2>1 DEF OnRecord, ApprovedBefore
  <2> QED
    BY <2>1, <2>2 DEF Calls
<1> QED
  BY <1>1, <1>2, NextOnRecord, AlwaysInSync, PTL DEF Spec

-----------------------------------------------------------------------------
(* Refinement.                                                             *)

HeldGeneration ==
  IF server.status.phase = "RolledBack" THEN server.status.rollbackGeneration ELSE 0

LEMMA InitRefines == Init => Split!SplitInit
<1> SUFFICES ASSUME Init
             PROVE  Split!SplitInit
  OBVIOUS
<1>1. PICK spec \in Specs : server = [generation |-> 1, spec |-> spec, status |-> NewStatus]
  BY DEF Init
<1>2. server.generation = 1 /\ server.status = NewStatus /\ granted["PreRollout"] = {}
  BY <1>1 DEF Init, Stages
<1>3. NewStatus.completion = 0 /\ NewStatus.phase = ""
  BY DEF NewStatus
<1>4. server.status.completion = 0 /\ server.status.phase # "RolledBack"
  BY <1>2, <1>3
<1> QED
  BY <1>2, <1>4 DEF Split!SplitInit

(* A pass that runs is not held by a rollback.                             *)
LEMMA RunsFree ==
  ASSUME TypeOK, InSync, Settled, pc # "idle"
  PROVE  HeldGeneration # server.generation
<1>1. /\ mig.generation \in Nat /\ server.generation \in Nat
      /\ server.status.rollbackGeneration \in Nat
  BY DEF TypeOK, ObjectType, StatusType
<1>2. CASE server.status.phase = "RolledBack"
  BY <1>1, <1>2 DEF HeldGeneration, InSync, Skips, Held
<1>3. CASE server.status.phase # "RolledBack"
  BY <1>3 DEF HeldGeneration, Settled
<1> QED
  BY <1>2, <1>3

(* A patch is a move of the share or a rollback.                           *)
LEMMA PatchRefines ==
  ASSUME MaxLag = 0, TypeOK, InSync, Settled, HonestCopies, PatchStatus \/ RetryPatch
  PROVE  Split!Move \/ Split!RollBackTo0
<1>1. /\ pc \in {"patch", "retry"} /\ server'.status = status
      /\ server'.generation = server.generation /\ granted' = granted
  BY PatchStores DEF historyVars
<1>2. Split!Free
  BY <1>1, RunsFree DEF Split!Free, HeldGeneration
<1>3. status.completion \in 0..100 /\ Honest(status, granted, alerted) /\ Coherent(status)
  BY <1>1 DEF TypeOK, StatusType, Percent, HonestCopies, Settled
<1>4. CASE status.phase = "RolledBack"
  <2>1. status.completion = 0 /\ status.rollbackGeneration = mig.generation
    BY <1>1, <1>3, <1>4 DEF Coherent, Settled
  <2>2. mig.generation \in 1..server.generation
    BY <1>1 DEF TypeOK, ObjectType, InSync, Settled
  <2> QED
    BY <1>1, <1>2, <1>4, <2>1, <2>2 DEF Split!RollBackTo0
<1>5. CASE status.phase # "RolledBack"
  <2>1. AllGated /\ status.completion > server.status.completion => granted["PreRollout"] # {}
    <3>1. server.status.completion \in Nat /\ status.completion \in Nat
      BY <1>3, CountTypes
    <3> QED
      BY <1>3, <3>1 DEF Honest
  <2> QED
    BY <1>1, <1>2, <1>3, <1>5, <2>1 DEF Split!Move
<1> QED
  BY <1>4, <1>5

(* A hook's answer is an approval or nothing the abstraction sees.         *)
LEMMA GrantRefines ==
  ASSUME TypeOK, InSync, Settled, pc # "idle", UNCHANGED server,
         NEW s \in Stages, NEW ok \in BOOLEAN, Grant(s, ok)
  PROVE  Split!Approve \/ UNCHANGED Split!splitVars
<1>1. "PreRollout" \in Stages
  BY DEF Stages
<1>2. mig.generation \in 1..server.generation
  BY DEF TypeOK, ObjectType, InSync, Settled
<1>3. granted'["PreRollout"] \in
        {granted["PreRollout"], granted["PreRollout"] \union {mig.generation}}
  BY <1>1 DEF Grant, TypeOK
<1> QED
  BY <1>2, <1>3 DEF Split!Approve, Split!splitVars

LEMMA NextRefines ==
  ASSUME MaxLag = 0, TypeOK, InSync, Settled, HonestCopies, [Next]_vars
  PROVE  [Split!SplitNext]_(Split!splitVars)
<1>1. ASSUME NEW ok \in BOOLEAN, Hooked(ok)
      PROVE  Split!Approve \/ UNCHANGED Split!splitVars
  <2>1. pc # "idle" /\ UNCHANGED server
    BY <1>1 DEF Hooked, PreConversion, PostConversion, PreRollout, ReportComplete, objectVars
  <2>2. (\E s \in Stages : Grant(s, ok)) \/ UNCHANGED granted
    BY <1>1 DEF Hooked, PreConversion, PostConversion, PreRollout, ReportComplete, Stages
  <2>3. UNCHANGED granted => UNCHANGED Split!splitVars
    BY <2>1 DEF Split!splitVars
  <2> QED
    BY <2>1, <2>2, <2>3, GrantRefines
<1>2. CASE PatchStatus \/ RetryPatch
  BY <1>2, PatchRefines DEF Split!SplitNext
<1>3. CASE EditSpec
  <2>1. server'.status = server.status /\ server'.generation = server.generation + 1
        /\ granted' = granted
    BY <1>3, EditKeepsStatus DEF historyVars
  <2> QED
    BY <2>1 DEF Split!SplitNext, Split!Edit
<1>4. CASE UNCHANGED <<server, granted>>
  BY <1>4 DEF Split!splitVars
<1> QED
  BY <1>1, <1>2, <1>3, <1>4, OthersLeaveIt
     DEF Next, Reconcile, Failure, Environment, Begin, Convert, ReportAwaiting,
         ReportNoIngresses, ReportFailed, ReportUnchecked, Report, ReportHealthy, RollBack,
         ConvertFails, PatchConflict, PatchFails, Crash, Deliver, ClusterChange, Wake, Tick,
         vars, objectVars, historyVars, Split!SplitNext

(* With a cache that does not lag, Migration implements TrafficSplit: the  *)
(* share moves, rises and is held as promised to users.                    *)
THEOREM SplitImplemented ==
  ASSUME MaxLag = 0
  PROVE  Spec => ImplementsSplit
<1>1. TypeOK /\ InSync /\ HonestCopies /\ Settled /\ [Next]_vars
        => [Split!SplitNext]_(Split!splitVars)
  BY NextRefines
<1> QED
  BY <1>1, InitRefines, AlwaysSettled, PTL DEF Spec, ImplementsSplit, Split!SplitSpec
-----------------------------------------------------------------------------
(* Why the share falls.                                                    *)

(* No edit changes the schedule.                                           *)
SameSchedule ==
  \A s, t \in Specs :
    s.mode = t.mode /\ s.initial = t.initial /\ s.increment = t.increment /\ s.step = t.step

(* The bound on time keeps the schedule's arithmetic within int32.         *)
NoWrap == 100 * (MaxClock + 1) < HalfInt32

(* What the schedule gives a migration that nothing holds back.            *)
Due(spec) == RolloutPercentage(spec, 1, 0, clock)

Excused(share, failures) ==
  failures > 0 \/ (mig.spec.requireApproval /\ share = mig.spec.approved)

(* No share is ahead of the schedule, so that one below the stored share   *)
(* is held back by something, and a pass that reports says by what.        *)
Grounded ==
  /\ clock <= MaxClock /\ server.status.completion <= Due(server.spec)
  /\ pc \in {"postConversion", "preRollout", "report"} /\ status.total > 0 =>
       status.converted > 0 \/ status.failed > 0
  /\ pc = "report" =>
       /\ percentage <= Due(server.spec)
       /\ percentage < server.status.completion =>
            awaiting \/ status.converted = 0 \/ Excused(percentage, status.failed)
  /\ pc \in {"patch", "retry"} =>
       /\ status.completion <= Due(server.spec)
       /\ status.completion < server.status.completion =>
            \/ status.phase \in {"RolledBack", "Analyzing", "Failed", "Pending"}
            \/ Excused(status.completion, status.failed)

(* What the proofs below count with.                                       *)
LEMMA ShareNumbers ==
  ASSUME TypeOK, HonestCopies
  PROVE  /\ server.spec \in Specs /\ mig.spec \in Specs
         /\ IsRollout(server.spec) /\ IsRollout(mig.spec)
         /\ clock \in Nat /\ Due(server.spec) \in Nat /\ Due(server.spec) \in Percent
         /\ server.status.completion \in Nat /\ status.completion \in Nat /\ percentage \in Nat
         /\ status.total \in Nat /\ status.converted \in Nat /\ status.failed \in Nat
<1>1. server.spec \in Specs /\ mig.spec \in Specs
  BY DEF HonestCopies, Copies
<1>2. IsRollout(server.spec) /\ IsRollout(mig.spec)
  BY SpecIsRollout DEF TypeOK, ObjectType
<1>3. clock \in Nat /\ Due(server.spec) \in Percent
  BY <1>2, RolloutPercentageIsPercent DEF TypeOK, Due
<1>4. status.completion \in Percent /\ status.failed \in Nat
  BY DEF TypeOK, StatusType
<1> QED
  BY <1>1, <1>2, <1>3, <1>4, CountTypes DEF Percent

LEMMA OneSchedule ==
  ASSUME SameSchedule, NEW s \in Specs, NEW t \in Specs
  PROVE  Due(s) = Due(t)
BY DEF SameSchedule, Due, RolloutPercentage, CanaryPercentage

(* What is scheduled is what is due, unless something was not converted.   *)
LEMMA ScheduledIsDue ==
  ASSUME SameSchedule, TypeOK, HonestCopies
  PROVE  Scheduled = IF status.converted = 0 \/ status.failed > 0 THEN 0 ELSE Due(server.spec)
<1>1. Due(mig.spec) = Due(server.spec)
  BY ShareNumbers, OneSchedule
<1> QED
  BY <1>1 DEF Scheduled, Due, RolloutPercentage

(* Time takes nothing back.                                                *)
LEMMA DueGrows ==
  ASSUME NoWrap, TypeOK, HonestCopies, Tick
  PROVE  clock' <= MaxClock /\ Due(server.spec) <= Due(server.spec)'
<1>1. clock \in Nat /\ clock' = clock + 1 /\ clock' <= MaxClock /\ MaxClock \in Nat
      /\ server' = server
  BY ShareNumbers, MigrationAssumption DEF Tick, objectVars
<1>2. 100 * (clock + 2) < HalfInt32 /\ IsSchedule(server.spec)
  BY <1>1, ShareNumbers, RolloutAssumption DEF NoWrap, IsRollout
<1>3. CanaryPercentage(server.spec, clock) <= CanaryPercentage(server.spec, clock')
  BY <1>1, <1>2, ScheduleGrows
<1> QED
  BY <1>1, <1>3 DEF Due, RolloutPercentage

LEMMA DueLater ==
  ASSUME TypeOK'
  PROVE  Due(server.spec)' \in Nat
<1>1. server'.spec \in SpecType /\ clock' \in Nat
  BY DEF TypeOK, ObjectType
<1>2. IsRollout(server'.spec)
  BY <1>1, SpecIsRollout
<1>3. RolloutPercentage(server'.spec, 1, 0, clock') \in Percent
  BY <1>1, <1>2, RolloutPercentageIsPercent
<1> QED
  BY <1>3 DEF Due, Percent

LEMMA InitGrounded == Init => Grounded
<1> SUFFICES ASSUME Init
             PROVE  Grounded
  OBVIOUS
<1>1. TypeOK /\ HonestCopies
  BY InitType, InitHonest
<1>2. server.status = NewStatus /\ pc = "idle" /\ clock = 0
  BY DEF Init
<1>3. NewStatus.completion = 0
  BY DEF NewStatus
<1>4. MaxClock \in Nat /\ Due(server.spec) \in Nat
  BY <1>1, ShareNumbers, MigrationAssumption
<1> HIDE DEF Init
<1> QED
  BY <1>2, <1>3, <1>4 DEF Grounded

(* What Reconcile reports is due, and if it is less than before it says    *)
(* why.                                                                    *)
LEMMA ReportedGrounded ==
  ASSUME TypeOK, HonestCopies, Grounded, pc = "report", pc' = "patch",
         UNCHANGED <<server, mig, clock>>,
         NEW base \in StatusType, Counted(base, status), NEW phase, NEW reason, NEW shown,
         status' = Reported(base, phase, reason, shown),
         phase \in {"Analyzing", "Failed", "Pending"} \/ Progressing
  PROVE  Grounded'
<1>1. status'.phase = phase /\ status'.completion = percentage /\ status'.failed = status.failed
  BY DEF Reported, Counted, StatusType
<1>2. status.converted \in Nat /\ status.failed \in Nat /\ status.total \in Nat
  BY ShareNumbers
<1>3. ASSUME percentage < server.status.completion, Progressing
      PROVE  Excused(percentage, status.failed)
  <2>1. ~awaiting /\ status.total > 0 /\ ~(status.failed > 0 /\ status.converted = 0)
    BY <1>2, <1>3 DEF Progressing, NothingConverted
  <2>2. status.converted # 0
    BY <1>2, <2>1 DEF Grounded
  <2> QED
    BY <1>3, <2>1, <2>2 DEF Grounded
<1>4. percentage <= Due(server.spec)
  BY DEF Grounded
<1>5. (status.completion < server.status.completion =>
         \/ status.phase \in {"RolledBack", "Analyzing", "Failed", "Pending"}
         \/ Excused(status.completion, status.failed))'
  BY <1>1, <1>3 DEF Excused
<1> QED
  BY <1>1, <1>4, <1>5 DEF Grounded, Due

(* A step within Reconcile before it works out the share.                  *)
LEMMA LocalStepGrounded ==
  ASSUME Grounded, UNCHANGED <<server, clock>>,
         pc' \in {"idle", "preConversion", "convert", "postConversion", "preRollout"},
         pc' \in {"postConversion", "preRollout"} /\ status'.total > 0 =>
           status'.converted > 0 \/ status'.failed > 0
  PROVE  Grounded'
BY DEF Grounded, Due

LEMMA NextGrounded ==
  MaxLag = 0 /\ SameSchedule /\ NoWrap /\ TypeOK /\ InSync /\ HonestCopies /\ Settled /\ Grounded
    /\ [Next]_vars => Grounded'
<1> SUFFICES ASSUME MaxLag = 0, SameSchedule, NoWrap, TypeOK, InSync, HonestCopies, Settled,
                    Grounded, [Next]_vars
             PROVE  Grounded'
  OBVIOUS
<1> USE DEF objectVars, localVars, worldVars, historyVars
<1>1. CASE Begin
  BY <1>1, LocalStepGrounded DEF Begin, Grounded, Due
<1>2. ASSUME NEW ok \in BOOLEAN, PreConversion(ok)
      PROVE  Grounded'
  <2>1. CASE ok
    BY <1>2, <2>1, LocalStepGrounded DEF PreConversion
  <2>2. CASE ~ok
    <3>1. Counted(Recorded("PreConversion", ok), status)
          /\ Recorded("PreConversion", ok) \in StatusType
      BY RecordedType, RecordedCounted DEF TypeOK, Stages
    <3>2. /\ status'.completion = server.status.completion /\ status'.phase = "Pending"
          /\ pc' = "patch" /\ UNCHANGED <<server, clock>>
      BY <1>2, <2>2, <3>1 DEF PreConversion, Settled, Counted, StatusType
    <3> QED
      BY <3>2 DEF Grounded, Due
  <2> QED
    BY <2>1, <2>2
<1>3. CASE Convert
  <2>1. cluster \in OutcomeType
    BY MigrationAssumption DEF TypeOK
  <2>2. status'.total > 0 => status'.converted > 0 \/ status'.failed > 0
    <3>1. cluster.total \in Nat /\ cluster.converted \in Nat /\ cluster.failed \in Nat
          /\ (cluster.total > 0 => cluster.converted + cluster.failed > 0)
      BY <2>1 DEF OutcomeType
    <3>2. status'.total = cluster.total /\ status'.converted = cluster.converted
          /\ status'.failed = cluster.failed
      BY <1>3 DEF Convert, TypeOK, StatusType
    <3> QED
      BY <3>1, <3>2
  <2> QED
    BY <1>3, <2>2, LocalStepGrounded DEF Convert
<1>4. ASSUME NEW ok \in BOOLEAN, PostConversion(ok)
      PROVE  Grounded'
  <2>1. Counted(status', status)
    BY <1>4, RecordedCounted DEF PostConversion
  <2> QED
    BY <1>4, <2>1, LocalStepGrounded DEF PostConversion, Counted, Grounded
<1>5. ASSUME NEW ok \in BOOLEAN, PreRollout(ok)
      PROVE  Grounded'
  <2> DEFINE share == IF ok THEN Scheduled ELSE 0
  <2>1. Counted(status', status) /\ UNCHANGED <<server, mig, clock>> /\ pc = "preRollout"
        /\ pc' = "report" /\ awaiting' = ~ok /\ percentage' = ApprovedShare(mig.spec, share)
    BY <1>5, RecordedCounted DEF PreRollout, Counted
  <2>2. Scheduled = IF status.converted = 0 \/ status.failed > 0 THEN 0 ELSE Due(server.spec)
    BY ScheduledIsDue
  <2>3. share \in Percent /\ share \in Nat /\ share <= Due(server.spec)
    BY <2>2, ShareNumbers DEF Percent
  <2>4. /\ percentage' \in Nat /\ percentage' <= share
        /\ percentage' = share \/ (mig.spec.requireApproval /\ percentage' = mig.spec.approved)
    <3>1. IsRollout(mig.spec)
      BY ShareNumbers
    <3>2. percentage' \in Percent /\ percentage' <= share
      BY <2>1, <2>3, <3>1, ApprovedShareBounds
    <3>3. percentage' = share \/ (mig.spec.requireApproval /\ percentage' = mig.spec.approved)
      BY <2>1 DEF ApprovedShare
    <3> QED
      BY <3>2, <3>3 DEF Percent
  <2>5. percentage' <= Due(server.spec)
    BY <2>3, <2>4, ShareNumbers
  <2>6. ASSUME percentage' < server.status.completion
        PROVE  awaiting' \/ status.converted = 0 \/ status.failed > 0
               \/ (mig.spec.requireApproval /\ percentage' = mig.spec.approved)
    <3>1. server.status.completion <= Due(server.spec)
      BY DEF Grounded
    <3>2. share = Due(server.spec) => percentage' # share
      BY <2>3, <2>4, <2>6, <3>1, ShareNumbers
    <3> QED
      BY <2>1, <2>2, <2>4, <3>2
  <2> HIDE DEF share
  <2> QED
    BY <2>1, <2>5, <2>6 DEF Grounded, Due, Counted, Excused
<1>6. ASSUME NEW phase, NEW reason, NEW shown, Report(phase, reason, shown),
             phase \in {"Analyzing", "Failed", "Pending"} \/ Progressing
      PROVE  Grounded'
  <2>1. Counted(status, status) /\ status \in StatusType
    BY DEF Counted, TypeOK
  <2> QED
    BY <1>6, <2>1, ReportedGrounded DEF Report
<1>7. CASE ReportAwaiting \/ ReportNoIngresses \/ ReportFailed \/ ReportUnchecked
  BY <1>6, <1>7 DEF ReportAwaiting, ReportNoIngresses, ReportFailed, ReportUnchecked
<1>8. ASSUME NEW ok \in BOOLEAN, ReportComplete(ok)
      PROVE  Grounded'
  <2>1. Recorded("PostRollout", ok) \in StatusType
        /\ Counted(Recorded("PostRollout", ok), status)
    BY RecordedType, RecordedCounted DEF TypeOK, Stages
  <2> QED
    BY <1>8, <2>1, ReportedGrounded DEF ReportComplete
<1>9. CASE ReportHealthy
  <2> DEFINE base == [status EXCEPT !.nextHealthCheck = clock + HealthInterval]
  <2>1. clock + HealthInterval \in Nat
    BY MigrationAssumption DEF TypeOK
  <2>2. base \in StatusType /\ Counted(base, status)
    BY <2>1 DEF TypeOK, StatusType, Counted
  <2> QED
    BY <1>9, <2>2, ReportedGrounded DEF ReportHealthy
<1>10. CASE RollBack
  <2>1. status'.phase = "RolledBack" /\ status'.completion = 0
    BY <1>10 DEF RollBack, TypeOK, StatusType
  <2>2. pc' = "patch" /\ UNCHANGED <<server, clock>> /\ Due(server.spec) \in Nat
    BY <1>10, ShareNumbers DEF RollBack
  <2> QED
    BY <2>1, <2>2 DEF Grounded, Due
<1>11. CASE PatchStatus \/ RetryPatch
  <2>1. pc \in {"patch", "retry"} /\ pc' = "idle" /\ server'.status = status
        /\ server'.spec = server.spec /\ clock' = clock
    BY <1>11, PatchStores DEF PatchStatus, RetryPatch, Write
  <2> QED
    BY <2>1 DEF Grounded, Due
<1>12. CASE PatchConflict
  BY <1>12 DEF PatchConflict, Grounded, Due, Excused
<1>13. CASE ConvertFails \/ PatchFails \/ Crash
  BY <1>13, LocalStepGrounded DEF ConvertFails, PatchFails, Crash, ReturnError, ForgetLocals
<1>14. CASE EditSpec
  <2>1. server'.spec \in Specs /\ clock' = clock
    BY <1>14, EditKeepsStatus
  <2>2. Due(server.spec)' = Due(server.spec)
    <3>1. Due(server'.spec) = Due(server.spec)
      BY <2>1, ShareNumbers, OneSchedule
    <3> QED
      BY <2>1, <3>1 DEF Due
  <2> QED
    BY <1>14, <2>1, <2>2, EditKeepsStatus DEF Grounded, Excused
<1>15. CASE Tick
  <2>1. clock' <= MaxClock /\ Due(server.spec) <= Due(server.spec)'
        /\ UNCHANGED <<server, pc, mig, status, percentage, awaiting>>
    BY <1>15, DueGrows DEF Tick
  <2>2. Due(server.spec)' \in Nat
    <3>1. TypeOK'
      BY NextType
    <3> QED
      BY <3>1, DueLater
  <2> QED
    BY <2>1, <2>2, ShareNumbers DEF Grounded, Excused
<1>16. CASE Deliver \/ ClusterChange \/ Wake \/ UNCHANGED vars
  BY <1>16 DEF Deliver, ClusterChange, Wake, vars, Grounded, Due, Excused
<1> QED
  BY <1>1, <1>2, <1>3, <1>4, <1>5, <1>7, <1>8, <1>9, <1>10, <1>11, <1>12, <1>13, <1>14,
     <1>15, <1>16
  DEF Next, Reconcile, Hooked, Failure, Environment

(* With a cache that does not lag and a schedule no edit changes, the      *)
(* share falls only by a rollback, for want of a whole conversion or of an *)
(* approval, and the stored status says which (transfergw_controller.go:   *)
(* 332-415): whatever is edited, fails or crashes while a pass runs, and   *)
(* however late its patch, as long as int32 does not wrap.                 *)
THEOREM SharesFallForAReason ==
  ASSUME MaxLag = 0, SameSchedule, NoWrap
  PROVE  Spec => FallsForAReason
<1> DEFINE Told ==
             server'.status.completion < server.status.completion
               => \/ server'.status.phase \in {"RolledBack", "Analyzing", "Failed", "Pending"}
                  \/ server'.status.failed > 0
                  \/ mig.spec.requireApproval /\ server'.status.completion = mig.spec.approved
<1>1. ASSUME TypeOK, InSync, HonestCopies, Grounded, [Next]_vars
      PROVE  Told
  <2>1. CASE PatchStatus \/ RetryPatch
    BY <1>1, <2>1, PatchStores DEF Grounded, Excused
  <2>2. CASE UNCHANGED server \/ EditSpec
    <3>1. server'.status = server.status /\ server.status.completion \in Nat
      BY <1>1, <2>2, EditKeepsStatus, ShareNumbers
    <3> QED
      BY <3>1
  <2> QED
    BY <1>1, <2>1, <2>2, OthersLeaveIt
<1>2. TypeOK /\ InSync /\ HonestCopies /\ Settled /\ Grounded /\ [Next]_vars
        => [Told]_vars
  BY <1>1
<1> QED
  BY <1>2, AlwaysSettled, InitGrounded, NextGrounded, PTL DEF Spec, FallsForAReason
=============================================================================
