-------------------------- MODULE MonitoringProofs --------------------------
(***************************************************************************)
(* What holds of the schedule and of rollbacks for every rollout, every    *)
(* set of thresholds and whatever the metrics backend answers and when.    *)
(***************************************************************************)
EXTENDS Monitoring, RolloutProofs, SequenceTheorems

-----------------------------------------------------------------------------
(* The schedule.                                                           *)

(* The bound on time keeps the schedule's arithmetic within int32.         *)
NoWrap == 100 * (MaxElapsed + 1) < HalfInt32

-----------------------------------------------------------------------------
(* Types.                                                                  *)

LEMMA PlanIsSchedule ==
  ASSUME plan \in Plans
  PROVE  /\ IsSchedule(plan)
         /\ OrDefault(plan.initial, 25) \in Percent
         /\ OrDefault(plan.increment, 25) \in Percent
         /\ Step(plan) \in Nat \ {0}
         /\ HealthCheckInterval(plan) \in Nat
         /\ plan.thresholds \in Thresholds
BY MonitoringAssumption, RolloutAssumption
   DEF PlanType, IsSchedule, OrDefault, Step, HealthCheckInterval, Percent

LEMMA Bounds ==
  MaxElapsed \in Nat /\ DefaultInterval \in Nat \ {0} /\ Queries \in Seq(MetricNames)
BY Zenon, MonitoringAssumption

(* The numbers of the state, apart from what is measured.                  *)
LEMMA NumberTypes ==
  ASSUME TypeOK
  PROVE  /\ plan \in Plans /\ elapsed \in 0..MaxElapsed /\ elapsed \in Nat
         /\ due \in Percent /\ due \in Int /\ wait \in Nat
<1>1. plan \in Plans /\ elapsed \in 0..MaxElapsed /\ due \in Percent /\ wait \in Nat
  BY DEF TypeOK, ScheduleTypes, StatusTypes
<1> QED
  BY <1>1, Bounds DEF Percent

LEMMA TargetType ==
  ASSUME TypeOK
  PROVE  Target \in Percent
BY NumberTypes, PlanIsSchedule, CanaryPercentageIsPercent DEF Target

(* The verdict is a metric over its threshold, if there is one.            *)
LEMMA VerdictBreaches ==
  /\ Verdict \in MetricNames \union {NoBreach}
  /\ Verdict # NoBreach => Verdict \in MetricNames /\ Breaches(plan.thresholds, comparison, Verdict)
<1> DEFINE Breached(i) == Breaches(plan.thresholds, comparison, Metrics[i])
           First(i) == Breached(i) /\ \A j \in 1..(i - 1) : ~Breached(j)
           first == CHOOSE i \in 1..4 : First(i)
<1>1. ASSUME \E i \in 1..4 : Breached(i)
      PROVE  \E i \in 1..4 : First(i)
  <2>1. CASE Breached(1)
    BY <2>1
  <2>2. CASE ~Breached(1) /\ Breached(2)
    BY <2>2
  <2>3. CASE ~Breached(1) /\ ~Breached(2) /\ Breached(3)
    BY <2>3
  <2>4. CASE ~Breached(1) /\ ~Breached(2) /\ ~Breached(3) /\ Breached(4)
    BY <2>4
  <2> QED
    BY <1>1, <2>1, <2>2, <2>3, <2>4
<1>2. Verdict = IF \E i \in 1..4 : Breached(i) THEN Metrics[first] ELSE NoBreach
  BY DEF Verdict, Evaluate
<1> HIDE DEF Breached
<1>3. CASE \E i \in 1..4 : Breached(i)
  <2>1. first \in 1..4 /\ Breached(first)
    BY <1>1, <1>3
  <2>2. Verdict = Metrics[first]
    BY <1>2, <1>3
  <2>3. Breaches(plan.thresholds, comparison, Verdict)
    BY <2>1, <2>2 DEF Breached
  <2> QED
    BY <2>1, <2>2, <2>3 DEF MetricNames
<1>4. CASE ~ \E i \in 1..4 : Breached(i)
  BY <1>2, <1>4
<1> QED
  BY <1>3, <1>4

LEMMA TypeInit == Init => TypeOK
<1> SUFFICES ASSUME Init PROVE TypeOK
  OBVIOUS
<1>1. 0 \in Percent /\ NothingMeasured \in Comparisons /\ <<>> \in Seq(MetricNames)
  BY DEF Percent, NothingMeasured, Comparisons
<1>2. ScheduleTypes
  <2>1. plan \in Plans /\ world \in Worlds /\ elapsed = 0
    BY DEF Init
  <2>2. due \in Percent
    BY <2>1, PlanIsSchedule DEF Init
  <2> QED
    BY <2>1, <2>2, Bounds DEF ScheduleTypes
<1>3. StatusTypes
  BY <1>1 DEF Init, StatusTypes
<1>4. PassTypes
  BY <1>1 DEF Init, PassTypes
<1> QED
  BY <1>2, <1>3, <1>4 DEF Init, TypeOK

(* Time and the schedule.                                                  *)
LEMMA ScheduleTypesNext ==
  ASSUME TypeOK, [Next]_vars
  PROVE  ScheduleTypes'
<1> USE DEF timeVars
<1>1. ScheduleTypes /\ plan \in Plans
  BY DEF TypeOK, ScheduleTypes
<1>2. CASE UNCHANGED <<plan, timeVars, world>>
  BY <1>1, <1>2 DEF ScheduleTypes
<1>3. CASE Tick
  <2>1. Clamp(due + OrDefault(plan.increment, 25)) \in Percent
    <3>1. OrDefault(plan.increment, 25) \in Int
      BY <1>1, PlanIsSchedule DEF Percent
    <3>2. due + OrDefault(plan.increment, 25) \in Int
      BY <3>1, NumberTypes
    <3> QED
      BY <3>2, ClampIsPercent
  <2>2. due' \in Percent /\ elapsed' \in 0..MaxElapsed
    BY <1>3, <2>1, NumberTypes, Bounds DEF Tick
  <2> QED
    BY <1>1, <1>3, <2>2 DEF Tick, ScheduleTypes
<1>4. CASE Shift
  BY <1>1, <1>4 DEF Shift, ScheduleTypes
<1> QED
  BY <1>2, <1>3, <1>4
     DEF Next, Pass, Unchecked, BeginCheck, AskInVain, AskIngress, AskGateway, AskFails,
         Healthy, RollBack, Lose, vars

LEMMA MoveType ==
  ASSUME StatusTypes, NEW p \in Percent, Move(p), wait' \in Nat
  PROVE  StatusTypes'
BY DEF Move, StatusTypes

(* The status, which only the end of a reconcile writes.                   *)
LEMMA StatusTypesNext ==
  ASSUME TypeOK, [Next]_vars
  PROVE  StatusTypes'
<1> USE DEF statusVars
<1>1. StatusTypes /\ PassTypes /\ wait \in Nat /\ percentage \in Percent
  BY DEF TypeOK, StatusTypes, PassTypes
<1>2. Target \in Percent /\ HealthCheckInterval(plan) \in Nat /\ 0 \in Percent
  BY TargetType, PlanIsSchedule, NumberTypes DEF Percent
<1>3. CASE UNCHANGED statusVars
  BY <1>1, <1>3 DEF StatusTypes
<1>4. CASE Unchecked
  BY <1>1, <1>2, <1>4, MoveType DEF Unchecked
<1>5. CASE AskFails
  BY <1>1, <1>5, MoveType DEF AskFails
<1>6. CASE Healthy
  BY <1>1, <1>2, <1>6, MoveType DEF Healthy, Compared
<1>7. CASE RollBack
  BY <1>1, <1>2, <1>7, VerdictBreaches DEF RollBack, Compared, StatusTypes
<1>8. CASE Tick
  <2>1. wait' \in Nat
    BY <1>1, <1>8 DEF Tick
  <2> QED
    BY <1>1, <1>8, <2>1 DEF Tick, StatusTypes
<1> QED
  BY <1>3, <1>4, <1>5, <1>6, <1>7, <1>8
     DEF Next, Pass, BeginCheck, AskInVain, AskIngress, AskGateway, Lose, Shift, vars

LEMMA ForgetType ==
  ASSUME Forget
  PROVE  PassTypes'
<1>1. 0 \in Percent /\ NothingMeasured \in Comparisons /\ <<>> \in Seq(MetricNames)
  BY DEF Percent, NothingMeasured, Comparisons
<1> QED
  BY <1>1 DEF Forget, PassTypes

(* The comparison under way.                                               *)
LEMMA PassTypesNext ==
  ASSUME TypeOK, [Next]_vars
  PROVE  PassTypes'
<1> USE DEF passVars
<1>1. PassTypes
  BY DEF TypeOK
<1>2. CASE UNCHANGED passVars
  BY <1>1, <1>2 DEF PassTypes
<1>3. CASE Forget
  BY <1>3, ForgetType
<1>4. CASE BeginCheck
  BY <1>1, <1>4, TargetType, Bounds DEF BeginCheck, PassTypes
<1>5. ASSUME Asking
      PROVE  Current \in MetricNames /\ Tail(todo) \in Seq(MetricNames)
  BY <1>1, <1>5, HeadTailProperties DEF PassTypes, Asking, Current
<1>6. CASE AskInVain
  BY <1>1, <1>5, <1>6 DEF AskInVain, NextMetric, PassTypes
<1>7. CASE AskIngress
  BY <1>1, <1>7 DEF AskIngress, PassTypes
<1>8. CASE AskGateway
  <2>1. reading \in Value /\ Sample \in Value
    BY <1>1, <1>8 DEF AskGateway, PassTypes
  <2>2. [ingress |-> reading, gateway |-> Sample] \in Measurement
    BY <2>1 DEF Measurement
  <2>3. comparison' \in Comparisons
    BY <1>1, <1>5, <1>8, <2>2 DEF AskGateway, PassTypes, Comparisons
  <2> QED
    BY <1>1, <1>5, <1>8, <2>3 DEF AskGateway, NextMetric, PassTypes
<1>9. CASE Shift
  BY <1>1, <1>9 DEF Shift, PassTypes
<1> QED
  BY <1>2, <1>3, <1>4, <1>6, <1>7, <1>8, <1>9
     DEF Next, Pass, Unchecked, AskFails, Healthy, RollBack, Lose, Tick, vars

LEMMA TypeNext == TypeOK /\ [Next]_vars => TypeOK'
<1> SUFFICES ASSUME TypeOK, [Next]_vars PROVE TypeOK'
  OBVIOUS
<1>1. ScheduleTypes' /\ StatusTypes' /\ PassTypes'
  BY ScheduleTypesNext, StatusTypesNext, PassTypesNext
<1>2. (shifts \in Nat /\ faults \in Nat)'
  BY DEF TypeOK, Next, Pass, Unchecked, BeginCheck, AskInVain, AskIngress, AskGateway,
         AskFails, Healthy, RollBack, Lose, Tick, Shift, vars
<1> QED
  BY <1>1, <1>2 DEF TypeOK

(* Every part of the state keeps its type: the share is a percentage, and  *)
(* what is measured is a number or NaN on both paths.                      *)
THEOREM MonitoringTypes == Spec => []TypeOK
  BY TypeInit, TypeNext, PTL DEF Spec

-----------------------------------------------------------------------------
(* The share and the schedule.                                             *)

Steps == elapsed \div Step(plan)

(* The step-by-step schedule in closed form.                               *)
OnSchedule ==
  due = Clamp(OrDefault(plan.initial, 25) + Steps * OrDefault(plan.increment, 25))

(* Stopping at 100 in every step is the same as stopping there at the end. *)
LEMMA ClampLate ==
  ASSUME NEW a \in Nat, NEW c \in Nat
  PROVE  Clamp(Clamp(a) + c) = Clamp(a + c)
BY DEF Clamp

LEMMA OnScheduleInit == Init => OnSchedule
<1> SUFFICES ASSUME Init PROVE OnSchedule
  OBVIOUS
<1>1. plan \in Plans /\ elapsed = 0 /\ due = OrDefault(plan.initial, 25)
  BY DEF Init
<1>2. Steps = 0
  BY <1>1, PlanIsSchedule, NextStep DEF Steps
<1>3. Steps * OrDefault(plan.increment, 25) = 0
  BY <1>1, <1>2, PlanIsSchedule DEF Percent
<1> QED
  BY <1>1, <1>3, PlanIsSchedule DEF OnSchedule, Clamp, Percent

LEMMA OnScheduleNext == TypeOK /\ OnSchedule /\ [Next]_vars => OnSchedule'
<1> SUFFICES ASSUME TypeOK, OnSchedule, [Next]_vars PROVE OnSchedule'
  OBVIOUS
<1>1. CASE UNCHANGED <<plan, timeVars>>
  BY <1>1 DEF OnSchedule, Steps, timeVars
<1>2. CASE Tick /\ elapsed < MaxElapsed
  <2> DEFINE a == OrDefault(plan.initial, 25)
             c == OrDefault(plan.increment, 25)
             s == Step(plan)
  <2>1. plan' = plan /\ elapsed' = elapsed + 1
        /\ due' = IF (elapsed + 1) % s = 0 THEN Clamp(due + c) ELSE due
    BY <1>2 DEF Tick
  <2>2. a \in Nat /\ c \in Nat /\ s \in Nat \ {0} /\ elapsed \in Nat
    BY NumberTypes, PlanIsSchedule DEF Percent
  <2>3. due = Clamp(a + Steps * c) /\ Steps \in Nat
    BY <2>2, NextStep DEF OnSchedule, Steps
  <2>4. Steps' = IF (elapsed + 1) % s = 0 THEN Steps + 1 ELSE Steps
    BY <2>1, <2>2, NextStep DEF Steps
  <2>5. CASE (elapsed + 1) % s = 0
    <3> HIDE DEF a, c, s
    <3>1. Steps * c \in Nat /\ (Steps + 1) * c = Steps * c + c
      BY <2>2, <2>3
    <3>2. a + Steps * c \in Nat /\ a + (Steps + 1) * c = (a + Steps * c) + c
      BY <2>2, <3>1
    <3>3. Clamp(due + c) = Clamp(a + (Steps + 1) * c)
      BY <2>2, <2>3, <3>2, ClampLate
    <3>4. due' = Clamp(a + Steps' * c)
      BY <2>1, <2>4, <2>5, <3>3
    <3> QED
      BY <2>1, <3>4 DEF OnSchedule, a, c
  <2>6. CASE (elapsed + 1) % s # 0
    BY <2>1, <2>3, <2>4, <2>6 DEF OnSchedule
  <2> QED
    BY <2>5, <2>6
<1>3. CASE Tick /\ ~(elapsed < MaxElapsed)
  BY <1>1, <1>3 DEF Tick
<1> QED
  BY <1>1, <1>2, <1>3
     DEF Next, Pass, Unchecked, BeginCheck, AskInVain, AskIngress, AskGateway, AskFails,
         Healthy, RollBack, Lose, Shift, vars

(* Without a wrap of int32 the code computes that closed form.             *)
LEMMA TargetOnSchedule ==
  ASSUME NoWrap, TypeOK, OnSchedule
  PROVE  Target = due
<1>1. plan \in Plans /\ elapsed \in Nat /\ elapsed <= MaxElapsed /\ MaxElapsed \in Nat
  BY NumberTypes, Bounds
<1>2. 100 * (elapsed + 1) < HalfInt32
  BY <1>1, RolloutAssumption DEF NoWrap
<1> QED
  BY <1>1, <1>2, PlanIsSchedule, ClosedForm DEF Target, OnSchedule, Steps, Step

LEMMA ScheduleInvariant == Spec => [](TypeOK /\ OnSchedule)
  BY TypeInit, TypeNext, OnScheduleInit, OnScheduleNext, PTL DEF Spec

(* The closed formula of canaryPercentage gives the share of the           *)
(* documented step-by-step schedule at every moment, for every initial     *)
(* share, increment and step length, as long as int32 does not wrap.       *)
THEOREM ScheduleFollowed ==
  ASSUME NoWrap
  PROVE  Spec => []FollowsSchedule
<1>1. TypeOK /\ OnSchedule => FollowsSchedule
  BY TargetOnSchedule DEF FollowsSchedule
<1> QED
  BY <1>1, ScheduleInvariant, PTL
(* While a migration has not been rolled back its share is at most that of *)
(* the schedule, and what a pass will publish lies between the two.        *)
NeverAhead ==
  /\ phase # "RolledBack" => share <= due
  /\ pc = "compare" => phase # "RolledBack" /\ share <= percentage /\ percentage <= due

LEMMA ShareTypes ==
  ASSUME TypeOK
  PROVE  share \in Percent /\ percentage \in Percent /\ due \in Percent
         /\ share \in Int /\ percentage \in Int /\ due \in Int
<1>1. share \in Percent /\ percentage \in Percent /\ due \in Percent
  BY DEF TypeOK, ScheduleTypes, StatusTypes, PassTypes
<1> QED
  BY <1>1 DEF Percent

(* Time does not take the schedule back.                                   *)
LEMMA DueGrows ==
  ASSUME TypeOK, [Next]_vars
  PROVE  due' \in Int /\ due <= due'
<1>1. due \in Percent /\ due \in Int /\ plan \in Plans
  BY ShareTypes, NumberTypes
<1>2. OrDefault(plan.increment, 25) \in Nat
  BY <1>1, PlanIsSchedule DEF Percent
<1>3. due' = due \/ due' = Clamp(due + OrDefault(plan.increment, 25))
  BY DEF Next, Pass, Unchecked, BeginCheck, AskInVain, AskIngress, AskGateway, AskFails,
         Healthy, RollBack, Lose, Tick, Shift, vars, timeVars
<1> QED
  BY <1>1, <1>2, <1>3 DEF Clamp, Percent

LEMMA NeverAheadInit == Init => NeverAhead
<1> SUFFICES ASSUME Init PROVE NeverAhead
  OBVIOUS
<1>1. share = 0 /\ pc = "idle" /\ due \in Percent
  BY TypeInit, ShareTypes DEF Init
<1> QED
  BY <1>1 DEF NeverAhead, Percent

LEMMA NeverAheadNext ==
  ASSUME NoWrap, TypeOK, OnSchedule, NeverAhead, [Next]_vars
  PROVE  NeverAhead' /\ (share' < share => phase' = "RolledBack")
<1>1. share \in Percent /\ share \in Int /\ percentage \in Int /\ due \in Int
  BY ShareTypes
<1>2. due' \in Int /\ due <= due'
  BY DueGrows
<1>3. Target = due
  BY TargetOnSchedule
<1>4. CASE UNCHANGED <<share, phase, pc, percentage>>
  BY <1>1, <1>2, <1>4 DEF NeverAhead
<1>5. CASE Unchecked
  BY <1>1, <1>2, <1>3, <1>5 DEF Unchecked, Move, NeverAhead, passVars, timeVars
<1>6. CASE BeginCheck
  BY <1>1, <1>2, <1>3, <1>6 DEF BeginCheck, NeverAhead, statusVars, timeVars
<1>7. CASE AskFails
  BY <1>1, <1>2, <1>7 DEF AskFails, Asking, Move, Forget, NeverAhead, timeVars
<1>8. CASE Healthy
  BY <1>1, <1>2, <1>8 DEF Healthy, Compared, Move, Forget, NeverAhead, timeVars
<1>9. CASE RollBack
  BY <1>9 DEF RollBack, Forget, NeverAhead
<1>10. CASE Lose
  BY <1>1, <1>2, <1>10 DEF Lose, Forget, NeverAhead, statusVars, timeVars
<1> QED
  BY <1>4, <1>5, <1>6, <1>7, <1>8, <1>9, <1>10
     DEF Next, Pass, AskInVain, AskIngress, AskGateway, Tick, Shift, vars, statusVars, passVars

(* The share falls only by a rollback, for every rollout that does not     *)
(* wrap int32 and whatever happens between the passes.                     *)
THEOREM ShareAdvances ==
  ASSUME NoWrap
  PROVE  Spec => Advances
<1>1. TypeOK /\ OnSchedule /\ NeverAhead /\ [Next]_vars
        => NeverAhead' /\ [share' < share => phase' = "RolledBack"]_vars
  BY NeverAheadNext
<1> QED
  BY <1>1, ScheduleInvariant, NeverAheadInit, PTL DEF Spec, Advances

-----------------------------------------------------------------------------
(* Rollbacks.                                                              *)

(* What a pass remembers is what the backend would still answer, as long   *)
(* as nothing changed since it began.                                      *)
Remembered ==
  /\ \A k \in MetricNames :
       comparison[k] # NotMeasured
         => /\ comparison[k].ingress = world[k].ingress /\ world[k].ingress \in Value
            /\ comparison[k].gateway = world[k].gateway /\ world[k].gateway \in Value
  /\ reading # NoSample => reading = world[Current].ingress

(* The metrics that were asked about all got an answer.                    *)
Asked == Len(Queries) - Len(todo)

InOrder ==
  /\ Len(todo) \in 0..Len(Queries)
  /\ \A j \in 1..Len(todo) : todo[j] = Queries[Asked + j]
  /\ \A i \in 1..Asked : Answered(Queries[i])

Faithful ==
  /\ pc = "idle" => comparison = NothingMeasured /\ reading = NoSample
  /\ pc = "compare" /\ steady => Remembered /\ InOrder

LEMMA FaithfulInit == Init => Faithful
BY DEF Init, Faithful

LEMMA NothingRemembered ==
  ASSUME comparison = NothingMeasured, reading = NoSample
  PROVE  Remembered
BY DEF Remembered, NothingMeasured

LEMMA FaithfulNext == TypeOK /\ Faithful /\ [Next]_vars => Faithful'
<1> SUFFICES ASSUME TypeOK, Faithful, [Next]_vars PROVE Faithful'
  OBVIOUS
<1>1. PassTypes /\ Queries \in Seq(MetricNames) /\ Len(Queries) \in Nat
  BY Bounds DEF TypeOK
<1>2. CASE UNCHANGED <<world, passVars>>
  BY <1>2 DEF Faithful, Remembered, InOrder, Asked, Current, Answered, passVars
<1>3. CASE Forget
  BY <1>3 DEF Forget, Faithful
<1>4. CASE BeginCheck
  <2>1. comparison' = NothingMeasured /\ reading' = NoSample /\ pc' = "compare"
        /\ todo' = Queries
    BY <1>4 DEF BeginCheck, Faithful
  <2>2. Remembered'
    BY <2>1 DEF Remembered, NothingMeasured
  <2>3. InOrder'
    BY <1>1, <2>1 DEF InOrder, Asked
  <2> QED
    BY <2>1, <2>2, <2>3 DEF Faithful
<1>5. CASE Shift
  BY <1>5 DEF Shift, Faithful
<1>6. ASSUME Asking, steady
      PROVE  /\ Remembered /\ InOrder /\ Current \in MetricNames
             /\ Len(todo) \in Nat /\ Len(todo) > 0 /\ Asked \in Nat
             /\ Current = Queries[Asked + 1]
  <2>1. todo \in Seq(MetricNames) /\ todo # <<>> /\ Remembered /\ InOrder
    BY <1>1, <1>6 DEF Asking, Faithful, PassTypes
  <2>2. Len(todo) \in Nat /\ Len(todo) > 0 /\ Current = todo[1] /\ Current \in MetricNames
    BY <2>1, HeadTailProperties, EmptySeq DEF Current
  <2>3. Asked \in Nat
    BY <1>1, <2>1, <2>2 DEF InOrder, Asked
  <2> QED
    BY <2>1, <2>2, <2>3 DEF InOrder
<1>7. CASE AskIngress
  BY <1>6, <1>7 DEF AskIngress, Asking, Faithful, Remembered, InOrder, Asked, Current,
                    Answered, Sample
<1>8. ASSUME Asking, steady, NextMetric, UNCHANGED world, Answered(Current)
      PROVE  InOrder'
  <2>1. todo' \in Seq(MetricNames) /\ Len(todo') = Len(todo) - 1
        /\ \A j \in 1..Len(todo') : todo'[j] = todo[j + 1]
    BY <1>1, <1>8, HeadTailProperties DEF Asking, NextMetric, PassTypes
  <2>2. Len(todo') \in 0..Len(Queries) /\ Asked' = Asked + 1
    BY <1>1, <1>6, <1>8, <2>1 DEF InOrder, Asked
  <2>3. ASSUME NEW j \in 1..Len(todo')
        PROVE  todo'[j] = Queries[Asked' + j]
    <3>1. j \in Nat /\ j + 1 \in 1..Len(todo) /\ Asked' + j = Asked + (j + 1)
      BY <1>6, <1>8, <2>1, <2>2
    <3>2. todo[j + 1] = Queries[Asked + (j + 1)]
      BY <1>6, <1>8, <3>1 DEF InOrder
    <3> QED
      BY <2>1, <3>1, <3>2
  <2>4. ASSUME NEW i \in 1..Asked'
        PROVE  Answered(Queries[i])'
    <3>1. i \in 1..Asked \/ i = Asked + 1
      BY <1>6, <1>8, <2>2
    <3>2. Answered(Queries[i])
      BY <1>6, <1>8, <3>1 DEF InOrder
    <3> QED
      BY <1>8, <3>2 DEF Answered
  <2> QED
    BY <2>2, <2>3, <2>4 DEF InOrder
<1>9. CASE AskInVain
  <2>1. ASSUME steady PROVE Remembered' /\ InOrder'
    <3>1. Asking /\ NextMetric /\ UNCHANGED <<world, comparison>> /\ Sample = NoSample
      BY <1>9 DEF AskInVain, Leaves, Fails
    <3>2. reading \in Value \union {NoSample}
      BY <1>1 DEF PassTypes
    <3>3. Answered(Current)
      BY <1>6, <2>1, <3>1, <3>2, MonitoringAssumption DEF Remembered, Sample, Answered
    <3>4. Remembered'
      BY <1>6, <2>1, <3>1 DEF Remembered, NextMetric
    <3> QED
      BY <1>8, <2>1, <3>1, <3>3, <3>4
  <2> QED
    BY <1>9, <2>1 DEF AskInVain, Asking, Faithful
<1>10. CASE AskGateway
  <2>1. ASSUME steady PROVE Remembered' /\ InOrder'
    <3>1. Asking /\ NextMetric /\ UNCHANGED world /\ reading # NoSample /\ Sample \in Value
          /\ comparison' = [comparison EXCEPT ![Current] =
                              [ingress |-> reading, gateway |-> Sample]]
      BY <1>10 DEF AskGateway
    <3>2. reading \in Value /\ comparison \in Comparisons
      BY <1>1, <3>1 DEF PassTypes
    <3>3. reading = world[Current].ingress /\ Sample = world[Current].gateway
      BY <1>6, <2>1, <3>1 DEF Remembered, Sample
    <3>4. Answered(Current)
      BY <3>1, <3>2, <3>3, MonitoringAssumption DEF Answered
    <3>5. Remembered'
      BY <1>6, <2>1, <3>1, <3>2, <3>3 DEF Remembered, NextMetric, Comparisons
    <3> QED
      BY <1>8, <2>1, <3>1, <3>4, <3>5
  <2> QED
    BY <1>10, <2>1 DEF AskGateway, Asking, Faithful
<1> QED
  BY <1>2, <1>3, <1>4, <1>5, <1>7, <1>9, <1>10
     DEF Next, Pass, Unchecked, AskFails, Healthy, RollBack, Lose, Tick, vars

LEMMA FaithfulAlways == Spec => [](TypeOK /\ Faithful)
  BY TypeInit, TypeNext, FaithfulInit, FaithfulNext, PTL DEF Spec

(* Only the end of a comparison rolls back.                                *)
LEMMA OnlyRollBack ==
  ASSUME [Next]_vars, RollsBack
  PROVE  RollBack
BY DEF Next, Pass, Unchecked, BeginCheck, AskInVain, AskIngress, AskGateway, AskFails,
       Healthy, Lose, Tick, Shift, vars, statusVars, Move, RollsBack

(* A rollback rests on a comparison that asked about every metric and got  *)
(* every answer, whatever else the backend does: a failed query rolls      *)
(* nothing back.                                                           *)
THEOREM FailuresMoveNothing == Spec => JudgesWhole
<1>1. ASSUME TypeOK, Faithful, RollBack, steady
      PROVE  AllAnswered
  <2>1. InOrder /\ todo = <<>> /\ Len(Queries) \in Nat
    BY <1>1, Bounds DEF Faithful, RollBack, Compared
  <2>2. Asked = Len(Queries)
    BY <2>1 DEF Asked
  <2>3. DOMAIN Queries = 1..Len(Queries)
    BY Bounds
  <2> QED
    BY <2>1, <2>2, <2>3 DEF InOrder, AllAnswered
<1>2. TypeOK /\ Faithful /\ [Next]_vars => [RollsBack /\ steady => AllAnswered]_vars
  BY <1>1, OnlyRollBack
<1> QED
  BY <1>2, FaithfulAlways, PTL DEF Spec, JudgesWhole
(* No query is answered with NaN.                                          *)
NeverNaN == \A w \in Worlds : \A k \in MetricNames : w[k].ingress # NaN /\ w[k].gateway # NaN

LEMMA BreachIsWorse ==
  ASSUME NEW t \in Thresholds, NEW c, NEW k \in MetricNames, Breaches(t, c, k),
         c[k].ingress \in Nat, c[k].gateway \in Nat
  PROVE  IF k = "throughput" THEN 100 * c[k].gateway < c[k].ingress * (100 - t[k])
         ELSE c[k].gateway > t[k] /\ c[k].gateway > c[k].ingress
<1>1. t[k] \in Int /\ t[k] # NaN /\ c[k].ingress # NaN /\ c[k].gateway # NaN
  BY HealthAssumption DEF Thresholds, Unset
<1>2. CASE k = "throughput"
  BY <1>2 DEF Breaches, FallsShort
<1>3. CASE k # "throughput"
  <2>1. ~AtMost(c[k].gateway, t[k]) /\ ~AtMost(c[k].gateway, c[k].ingress)
    BY <1>3 DEF Breaches, WorseThan
  <2> QED
    BY <1>1, <1>3, <2>1 DEF AtMost
<1> QED
  BY <1>2, <1>3

(* If the backend never answers NaN, the metric a rollback blames is       *)
(* measured on both paths, over its threshold and worse on the Gateway     *)
(* path, for every set of thresholds and of answers.                       *)
THEOREM BlamedIsWorse ==
  ASSUME NeverNaN
  PROVE  Spec => BlamesTheWorse
<1>1. ASSUME TypeOK, Faithful, RollBack, steady
      PROVE  Worse(shown')
  <2> DEFINE k == Verdict
  <2>1. shown' = k /\ k \in MetricNames /\ Breaches(plan.thresholds, comparison, k)
    BY <1>1, VerdictBreaches DEF RollBack
  <2>2. Remembered /\ plan.thresholds \in Thresholds /\ world \in Worlds
    BY <1>1, PlanIsSchedule DEF Faithful, RollBack, Compared, TypeOK, ScheduleTypes
  <2> HIDE DEF k
  <2>3. Configured(plan.thresholds, k) /\ comparison[k] # NotMeasured
    BY <2>1 DEF Breaches
  <2>4. /\ comparison[k].ingress = world[k].ingress /\ world[k].ingress \in Nat
        /\ comparison[k].gateway = world[k].gateway /\ world[k].gateway \in Nat
    BY <2>1, <2>2, <2>3 DEF Remembered, NeverNaN, Value
  <2>5. Worse(k)
    BY <2>1, <2>2, <2>3, <2>4, BreachIsWorse DEF Worse, Counts
  <2> QED
    BY <2>1, <2>5
<1>2. TypeOK /\ Faithful /\ [Next]_vars => [RollsBack /\ steady => Worse(shown')]_vars
  BY <1>1, OnlyRollBack
<1> QED
  BY <1>2, FaithfulAlways, PTL DEF Spec, BlamesTheWorse
=============================================================================
