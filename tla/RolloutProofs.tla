--------------------------- MODULE RolloutProofs ---------------------------
(* What the rollout schedule bounds, for every spec and every time.        *)
EXTENDS Rollout, TLAPS

(* The fields of spec.rollout the schedule reads, and those that decide    *)
(* what becomes of it.                                                     *)
IsSchedule(ro) == ro.initial \in Percent /\ ro.increment \in Percent /\ ro.step \in Nat

IsRollout(ro) ==
  /\ IsSchedule(ro) /\ ro.mode \in Modes
  /\ ro.requireApproval \in BOOLEAN /\ ro.approved \in Percent

LEMMA Int32IsInt ==
  ASSUME NEW n \in Int
  PROVE  Int32(n) \in Int
<1>1. 2 * HalfInt32 \in Int /\ n + HalfInt32 \in Int /\ 2 * HalfInt32 > 0
  BY RolloutAssumption
<1>2. (n + HalfInt32) % (2 * HalfInt32) \in Int
  BY <1>1
<1> QED
  BY <1>2, RolloutAssumption DEF Int32

LEMMA ClampIsPercent ==
  ASSUME NEW n \in Int
  PROVE  Clamp(n) \in Percent
BY DEF Clamp, Percent

(* Whatever the wrap of int32 does, the schedule yields a percentage.      *)
THEOREM CanaryPercentageIsPercent ==
  ASSUME NEW ro, IsSchedule(ro), NEW elapsed \in Nat
  PROVE  CanaryPercentage(ro, elapsed) \in Percent
<1> DEFINE initial   == OrDefault(ro.initial, 25)
           increment == OrDefault(ro.increment, 25)
           step      == OrDefault(ro.step, DefaultStep)
           steps     == Int32(elapsed \div step)
<1>1. initial \in Int /\ increment \in Int /\ step \in Nat \ {0}
  BY RolloutAssumption DEF IsSchedule, OrDefault, Percent
<1>2. elapsed \div step \in Int
  BY <1>1
<1>3. steps \in Int
  BY <1>2, Int32IsInt
<1>4. Int32(steps * increment) \in Int
  BY <1>1, <1>3, Int32IsInt
<1>5. Int32(initial + Int32(steps * increment)) \in Int
  BY <1>1, <1>4, Int32IsInt
<1> QED
  BY <1>5, ClampIsPercent DEF CanaryPercentage

LEMMA RolloutPercentageIsPercent ==
  ASSUME NEW ro, IsRollout(ro), NEW converted \in Nat, NEW failed \in Nat,
         NEW elapsed \in Nat
  PROVE  RolloutPercentage(ro, converted, failed, elapsed) \in Percent
<1>1. 0 \in Percent /\ 100 \in Percent
  BY DEF Percent
<1> QED
  BY <1>1, CanaryPercentageIsPercent DEF RolloutPercentage, IsRollout

-----------------------------------------------------------------------------
(* The schedule as time passes, short of the wrap of int32.                *)

LEMMA Int32Fits ==
  ASSUME NEW n \in Nat, n < HalfInt32
  PROVE  Int32(n) = n
<1>1. n + HalfInt32 \in 0..(2 * HalfInt32 - 1)
  BY RolloutAssumption
<1>2. \A b \in Nat \ {0} : \A a \in 0..(b - 1) : a % b = a
  OBVIOUS
<1>3. (n + HalfInt32) % (2 * HalfInt32) = n + HalfInt32
  BY <1>1, <1>2, RolloutAssumption
<1> QED
  BY <1>3, RolloutAssumption DEF Int32

(* A tick begins a new step exactly when the step length divides the time. *)
LEMMA NextStep ==
  ASSUME NEW e \in Nat, NEW s \in Nat \ {0}
  PROVE  /\ e \div s \in Nat /\ e \div s <= e
         /\ (e + 1) % s = 0 => (e + 1) \div s = (e \div s) + 1
         /\ (e + 1) % s # 0 => (e + 1) \div s = e \div s
<1> DEFINE q == e \div s
           r == e % s
<1>1. q \in Nat /\ r \in 0..(s - 1) /\ e = s * q + r
  OBVIOUS
<1>2. q <= e
  BY <1>1
<1>3. \A p \in Nat, t \in 0..(s - 1) : e + 1 = s * p + t
        => (e + 1) \div s = p /\ (e + 1) % s = t
  OBVIOUS
<1>4. CASE r + 1 = s
  <2>1. s * (q + 1) = s * q + s
    BY <1>1
  <2>2. e + 1 = s * (q + 1) + 0
    BY <1>1, <1>4, <2>1
  <2>3. (e + 1) \div s = q + 1 /\ (e + 1) % s = 0
    BY <1>1, <1>3, <2>2
  <2> QED
    BY <1>1, <1>2, <2>3
<1>5. CASE r + 1 # s
  <2>1. r + 1 \in 0..(s - 1) /\ e + 1 = s * q + (r + 1)
    BY <1>1, <1>5
  <2>2. (e + 1) \div s = q /\ (e + 1) % s = r + 1
    BY <1>1, <1>3, <2>1
  <2>3. r + 1 # 0
    BY <1>1
  <2> QED
    BY <1>1, <1>2, <2>2, <2>3
<1> QED
  BY <1>4, <1>5

(* Below the wrap int32 changes nothing in the formula of the schedule.    *)
LEMMA ClosedForm ==
  ASSUME NEW ro, IsSchedule(ro), NEW elapsed \in Nat, 100 * (elapsed + 1) < HalfInt32
  PROVE  CanaryPercentage(ro, elapsed)
           = Clamp(OrDefault(ro.initial, 25)
                   + (elapsed \div OrDefault(ro.step, DefaultStep)) * OrDefault(ro.increment, 25))
<1> DEFINE a == OrDefault(ro.initial, 25)
           c == OrDefault(ro.increment, 25)
           n == elapsed \div OrDefault(ro.step, DefaultStep)
<1>1. a \in 0..100 /\ c \in 0..100 /\ OrDefault(ro.step, DefaultStep) \in Nat \ {0}
  BY RolloutAssumption DEF IsSchedule, OrDefault, Percent
<1>2. n \in Nat /\ n <= elapsed
  BY <1>1, NextStep
<1>3. CanaryPercentage(ro, elapsed) = Clamp(Int32(a + Int32(Int32(n) * c)))
  BY DEF CanaryPercentage
<1> HIDE DEF a, c, n
<1>4. n * c \in Nat /\ n * c <= 100 * elapsed
  <2>1. n * c \in Nat /\ n * c <= n * 100
    BY <1>1, <1>2
  <2>2. n * 100 <= 100 * elapsed
    BY <1>2
  <2> QED
    BY <1>1, <1>2, <2>1, <2>2
<1>5. a + n * c \in Nat /\ a + n * c < HalfInt32 /\ n * c < HalfInt32 /\ n < HalfInt32
  BY <1>1, <1>2, <1>4, RolloutAssumption
<1>6. Int32(n) = n /\ Int32(n * c) = n * c /\ Int32(a + n * c) = a + n * c
  BY <1>2, <1>4, <1>5, Int32Fits
<1> QED
  BY <1>3, <1>6 DEF a, c, n

(* Short of the wrap of int32 the scheduled share never falls while only   *)
(* time passes, for every initial share, increment and step length         *)
(* (transfergw_controller.go:691-712).                                     *)
THEOREM ScheduleGrows ==
  ASSUME NEW ro, IsSchedule(ro), NEW elapsed \in Nat, 100 * (elapsed + 2) < HalfInt32
  PROVE  CanaryPercentage(ro, elapsed) <= CanaryPercentage(ro, elapsed + 1)
<1> DEFINE a == OrDefault(ro.initial, 25)
           c == OrDefault(ro.increment, 25)
           s == OrDefault(ro.step, DefaultStep)
           n == elapsed \div s
           m == (elapsed + 1) \div s
<1>1. a \in Nat /\ c \in Nat /\ s \in Nat \ {0}
  BY RolloutAssumption DEF IsSchedule, OrDefault, Percent
<1>2. n \in Nat /\ (m = n \/ m = n + 1)
  BY <1>1, NextStep
<1>3. CanaryPercentage(ro, elapsed) = Clamp(a + n * c)
      /\ CanaryPercentage(ro, elapsed + 1) = Clamp(a + m * c)
  <2>1. elapsed + 1 \in Nat /\ 100 * (elapsed + 1) < HalfInt32
        /\ 100 * ((elapsed + 1) + 1) < HalfInt32
    BY RolloutAssumption
  <2> QED
    BY <2>1, ClosedForm
<1> HIDE DEF a, c, s, n, m
<1>4. n * c \in Nat /\ (m * c = n * c \/ m * c = n * c + c)
  BY <1>1, <1>2
<1>5. Clamp(a + n * c) <= Clamp(a + m * c)
  <2>1. a + n * c \in Nat /\ a + m * c \in Nat /\ a + n * c <= a + m * c
    BY <1>1, <1>4
  <2> QED
    BY <2>1 DEF Clamp
<1> QED
  BY <1>3, <1>5

-----------------------------------------------------------------------------
(* An approval is never exceeded and lets through nothing the schedule did *)
(* not ask for.                                                            *)
LEMMA ApprovedShareBounds ==
  ASSUME NEW ro, IsRollout(ro), NEW percentage \in Percent
  PROVE  /\ ApprovedShare(ro, percentage) \in Percent
         /\ ApprovedShare(ro, percentage) <= percentage
         /\ ro.requireApproval => ApprovedShare(ro, percentage) <= ro.approved
BY DEF ApprovedShare, IsRollout, Percent
=============================================================================
