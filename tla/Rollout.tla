------------------------------ MODULE Rollout ------------------------------
(***************************************************************************)
(* The rollout schedule: how large a share of the traffic the Gateway      *)
(* should be taking, from spec.rollout, the outcome of the conversion and  *)
(* the time elapsed since the TransferGW was created.                      *)
(*                                                                         *)
(* The code computes in Go's int32.  HalfInt32 is half the number of int32 *)
(* values (2^31 in Go); it is a parameter so that TLC can reach the wrap   *)
(* with small numbers.  A field left unset in the spec is 0, as in Go, and *)
(* so is a stepDuration that does not parse or is not positive.            *)
(***************************************************************************)
EXTENDS Integers

CONSTANTS HalfInt32,   \* int32 covers -HalfInt32 .. HalfInt32 - 1
          DefaultStep  \* ticks of the clock in the default step of one hour

ASSUME RolloutAssumption ==
  /\ HalfInt32 \in Nat /\ HalfInt32 > 100
  /\ DefaultStep \in Nat \ {0}

Percent == 0..100

Modes == {"immediate", "gradual", "canary"}

Int32(n) == ((n + HalfInt32) % (2 * HalfInt32)) - HalfInt32

(* A value that is set wins over the code's default.                       *)
OrDefault(value, default) == IF value > 0 THEN value ELSE default

Clamp_NoUpperBound(n) == IF n < 0 THEN 0 ELSE n

Clamp(n) == IF n > 100 THEN 100 ELSE IF n < 0 THEN 0 ELSE n

CanaryPercentage_Restarts(ro, elapsed) ==
  LET initial   == OrDefault(ro.initial, 25)
      increment == OrDefault(ro.increment, 25)
      steps     == Int32(elapsed \div OrDefault(ro.step, DefaultStep))
  IN  (initial + steps * increment) % 101

CanaryPercentage_FirstStepFree(ro, elapsed) ==
  LET initial   == OrDefault(ro.initial, 25)
      increment == OrDefault(ro.increment, 25)
      steps     == Int32((elapsed + 1) \div OrDefault(ro.step, DefaultStep))
  IN  Clamp(Int32(initial + Int32(steps * increment)))

CanaryPercentage(ro, elapsed) ==
  LET initial   == OrDefault(ro.initial, 25)
      increment == OrDefault(ro.increment, 25)
      steps     == Int32(elapsed \div OrDefault(ro.step, DefaultStep))
  IN  Clamp(Int32(initial + Int32(steps * increment)))

RolloutPercentage_IgnoresFailures(ro, converted, failed, elapsed) ==
  IF converted = 0 THEN 0
  ELSE IF ro.mode \in {"gradual", "canary"} THEN CanaryPercentage(ro, elapsed)
  ELSE 100

RolloutPercentage(ro, converted, failed, elapsed) ==
  IF converted = 0 \/ failed > 0 THEN 0
  ELSE IF ro.mode \in {"gradual", "canary"} THEN CanaryPercentage(ro, elapsed)
  ELSE 100

(* requireApproval holds the share at the percentage a human approved.     *)
ApprovedShare(ro, percentage) ==
  IF ro.requireApproval /\ percentage > ro.approved THEN ro.approved ELSE percentage
=============================================================================
