------------------------------- MODULE Health -------------------------------
(***************************************************************************)
(* When the Gateway path counts as worse than the Ingress path: the        *)
(* thresholds of spec.monitoring against measurements of both paths.       *)
(*                                                                         *)
(* Measurements are floats in the program.  Here they are integers of some *)
(* small unit and NaN, which compares with nothing; the rounding of floats *)
(* is left out, and an infinity is a number larger than the others.        *)
(***************************************************************************)
EXTENDS Integers, Sequences

CONSTANTS NaN,      \* what strconv.ParseFloat makes of "NaN"
          NoSample  \* a query that came back without a sample

ASSUME HealthAssumption == NaN \notin Int /\ NoSample \notin Int /\ NaN # NoSample

(* In the order in which Compare queries and Evaluate judges them.         *)
Metrics == <<"error rate", "latency", "connection resets", "throughput">>

MetricNames == {Metrics[i] : i \in 1..4}

Value == Nat \union {NaN}

Measurement == [ingress : Value, gateway : Value]

(* A metric without data on one of the paths was not measured.             *)
NotMeasured == [ingress |-> NoSample, gateway |-> NoSample]

Comparisons == [MetricNames -> Measurement \union {NotMeasured}]

NothingMeasured == [k \in MetricNames |-> NotMeasured]

(* errorRate and throughputDelta are pointers and 0 is a threshold; the    *)
(* other two are plain numbers and 0 is unset.  throughputDelta is in      *)
(* percent of the throughput of the Ingress path.                          *)
Unset == -1

Thresholds == [MetricNames -> Nat \union {Unset}]

Configured(t, k) ==
  IF k \in {"error rate", "throughput"} THEN t[k] # Unset ELSE t[k] > 0

(* <= and < of floats.                                                     *)
AtMost(x, y) == x # NaN /\ y # NaN /\ x <= y

Below(x, y) == x # NaN /\ y # NaN /\ x < y

WorseThan_ThresholdOnly(m, t) == ~AtMost(m.gateway, t)

WorseThan(m, t) == ~AtMost(m.gateway, t) /\ ~AtMost(m.gateway, m.ingress)

(* Gateway < Ingress * (1 - delta), with a product that is NaN if Ingress  *)
(* is.                                                                     *)
FallsShort(m, delta) ==
  Below(0, m.ingress) /\ m.gateway # NaN /\ 100 * m.gateway < m.ingress * (100 - delta)

Breaches(t, c, k) ==
  /\ Configured(t, k) /\ c[k] # NotMeasured
  /\ IF k = "throughput" THEN FallsShort(c[k], t[k]) ELSE WorseThan(c[k], t[k])

NoBreach == "none"

(* The first breached threshold.                                           *)
Evaluate(t, c) ==
  IF \E i \in 1..4 : Breaches(t, c, Metrics[i])
  THEN Metrics[CHOOSE i \in 1..4 : /\ Breaches(t, c, Metrics[i])
                                   /\ \A j \in 1..(i - 1) : ~Breaches(t, c, Metrics[j])]
  ELSE NoBreach
=============================================================================
