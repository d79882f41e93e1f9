---------------------------- MODULE MCMonitoring ----------------------------
(* Instances of Monitoring for TLC.                                        *)
EXTENDS Monitoring

NoThresholds == [k \in MetricNames |-> Unset]

(* Shares and steps around the interesting values: unset, one, values that *)
(* miss 100 and values that hit it.                                        *)
Unmonitored ==
  [initial : {0, 1, 50, 99, 100}, increment : {0, 1, 33, 50, 100}, step : 0..3,
   monitored : {FALSE}, thresholds : {NoThresholds}, interval : {0}]

(* An error rate of 0 is a threshold, resets of 0 are none.                *)
Limits ==
  [NoThresholds EXCEPT !["error rate"] = 0, !["latency"] = 2,
                       !["connection resets"] = 0, !["throughput"] = 50]

(* 50%, and 100% two ticks later; 25% for as long as time is looked at.    *)
Monitored ==
  {[initial |-> 50, increment |-> 50, step |-> 2, monitored |-> TRUE,
    thresholds |-> Limits, interval |-> 0],
   [initial |-> 25, increment |-> 1, step |-> 3, monitored |-> TRUE,
    thresholds |-> Limits, interval |-> 2]}

AllPlans == Unmonitored \union Monitored

Calm == [k \in MetricNames |-> [ingress |-> 1, gateway |-> 1]]

Idle == [Calm EXCEPT !["error rate"] = [ingress |-> 0, gateway |-> 0]]

Pair(i, g) == [ingress |-> i, gateway |-> g]

(* One metric after the other away from a healthy state.                   *)
ErrorPairs == {Pair(0, 1), Pair(1, 1), Pair(2, 1), Pair(NoSample, 1), Pair(1, NoSample)}
LatencyPairs == {Pair(1, 2), Pair(2, 3), Pair(3, 3), Pair(1, 3), Pair(Failure, 3),
                 Pair(1, Failure), Pair(NoSample, Failure)}
ThroughputPairs == {Pair(2, 1), Pair(3, 1), Pair(0, 0), Pair(1, 0), Pair(NoSample, 0)}

Single ==
  {[Idle EXCEPT !["error rate"] = p] : p \in ErrorPairs}
    \union {[Idle EXCEPT !["latency"] = p] : p \in LatencyPairs}
    \union {[Idle EXCEPT !["throughput"] = p] : p \in ThroughputPairs}

(* A breach beside another metric's failure, lack of data or breach.       *)
Double ==
  {[Idle EXCEPT !["error rate"] = p, !["latency"] = q] :
     p \in {Pair(0, 1)}, q \in {Pair(1, 3), Pair(1, Failure), Pair(NoSample, Failure)}}

Numbers == {Idle} \union Single \union Double

(* histogram_quantile over a histogram nothing was counted in.             *)
NoTraffic == {Idle, [Idle EXCEPT !["latency"] = Pair(1, NaN)]}

DefaultQueries == <<"error rate", "latency", "throughput">>
=============================================================================
