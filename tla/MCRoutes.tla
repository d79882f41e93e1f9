----------------------------- MODULE MCRoutes -----------------------------
(* Instances of Routes for TLC.                                            *)
EXTENDS Routes

CONSTANTS m1, m2

Both == {m1, m2}
One  == {m1}

TwoNames == [m \in Both |-> IF m = m1 THEN "one" ELSE "two"]
OneName  == [m \in One |-> "one"]

OneHome  == [m \in Migrations |-> "a"]
TwoHomes == [m \in Migrations |-> IF m = m1 THEN "a" ELSE "b"]
Sites    == [i \in 1..NumIngresses |-> "a"]

Plain == [selectedBy |-> {m1}, kind |-> "HTTPRoute", converts |-> TRUE,
          canary |-> FALSE, weight |-> NoWeight, places |-> {1}, service |-> "v1"]

Canary == [Plain EXCEPT !.canary = TRUE, !.weight = 20, !.service = "v2"]

(* What one TransferGW may meet: primaries and canaries of one place,      *)
(* broken ones of both, Ingresses with that place and another.             *)
OwnShapes ==
  {Plain, Canary, [Plain EXCEPT !.converts = FALSE], [Canary EXCEPT !.converts = FALSE],
   [Canary EXCEPT !.weight = NoWeight],
   [Plain EXCEPT !.places = {1, 2}], [Plain EXCEPT !.places = {1, 2}, !.service = "v3"]}

(* Those of them that make a route come, change and go.                    *)
ComingShapes == {Plain, Canary, [Canary EXCEPT !.weight = NoWeight], [Plain EXCEPT !.converts = FALSE]}

(* An Ingress that is handed from one TransferGW to the other.             *)
HandedShapes == {[Plain EXCEPT !.selectedBy = {m}] : m \in Both}
=============================================================================
