----------------------------- MODULE MCGateways -----------------------------
(* Instances of Gateways for TLC.                                          *)
EXTENDS Gateways

CONSTANTS m1, m2, g1, g2, s1, s2

Both == {m1, m2}
Pair == {g1, g2}

(* Two names in one namespace.                                             *)
TwoNames == [m \in Both |-> IF m = m1 THEN "one" ELSE "two"]
OneHome  == [m \in Both |-> "a"]

Spaces   == [g \in Pair |-> "a"]
Defaults == [m \in Both |-> IF m = m1 THEN g1 ELSE g2]

Wants(g) == [generate |-> TRUE, gateway |-> g, class |-> "envoy", paused |-> FALSE]

(* Both want g1 and never let go of it while they exist; one may pause.    *)
KeptSpecs ==
  [m \in Both |-> {Wants(g1), [Wants(g1) EXCEPT !.class = "other"]}
                   \union (IF m = m1 THEN {[Wants(g1) EXCEPT !.paused = TRUE]} ELSE {})]

TLS      == {<<>>, <<s1, NoSecret, s1, s2>>}
=============================================================================
