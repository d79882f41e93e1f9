---------------------------- MODULE TrafficSplit ----------------------------
(***************************************************************************)
(* What a migration promises about user traffic, with no controller in     *)
(* sight: a share of it on the Gateway, which moves unless a rollback      *)
(* holds it, and does not rise before it was approved.                     *)
(***************************************************************************)
EXTENDS Naturals

CONSTANT Gated  \* every spec carries a PreRollout hook

VARIABLES
  share,       \* percentage of the traffic on the Gateway
  generation,  \* the generation of the spec
  held,        \* the generation a rollback holds, 0 if there is none
  approvals    \* the generations the PreRollout hook approved

splitVars == <<share, generation, held, approvals>>

SplitInit == share = 0 /\ generation = 1 /\ held = 0 /\ approvals = {}

Edit == generation' = generation + 1 /\ UNCHANGED <<share, held, approvals>>

Approve ==
  /\ \E g \in 1..generation : approvals' = approvals \union {g}
  /\ UNCHANGED <<share, generation, held>>

Free == held # generation

(* The share moves; a rollback of an earlier generation is over.           *)
Move ==
  /\ Free /\ held' = 0
  /\ share' \in 0..100
  /\ Gated /\ share' > share => approvals # {}
  /\ UNCHANGED <<generation, approvals>>

RollBackTo0 ==
  /\ Free /\ share' = 0 /\ held' \in 1..generation
  /\ UNCHANGED <<generation, approvals>>

SplitNext == Edit \/ Approve \/ Move \/ RollBackTo0

SplitSpec == SplitInit /\ [][SplitNext]_splitVars
=============================================================================
