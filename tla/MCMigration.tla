---------------------------- MODULE MCMigration ----------------------------
(* Instances of Migration for TLC.                                         *)
EXTENDS Migration

(* 60% of the traffic at once, the rest a tick later.                      *)
Gradual ==
  [paused |-> FALSE, mode |-> "gradual", initial |-> 60, increment |-> 50,
   step |-> 1, requireApproval |-> FALSE, approved |-> 0,
   hooks |-> {}, monitored |-> TRUE, alerting |-> "URL"]

Hooks == {"PreConversion", "PreRollout", "PostRollout"}

(* Approved up to 50%, on its schedule alone, or paused.                   *)
GuardedSpecs ==
  {[Gradual EXCEPT !.hooks = Hooks, !.requireApproval = TRUE, !.approved = 50],
   [Gradual EXCEPT !.hooks = Hooks],
   [Gradual EXCEPT !.hooks = Hooks, !.paused = TRUE]}

(* One hook, an approval that is raised or lowered, alerts to a webhook of *)
(* the spec or to the default one.                                         *)
GatedSpecs ==
  {[Gradual EXCEPT !.hooks = {"PreRollout"}, !.requireApproval = TRUE, !.approved = 50],
   [Gradual EXCEPT !.hooks = {"PreRollout"}, !.requireApproval = TRUE, !.approved = 100,
                   !.alerting = "unset"]}

Whole   == [total |-> 2, converted |-> 2, failed |-> 0]
Part    == [total |-> 2, converted |-> 1, failed |-> 1]
Nothing == [total |-> 1, converted |-> 0, failed |-> 1]
NoneSelected == [total |-> 0, converted |-> 0, failed |-> 0]

AllOutcomes == {Whole, Part, Nothing, NoneSelected}
=============================================================================
