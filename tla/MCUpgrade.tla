------------------------------- MODULE MCUpgrade ------------------------------
(* Upgrade Guard on a small instance: two versions, one of which may have a    *)
(* wider surface, and one canary, the user's or the template's.                *)
EXTENDS UpgradeGuard

Tree(version, surface, code) == [version |-> version, surface |-> surface, code |-> code]
MCTrees == {Tree("1", "narrow", "a"), Tree("2", "narrow", "b"), Tree("2", "wide", "b")}
MCConfigs == { [template |-> FALSE, canaries |-> <<"own">>, trials |-> 2],
               [template |-> TRUE, canaries |-> <<"template">>, trials |-> 2] }
MCOutcomes == {[state |-> "PASS", seen |-> "x"], [state |-> "PASS", seen |-> "y"], [state |-> "FAIL", seen |-> "x"]}
MCStarts ==
  { [config |-> [content |-> c, id |-> 0], harness |-> IF c.template THEN "template" ELSE "own", current |-> Tree("1", "narrow", "a"), candidate |-> t]
      : c \in MCConfigs, t \in MCTrees }
=============================================================================
