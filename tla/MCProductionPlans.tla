-------------------------- MODULE MCProductionPlans --------------------------
(* Small instances of ProductionPlans for TLC: a platform with three slots, *)
(* of which the category knows two.                                         *)
EXTENDS ProductionPlans, TLC

Slots == << [key |-> "hero", view |-> "front", rules |-> "size"],
            [key |-> "video", view |-> "front", rules |-> "size"],
            [key |-> "feature", view |-> "side", rules |-> "text"] >>
Category == [k \in {"hero", "feature"} |-> IF k = "hero" THEN {"front"} ELSE {"front", "side"}]
Requestors == Permutations(Requests)
=============================================================================
