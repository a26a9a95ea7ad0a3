-------------------------- MODULE RuleLifecycleMC --------------------------
(* An instance of RuleLifecycle for TLC: two users whose roles change, two *)
(* drafts, and three rules, two of which differ in the case of their id.   *)
EXTENDS RuleLifecycle, TLC

CONSTANTS d1, d2, ann, bob

TwoUsers == ann :> {"author", "reviewer"}
              @@ bob :> {"reviewer", "operator"}

Ids   == {"x", "X", "y"}
Lower == [i \in Ids |-> IF i = "X" THEN "x" ELSE i]

Lowercase == [id |-> "x", body |-> "b"]
Uppercase == [id |-> "X", body |-> "b"]
Broken    == [id |-> "y", body |-> "bad"]
ThreeRules == {Lowercase, Uppercase, Broken}
GoodRules  == {Lowercase, Uppercase}

Replacements == {Uppercase}
Bounds == d1 :> 2 @@ d2 :> 1
=============================================================================
