------------------------- MODULE MCGenerationSteps -------------------------
(* Small instances of GenerationSteps for TLC: two workers with a task     *)
(* each, one or two steps served by one provider.                          *)
EXTENDS GenerationSteps, TLC

CONSTANTS w1, w2, t1, t2, s1, s2, p1

OneTaskEach == (t1 :> w1) @@ (t2 :> w2)
CheckedStep == (s1 :> "checked")
EditAndChecked == (s1 :> "edit") @@ (s2 :> "checked")
OneProvider == [s \in Steps |-> p1]
NoProviderLimit == (p1 :> None)
OneAtATime == (p1 :> 1)
=============================================================================
