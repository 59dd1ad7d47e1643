--------------------------- MODULE MCFashionPlans ---------------------------
(* Small instances of FashionPlans for TLC: a side view of a model, a detail *)
(* without one, and the two together; one list names an output twice.        *)
EXTENDS FashionPlans

Lists == {<<"model_side">>, <<"detail">>, <<"model_side", "detail">>, <<"detail", "detail">>}
Beginnings == {{}, {"front"}}
=============================================================================
