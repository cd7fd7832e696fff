------------------------------ MODULE MCKParser -----------------------------
(* A tristate, a bool and a number, and the comparisons that the rules of  *)
(* expr_join_or and expr_join_and tell apart.                              *)
EXTENDS KParser

MCSymType == [A |-> "tristate", B |-> "bool", N |-> "int"]
MCStrOrder == <<"1", "2", "m", "n", "y">>
MCNum == [x \in {"1", "2"} |-> IF x = "1" THEN 1 ELSE 2]

C(t, a, b) == expr_alloc_comp(t, a, b)
MCLeaves ==
  {expr_alloc_symbol("A"), expr_alloc_symbol("m"),
   C("EQUAL", "A", "y"), C("EQUAL", "A", "m"), C("UNEQUAL", "A", "n"), C("UNEQUAL", "A", "m"),
   C("EQUAL", "B", "n"), C("LTH", "A", "B"), C("GEQ", "N", "2")}
=============================================================================
