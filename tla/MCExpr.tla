------------------------------- MODULE MCExpr -------------------------------
(* Expressions of up to three operators over small numbers and a register. *)
(* Words 3 to 9 are memory.                                                *)
EXTENDS Expr

Binary(Cs, A, B) == {[k |-> c, l |-> x, r |-> y] : c \in Cs, x \in A, y \in B}
Any == {"+", "-", "*", "/"}
Derefs(A) == {[k |-> "deref", l |-> x] : x \in A}
One(L) == Derefs(L) \cup Binary(Any, L, L)
Two(L) == Derefs(One(L)) \cup Binary(Any, One(L), L) \cup Binary(Any, L, One(L))
Three(L) == Derefs(Two(L)) \cup Binary(Any, One(L), One(L))
              \cup Binary(Any, Two(L), L) \cup Binary(Any, L, Two(L))

Leaves == {Num(2), Num(3), Reg("a0")}
\* "2 * (3 - **a0)": two dereferences inside parentheses.
Nested == Binary({"*"}, {Num(2)}, Binary({"-"}, {Num(3)}, Derefs(Derefs({Reg("a0")}))))
AllTrees == Leaves \cup Two(Leaves) \cup One(Leaves) \cup Three({Num(2), Reg("a0")}) \cup Nested

SmallTypos == {Typo(s) : s \in {<<Op("(")>>, <<Op(")"), Op("(")>>, <<Num(1), Op("=="), Num(2)>>,
                                 <<[k |-> "word"]>>, <<Reg("r9")>>}}
SmallMem == [a \in 3 .. 9 |-> (a * 3 + 5) % 12]
SmallRegs == [r \in {"a0"} |-> 7]
=============================================================================
