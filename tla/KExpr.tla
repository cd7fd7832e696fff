------------------------------- MODULE KExpr --------------------------------
(* The expressions of Kconfig files (tools/kconfig/expr.c): how they are   *)
(* built, compared, simplified, evaluated and printed.  A tristate is 0 (n),*)
(* 1 (m) or 2 (y).  A NULL expression, which stands for y, is the record    *)
(* NULL; a comparison names two symbols, as in the code.                    *)
EXTENDS Integers, Sequences, SequencesExt

CONSTANTS
  SymType,    \* the type of every config symbol: a function to type names
  StrOrder,   \* the strings in play, in strcmp order
  Num         \* the strings that parse as numbers, with their value

ASSUME NumOfStrings == DOMAIN Num \subseteq Range(StrOrder)

no == 0
mod == 1
yes == 2

Comparisons == {"EQUAL", "UNEQUAL", "LTH", "LEQ", "GTH", "GEQ"}
Consts == {"y", "m", "n"}

TypeOf(s) == IF s \in DOMAIN SymType THEN SymType[s] ELSE "unknown"
IsTri(s) == TypeOf(s) \in {"bool", "tristate"}

NULL == [t |-> "NULL"]
expr_alloc_symbol(s) == [t |-> "SYMBOL", s |-> s]
expr_alloc_one(type, e) == [t |-> type, l |-> e]
expr_alloc_two(type, e1, e2) == [t |-> type, l |-> e1, r |-> e2]
expr_alloc_comp(type, s1, s2) == [t |-> type, a |-> s1, b |-> s2]
expr_alloc_and(e1, e2) ==
  IF e1 = NULL THEN e2 ELSE IF e2 = NULL THEN e1 ELSE expr_alloc_two("AND", e1, e2)
expr_alloc_or(e1, e2) ==
  IF e1 = NULL THEN e2 ELSE IF e2 = NULL THEN e1 ELSE expr_alloc_two("OR", e1, e2)

SymY == expr_alloc_symbol("y")
SymM == expr_alloc_symbol("m")
SymN == expr_alloc_symbol("n")
expr_is_yes(e) == e \in {NULL, SymY}
expr_is_no(e) == e = SymN

\* The operand that leaves an && or || alone, and the one that decides it.
Unit(type) == IF type = "AND" THEN SymY ELSE SymN
Zero(type) == IF type = "AND" THEN SymN ELSE SymY

----------------------------------------------------------------------------
(* Evaluation.  A valuation gives every symbol its tristate and its string.*)

EXPR_AND(a, b) == IF a < b THEN a ELSE b
EXPR_OR(a, b) == IF a > b THEN a ELSE b
EXPR_NOT(a) == 2 - a

Rank(str) == CHOOSE i \in DOMAIN StrOrder : StrOrder[i] = str

\* A string as a number; bool and tristate symbols always parse, the others
\* only when the whole string is a number.
expr_parse_string(str, type) ==
  IF type \in {"bool", "tristate"}
  THEN [num |-> TRUE, v |-> CASE str = "n" -> 0 [] str = "m" -> 1 [] str = "y" -> 2 [] OTHER -> -1]
  ELSE IF str \in DOMAIN Num THEN [num |-> TRUE, v |-> Num[str]] ELSE [num |-> FALSE, v |-> 0]

TriOf(v, s) == CASE s = "y" -> yes [] s = "m" -> mod [] s = "n" -> no
                 [] s \in DOMAIN v.tri -> v.tri[s] [] OTHER -> no
StrOf(v, s) == IF s \in DOMAIN v.str THEN v.str[s] ELSE s

\* Sign of the comparison of two symbols.
Compare(v, s1, s2) ==
  LET k1 == expr_parse_string(StrOf(v, s1), TypeOf(s1))
      k2 == expr_parse_string(StrOf(v, s2), TypeOf(s2))
      numeric == ~(TypeOf(s1) = "string" /\ TypeOf(s2) = "string") /\ k1.num /\ k2.num
  IN  IF numeric THEN k1.v - k2.v ELSE Rank(StrOf(v, s1)) - Rank(StrOf(v, s2))

Holds(type, c) ==
  CASE type = "EQUAL" -> c = 0 [] type = "UNEQUAL" -> c # 0
    [] type = "LTH" -> c < 0   [] type = "LEQ" -> c <= 0
    [] type = "GTH" -> c > 0   [] type = "GEQ" -> c >= 0

RECURSIVE expr_calc_value(_, _)
expr_calc_value(v, e) ==
  CASE e.t = "NULL" -> yes
    [] e.t = "SYMBOL" -> TriOf(v, e.s)
    [] e.t = "AND" -> EXPR_AND(expr_calc_value(v, e.l), expr_calc_value(v, e.r))
    [] e.t = "OR" -> EXPR_OR(expr_calc_value(v, e.l), expr_calc_value(v, e.r))
    [] e.t = "NOT" -> EXPR_NOT(expr_calc_value(v, e.l))
    [] e.t \in Comparisons -> IF Holds(e.t, Compare(v, e.a, e.b)) THEN yes ELSE no

----------------------------------------------------------------------------
(* Comparing and simplifying.                                              *)

WithoutUnits(type, l, r) ==
  CASE Zero(type) \in {l, r} -> Zero(type)
    [] l = Unit(type) -> r
    [] l # Unit(type) /\ r = Unit(type) -> l
    [] OTHER -> expr_alloc_two(type, l, r)

\* y and n operands of && and || disappear.
RECURSIVE expr_eliminate_yn(_)
expr_eliminate_yn(e) ==
  IF e.t \notin {"AND", "OR"} THEN e
  ELSE WithoutUnits(e.t, expr_eliminate_yn(e.l), expr_eliminate_yn(e.r))

\* Every leaf of e1 is compared with every leaf of e2; equal leaves are
\* both replaced by the unit of the operator.  The pair is returned.
RECURSIVE eliminate_eq1(_, _, _), expr_eliminate_eq(_, _), expr_eq(_, _)

\* What is left after the left operand of e1, or of e2, gave the pair q.
SplitBack1(e1, l, q) == <<[e1 EXCEPT !.l = l, !.r = q[1]], q[2]>>
RightOf1(type, e1, q) == SplitBack1(e1, q[1], eliminate_eq1(type, e1.r, q[2]))
SplitBack2(e2, l, q) == <<q[1], [e2 EXCEPT !.l = l, !.r = q[2]]>>
RightOf2(type, e2, q) == SplitBack2(e2, q[2], eliminate_eq1(type, q[1], e2.r))

eliminate_eq1(type, e1, e2) ==
  IF e1.t = type THEN RightOf1(type, e1, eliminate_eq1(type, e1.l, e2))
  ELSE IF e2.t = type THEN RightOf2(type, e2, eliminate_eq1(type, e1, e2.l))
  ELSE IF (e1 = e2 /\ e1 \in {SymY, SymN}) \/ ~expr_eq(e1, e2) THEN <<e1, e2>>
  ELSE <<Unit(type), Unit(type)>>

\* For the operator of the second expression, if the first has another.
ForSecond(q) ==
  IF q[1].t # q[2].t /\ q[2].t \in {"AND", "OR"} THEN eliminate_eq1(q[2].t, q[1], q[2]) ELSE q
EachWithoutUnits(q) == <<expr_eliminate_yn(q[1]), expr_eliminate_yn(q[2])>>

expr_eliminate_eq(e1, e2) ==
  IF NULL \in {e1, e2} THEN <<e1, e2>>
  ELSE EachWithoutUnits(ForSecond(
         IF e1.t \in {"AND", "OR"} THEN eliminate_eq1(e1.t, e1, e2) ELSE <<e1, e2>>))

SameSymbol(q) == q[1].t = "SYMBOL" /\ q[1] = q[2]

expr_eq_IgnoresRhs(e1, e2) ==
  e1.t = e2.t /\ CASE e1.t = "NOT" -> expr_eq(e1.l, e2.l)
                   [] e1.t \in {"AND", "OR"} -> e1 = e2
                   [] e1.t \in Comparisons -> e1.a = e2.a
                   [] OTHER -> e1 = e2
expr_eq(e1, e2) ==
  IF NULL \in {e1, e2} THEN expr_is_yes(e1) /\ expr_is_yes(e2)
  ELSE /\ e1.t = e2.t
       /\ CASE e1.t = "NOT" -> expr_eq(e1.l, e2.l)
            [] e1.t \in {"AND", "OR"} -> SameSymbol(expr_eliminate_eq(e1, e2))
            [] OTHER -> e1 = e2

\* The symbol two operands of an && or || are about, if they can be joined:
\* the first operand may be a negated comparison, the second may not.
Left(e) == IF e.t = "SYMBOL" THEN e.s ELSE e.a
Joinable(e1, e2) ==
  LET plain == {"EQUAL", "UNEQUAL", "SYMBOL"}
      operand(e) == IF e.t = "NOT" THEN e.l ELSE e
  IN  /\ operand(e1).t \in plain
      /\ e2.t \in plain \/ (e2.t = "NOT" /\ e2.l.t = "SYMBOL")
      /\ Left(operand(e1)) = Left(operand(e2))
      /\ IsTri(Left(operand(e1)))

\* Comparisons of one tristate with two of y, m and n, and the third.
TwoConsts(type, e1, e2) ==
  e1.t = type /\ e2.t = type /\ e1.b \in Consts /\ e2.b \in Consts /\ e1.b # e2.b
Third(e1, e2) == CHOOSE c \in Consts : c \notin {e1.b, e2.b}

expr_join_or(e1, e2) ==
  IF expr_eq(e1, e2) THEN e1
  ELSE IF ~Joinable(e1, e2) THEN NULL
  ELSE LET s == Left(IF e1.t = "NOT" THEN e1.l ELSE e1)
       IN  CASE TypeOf(s) = "tristate" /\ TwoConsts("EQUAL", e1, e2) ->
                  expr_alloc_comp("UNEQUAL", s, Third(e1, e2))
             [] /\ TypeOf(s) = "bool"
                /\ {e1, e2} = {expr_alloc_symbol(s), expr_alloc_one("NOT", expr_alloc_symbol(s))} -> SymY
             [] OTHER -> NULL

\* A && A!=m taken for A
expr_join_and_ModLost(e1, e2) ==
  IF e1.t = "SYMBOL" /\ e2.t = "UNEQUAL" /\ e2.a = e1.s /\ e2.b = "m" THEN e1 ELSE NULL
expr_join_and(e1, e2) ==
  IF expr_eq(e1, e2) THEN e1
  ELSE IF ~Joinable(e1, e2) THEN NULL
  ELSE LET s == Left(IF e1.t = "NOT" THEN e1.l ELSE e1)
           with(type, c) == {e1, e2} = {expr_alloc_symbol(s), expr_alloc_comp(type, s, c)}
           tri == TypeOf(s) = "tristate"
           eq == IF e1.t = "EQUAL" THEN e1 ELSE e2
           ne == IF e1.t = "EQUAL" THEN e2 ELSE e1
       IN  CASE with("EQUAL", "y") \/ with("UNEQUAL", "m") -> expr_alloc_comp("EQUAL", s, "y")
             [] with("UNEQUAL", "n") -> expr_alloc_symbol(s)
             [] /\ tri /\ eq.t = "EQUAL" /\ ne.t = "UNEQUAL"
                /\ eq.b \in Consts /\ ne.b \in Consts -> IF eq.b = ne.b THEN SymN ELSE eq
             [] tri /\ TwoConsts("UNEQUAL", e1, e2) -> expr_alloc_comp("EQUAL", s, Third(e1, e2))
             [] OTHER -> NULL

\* Subterm of e at path p, and e with that subterm replaced.
RECURSIVE At(_, _), Put(_, _, _)
At(e, p) == IF p = <<>> THEN e ELSE At(e[Head(p)], Tail(p))
Put(e, p, x) == IF p = <<>> THEN x ELSE [e EXCEPT ![Head(p)] = Put(@, Tail(p), x)]

\* Joins, in place, the leaves below paths p1 and p2; w.n counts the joins.
RECURSIVE expr_eliminate_dups1(_, _, _, _), expr_eliminate_dups(_)
TypeAt(w, p) == At(w.e, p).t
expr_join(type, e1, e2) == IF type = "OR" THEN expr_join_or(e1, e2) ELSE expr_join_and(e1, e2)
Joined(type, w, p1, p2, j) ==
  IF j = NULL THEN w ELSE [e |-> Put(Put(w.e, p1, Unit(type)), p2, j), n |-> w.n + 1]
JoinAt(type, w, p1, p2, e2) == Joined(type, w, p1, p2, expr_join(type, At(w.e, p1), e2))

expr_eliminate_dups1(type, w, p1, p2) ==
  IF TypeAt(w, p1) = type
  THEN expr_eliminate_dups1(type, expr_eliminate_dups1(type, w, Append(p1, "l"), p2), Append(p1, "r"), p2)
  ELSE IF TypeAt(w, p2) = type
  THEN expr_eliminate_dups1(type, expr_eliminate_dups1(type, w, p1, Append(p2, "l")), p1, Append(p2, "r"))
  ELSE IF p1 = p2 THEN w
  ELSE JoinAt(type,
              IF TypeAt(w, p1) \in {"AND", "OR"} THEN expr_eliminate_dups1(TypeAt(w, p1), w, p1, p1) ELSE w,
              p1, p2, At(w.e, p2))

DupsAgain(w) == IF w.n = 0 THEN w.e ELSE expr_eliminate_dups(expr_eliminate_yn(w.e))
expr_eliminate_dups(e) ==
  IF e.t \notin {"AND", "OR"} THEN e
  ELSE DupsAgain(expr_eliminate_dups1(e.t, [e |-> e, n |-> 0], <<>>, <<>>))

\* For bool symbols, A!=n is A.
RECURSIVE expr_trans_bool(_)
expr_trans_bool(e) ==
  CASE e.t = "NOT" -> [e EXCEPT !.l = expr_trans_bool(@)]
    [] e.t \in {"AND", "OR"} -> [e EXCEPT !.l = expr_trans_bool(@), !.r = expr_trans_bool(@)]
    [] e.t = "UNEQUAL" /\ e.b = "n" /\ TypeOf(e.a) = "tristate" -> expr_alloc_symbol(e.a)
    [] OTHER -> e

Negated(type) ==
  CASE type = "EQUAL" -> "UNEQUAL" [] type = "UNEQUAL" -> "EQUAL"
    [] type = "LEQ" -> "GTH" [] type = "GTH" -> "LEQ"
    [] type = "GEQ" -> "LTH" [] type = "LTH" -> "GEQ"

\* A bool compared with y, m or n.
TransformComp(e) ==
  LET a == expr_alloc_symbol(e.a)
      same == (e.t = "EQUAL") = (e.b = "y")
  IN  IF e.b = "m" THEN (IF e.t = "EQUAL" THEN SymN ELSE SymY)
      ELSE IF same THEN a ELSE expr_alloc_one("NOT", a)

\* Negations move to the leaves; comparisons of bools become symbols.
RECURSIVE expr_transform(_)
expr_transform(e0) ==
  LET e == CASE e0.t = "NOT" -> [e0 EXCEPT !.l = expr_transform(@)]
             [] e0.t \in {"AND", "OR"} -> [e0 EXCEPT !.l = expr_transform(@), !.r = expr_transform(@)]
             [] OTHER -> e0
      n(x) == expr_alloc_one("NOT", x)
  IN  CASE e.t \in {"EQUAL", "UNEQUAL"} /\ TypeOf(e.a) = "bool" /\ e.b \in Consts -> TransformComp(e)
        [] e.t = "NOT" /\ e.l.t = "NOT" -> expr_transform(e.l.l)
        [] e.t = "NOT" /\ e.l.t \in Comparisons -> [e.l EXCEPT !.t = Negated(@)]
        [] e.t = "NOT" /\ e.l.t = "OR" -> expr_transform(expr_alloc_two("AND", n(e.l.l), n(e.l.r)))
        [] e.t = "NOT" /\ e.l.t = "AND" -> expr_transform(expr_alloc_two("OR", n(e.l.l), n(e.l.r)))
        [] e.t = "NOT" /\ e.l = SymY -> SymN
        [] e.t = "NOT" /\ e.l = SymM -> SymM
        [] e.t = "NOT" /\ e.l = SymN -> SymY
        [] OTHER -> e

RECURSIVE expr_contains_symbol(_, _)
expr_contains_symbol(e, s) ==
  CASE e.t \in {"AND", "OR"} -> expr_contains_symbol(e.l, s) \/ expr_contains_symbol(e.r, s)
    [] e.t = "NOT" -> expr_contains_symbol(e.l, s)
    [] e.t = "SYMBOL" -> e.s = s
    [] e.t \in Comparisons -> s \in {e.a, e.b}
    [] OTHER -> FALSE

\* e cannot be true unless s is set.
RECURSIVE expr_depends_symbol(_, _)
expr_depends_symbol_ThroughOr(e, s) ==
  CASE e.t \in {"AND", "OR"} -> expr_depends_symbol(e.l, s) \/ expr_depends_symbol(e.r, s)
    [] e.t = "SYMBOL" -> e.s = s
    [] OTHER -> FALSE
expr_depends_symbol(e, s) ==
  CASE e.t = "AND" -> expr_depends_symbol(e.l, s) \/ expr_depends_symbol(e.r, s)
    [] e.t = "SYMBOL" -> e.s = s
    [] e.t = "EQUAL" -> e.a = s /\ e.b \in {"y", "m"}
    [] e.t = "UNEQUAL" -> e.a = s /\ e.b = "n"
    [] OTHER -> FALSE

\* e with explicit comparisons against c, one of y, m and n.
RECURSIVE expr_trans_compare(_, _, _)
expr_trans_compare(e, type, c) ==
  LET negate(x) == IF type = "UNEQUAL" THEN expr_alloc_one("NOT", x) ELSE x
      both(op) == expr_alloc_two(op, expr_trans_compare(e.l, "EQUAL", c), expr_trans_compare(e.r, "EQUAL", c))
      dual(op) == IF op = "AND" THEN "OR" ELSE "AND"
  IN  CASE e.t = "NULL" -> negate(expr_alloc_symbol(c))
        [] e.t \in {"AND", "OR"} ->
             negate(CASE c = "y" -> both(e.t) [] c = "n" -> both(dual(e.t)) [] OTHER -> e)
        [] e.t = "NOT" -> expr_trans_compare(e.l, Negated(type), c)
        [] e.t = "SYMBOL" -> expr_alloc_comp(type, e.s, c)
        [] e.t \in Comparisons ->
             CASE c = "y" -> negate(e)
               [] c = "m" -> IF type = "EQUAL" THEN SymN ELSE SymY
               [] c = "n" -> IF type = "EQUAL" THEN expr_alloc_one("NOT", e) ELSE e

----------------------------------------------------------------------------
(* Printing, and the grammar that reads expressions back.                  *)

\* expr_compare_type(t1, t2) > 0.
Level(t) == CASE t = "NONE" -> 0 [] t = "OR" -> 2 [] t = "AND" -> 3 [] t = "NOT" -> 4
              [] t \in {"EQUAL", "UNEQUAL"} -> 5 [] t \in {"LTH", "LEQ", "GTH", "GEQ"} -> 6
              [] OTHER -> 7
expr_compare_type_Backwards(t1, t2) == Level(t1) < Level(t2)
expr_compare_type(t1, t2) == Level(t1) > Level(t2)

RECURSIVE expr_print(_, _)
expr_print(e, prevtoken) ==
  LET body == CASE e.t = "NULL" -> <<"y">>
                [] e.t = "SYMBOL" -> <<e.s>>
                [] e.t = "NOT" -> <<"!">> \o expr_print(e.l, "NOT")
                [] e.t \in Comparisons -> <<e.a, e.t, e.b>>
                [] e.t \in {"AND", "OR"} -> expr_print(e.l, e.t) \o <<e.t>> \o expr_print(e.r, e.t)
  IN  IF e.t # "NULL" /\ expr_compare_type(prevtoken, e.t) THEN <<"(">> \o body \o <<")">> ELSE body

\* Expression read from position i of tokens s; && binds tighter than ||,
\* ! than both, and the binary operators associate to the left.
RECURSIVE ParseLevel(_, _, _), ParseRest(_, _, _)
ParseLevel(op, s, i) ==
  CASE op = "OR" -> ParseRest("OR", s, ParseLevel("AND", s, i))
    [] op = "AND" -> ParseRest("AND", s, ParseLevel("NOT", s, i))
    [] s[i] = "!" -> LET q == ParseLevel("NOT", s, i + 1) IN [e |-> expr_alloc_one("NOT", q.e), i |-> q.i]
    [] s[i] = "(" -> LET q == ParseLevel("OR", s, i + 1) IN [e |-> q.e, i |-> q.i + 1]
    [] i < Len(s) /\ s[i + 1] \in Comparisons -> [e |-> expr_alloc_comp(s[i + 1], s[i], s[i + 2]), i |-> i + 3]
    [] OTHER -> [e |-> expr_alloc_symbol(s[i]), i |-> i + 1]
ParseRest(op, s, w) ==
  IF w.i > Len(s) \/ s[w.i] # op THEN w
  ELSE LET q == ParseLevel(IF op = "OR" THEN "AND" ELSE "NOT", s, w.i + 1)
       IN  ParseRest(op, s, [e |-> expr_alloc_two(op, w.e, q.e), i |-> q.i])
parse(s) == ParseLevel("OR", s, 1).e
=============================================================================
