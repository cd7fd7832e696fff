------------------------------ MODULE KParser -------------------------------
(* The value stack of the Kconfig parser while it reads expressions        *)
(* (tools/kconfig/parser.y), and what the simplifications of KExpr promise *)
(* about every expression that can be on it.                               *)
EXTENDS KExpr, FiniteSets

CONSTANTS
  Leaves,      \* the symbols and comparisons that occur in the files
  MaxLeaves,   \* bound on the leaves read
  MaxNots      \* bound on the negations read

VARIABLES stack, leaves, nots

vars == <<stack, leaves, nots>>

Init == stack = <<>> /\ leaves = 0 /\ nots = 0

\* expr: symbol, and expr: symbol T_EQUAL symbol and its siblings
shift(e) ==
  /\ leaves < MaxLeaves
  /\ stack' = Append(stack, e)
  /\ leaves' = leaves + 1
  /\ UNCHANGED nots

\* expr: T_NOT expr
reduce_not ==
  /\ stack # <<>>
  /\ nots < MaxNots
  /\ stack' = Append(Front(stack), expr_alloc_one("NOT", Last(stack)))
  /\ nots' = nots + 1
  /\ UNCHANGED leaves

\* expr: expr T_OR expr, and expr: expr T_AND expr
reduce_two(type) ==
  /\ Len(stack) > 1
  /\ stack' = Append(SubSeq(stack, 1, Len(stack) - 2),
                     expr_alloc_two(type, stack[Len(stack) - 1], Last(stack)))
  /\ UNCHANGED <<leaves, nots>>

Next ==
  \/ \E e \in Leaves : shift(e)
  \/ reduce_not
  \/ \E type \in {"AND", "OR"} : reduce_two(type)

Spec == Init /\ [][Next]_vars

----------------------------------------------------------------------------
(* What the simplifications promise.                                       *)

\* The values a symbol of each type can have, as its string.
StringsOf(s) == CASE TypeOf(s) = "bool" -> {"n", "y"}
                  [] TypeOf(s) = "tristate" -> {"n", "m", "y"}
                  [] OTHER -> DOMAIN Num
TriOfString(x) == CASE x = "y" -> yes [] x = "m" -> mod [] OTHER -> no

\* Every assignment of values to the config symbols.
Valuations ==
  {[str |-> f, tri |-> [s \in DOMAIN f |-> TriOfString(f[s])]] :
     f \in {g \in [DOMAIN SymType -> Range(StrOrder)] : \A s \in DOMAIN SymType : g[s] \in StringsOf(s)}}

Val(v, e) == expr_calc_value(v, e)
SameValue(e1, e2) == \A v \in Valuations : Val(v, e1) = Val(v, e2)
Simplified(e) == expr_eliminate_dups(expr_transform(e))

\* menu_finalize replaces every dependency it reads by expr_transform and
\* expr_eliminate_dups of it; whatever the values of the symbols, the
\* dependency then allows exactly what the file said.
KeepsValue(e) == SameValue(e, expr_transform(e)) /\ SameValue(e, Simplified(e))
SimplificationKeepsValue == stack # <<>> => KeepsValue(Last(stack))

\* Two expressions that expr_eq calls equal have the same value under every
\* assignment, and an entry is put in the submenu of a symbol because its
\* dependencies are a superset of the symbol's (expr_eliminate_eq leaves y)
\* only if they really imply them.
EqualityIsSound ==
  Len(stack) > 1 =>
    LET e1 == stack[Len(stack) - 1]
        e2 == Last(stack)
        dep == Simplified(expr_trans_compare(e1, "UNEQUAL", "n"))
        base == Simplified(expr_trans_compare(e2, "UNEQUAL", "n"))
    IN  /\ expr_eq(e1, e2) => SameValue(e1, e2)
        /\ expr_is_yes(expr_eliminate_eq(dep, base)[2]) =>
             \A v \in Valuations : Val(v, dep) <= Val(v, base)

\* A symbol that expr_depends_symbol finds in an expression switches it off
\* when it is n; where no symbol is m, expr_trans_compare(e, !=, n) is y
\* exactly where e is not n; and for the prompt of a bool, expr_trans_bool,
\* which reads FOO!=n as FOO and so may make m of y, never makes n of what is
\* not n, nor the other way round (expr.c:402).
DependencyTestsAreSound ==
  stack # <<>> =>
    LET e == Last(stack)
        c == expr_trans_compare(e, "UNEQUAL", "n")
        b == expr_trans_bool(Simplified(e))
    IN  \A v \in Valuations :
          /\ \A s \in DOMAIN SymType :
               expr_depends_symbol(e, s) /\ IsTri(s) /\ v.tri[s] = no => Val(v, e) = no
          /\ (\A s \in DOMAIN SymType : v.str[s] # "m") /\ ~expr_contains_symbol(e, "m") =>
               Val(v, c) = IF Val(v, e) = no THEN no ELSE yes
          /\ (Val(v, b) = no) <=> (Val(v, e) = no)

\* What expr_print writes in error messages and help texts is read back as
\* an expression with the same value: the parentheses it leaves out are the
\* ones the grammar's precedences supply.
PrintParsesBack ==
  stack # <<>> => LET e == Last(stack) IN SameValue(e, parse(expr_print(e, "NONE")))
=============================================================================
