-------------------------------- MODULE Expr --------------------------------
(***************************************************************************)
(* The debugger's expression evaluator, src/monitor/sdb/expr.c: one call   *)
(* of expr, from the text a command gives to the value it prints.  Numbers *)
(* and operators have a stack each; a step is one token, or one turn of a  *)
(* loop over the stacks.  A read below a stack, or a push past its end, is *)
(* undefined: what follows is "undefined".  A failed assertion, that of a  *)
(* read outside memory and devices included, ends the debugger: "abort".   *)
(***************************************************************************)
EXTENDS Integers, Sequences, FiniteSets

CONSTANTS W,          \* values of a word
          NR_TOKENS,  \* length of tokens[], and of num_stack
          Trees,      \* expressions as trees: what the user means
          Typos,      \* what is typed and is no expression
          Mem,        \* vaddr_read(a, 4), for the words a of memory or a device
          Regs        \* values of the registers, by name

VARIABLES tree,       \* the expression meant, or the typo
          tokens,
          i,          \* tokens handled
          nums, ops,  \* num_stack and op_stack, up to their tops
          result,
          at          \* typed, token, reduce, finish, or how it ended

vars == <<tree, tokens, i, nums, ops, result, at>>

Op(c)    == [k |-> "op", c |-> c]
Num(n)   == [k |-> "num", n |-> n]
Reg(x)   == [k |-> "reg", name |-> x]
Typo(s)  == [k |-> "typo", text |-> s]

\* What is typed for a tree, with the parentheses C needs.
Rank(c) == IF c \in {"+", "-"} THEN 1 ELSE 2
RECURSIVE Text(_, _)
Text(t, p) ==
  LET paren(s) == <<Op("(")>> \o s \o <<Op(")")>>
      both == Text(t.l, Rank(t.k)) \o <<Op(t.k)>> \o Text(t.r, Rank(t.k) + 1)
  IN  CASE t.k \in {"num", "reg"} -> <<t>>
        [] t.k = "deref" -> <<Op("*")>> \o Text(t.l, 3)
        [] t.k \in {"+", "-", "*", "/"} -> IF Rank(t.k) < p THEN paren(both) ELSE both

\* Its value in C.  NONE marks what is left out: a division by zero, a read
\* outside memory, and values C's int and unsigned words do not share.
NONE == -1
RECURSIVE CValue(_)
CValue(t) ==
  LET word(v) == IF v \in 0 .. W - 1 THEN v ELSE NONE
  IN  CASE t.k = "num" -> t.n
        [] t.k = "reg" -> Regs[t.name]
        [] t.k = "deref" -> LET a == CValue(t.l) IN IF a \in DOMAIN Mem THEN Mem[a] ELSE NONE
        [] t.k \in {"+", "-", "*", "/"} ->
             LET a == CValue(t.l)  b == CValue(t.r)
             IN  CASE a = NONE \/ b = NONE \/ (t.k = "/" /\ b = 0) -> NONE
                   [] t.k = "+" -> word(a + b)
                   [] t.k = "-" -> word(a - b)
                   [] t.k = "*" -> word(a * b)
                   [] OTHER -> a \div b

Init == /\ tree \in Trees \cup Typos
        /\ tokens = <<>> /\ i = 0 /\ nums = <<>> /\ ops = <<>>
        /\ result = W - 1 /\ at = "typed"
-----------------------------------------------------------------------------
\* make_token: parentheses must match, and tokens[] must not be full.
Count(s, c) == Cardinality({j \in DOMAIN s : s[j] = Op(c)})
Matched(s) == /\ Count(s, "(") = Count(s, ")")
              /\ \A j \in DOMAIN s :
                   LET p == SubSeq(s, 1, j) IN Count(p, ")") <= Count(p, "(")
make_token ==
  /\ at = "typed"
  /\ LET s == IF tree.k = "typo" THEN tree.text ELSE Text(tree, 0)
     IN  IF Matched(s) /\ Len(s) <= NR_TOKENS
         THEN tokens' = s /\ at' = "token"
         ELSE tokens' = <<>> /\ at' = "failed"
  /\ UNCHANGED <<tree, i, nums, ops, result>>

tok == tokens[i + 1]
At(cs) == /\ at = "token" /\ i < Len(tokens)
          /\ tok.k = "op" /\ tok.c \in cs
Top(s) == s[Len(s)]
Pop(s) == SubSeq(s, 1, Len(s) - 1)
is_not_num(t) == t \in {Op(c) : c \in {"+", "-", "*", "/"}}
End(how) == at' = how /\ UNCHANGED <<tree, tokens, i, nums, ops, result>>
Shift(c) == ops' = Append(ops, c) /\ i' = i + 1 /\ UNCHANGED <<tree, tokens, nums, result>>

\* calculate, on the two top numbers; a zero divisor fails an Assert.
calculate(c, a, b) ==
  CASE c = "+" -> (a + b) % W
    [] c = "-" -> (a - b) % W
    [] c = "*" -> (a * b) % W
    [] c = "/" -> a \div b
    [] OTHER -> 0
Apply(c) ==
  IF Len(nums) < 2 THEN End("undefined")
  ELSE LET a == Top(nums)  b == Top(Pop(nums))
       IN  IF c = "/" /\ a = 0 THEN End("abort")
           ELSE /\ result' = calculate(c, b, a)
                /\ nums' = Append(Pop(Pop(nums)), result')
                /\ ops' = Pop(ops)
                /\ UNCHANGED <<tree, tokens, i, at>>

\* vaddr_read at the number on top; the value goes on the numbers ns, and
\* the operators os are left.
Read(ns, os) ==
  IF nums = <<>> THEN End("undefined")
  ELSE IF Top(nums) \notin DOMAIN Mem THEN End("abort")
  ELSE /\ result' = Mem[Top(nums)]
       /\ nums' = Append(ns, result') /\ ops' = os
       /\ UNCHANGED <<tree, tokens, i, at>>

\* TK_DECIMAL, TK_HEX, TK_REG and TK_WORD.
operand == /\ at = "token" /\ i < Len(tokens) /\ tok.k # "op"
           /\ IF tok.k = "reg" /\ tok.name \notin DOMAIN Regs
              THEN End("failed")
              ELSE /\ nums' = Append(nums, CASE tok.k = "num" -> tok.n
                                             [] tok.k = "reg" -> Regs[tok.name]
                                             [] tok.k = "word" -> 0)
                   /\ i' = i + 1 /\ UNCHANGED <<tree, tokens, ops, result, at>>
open == At({"("}) /\ Shift("(") /\ UNCHANGED at
equal == At({"=="}) /\ i' = i + 1 /\ UNCHANGED <<tree, tokens, nums, ops, result, at>>

\* One turn of the loop of ")", down to its "(".  It pops an operator and then
\* tests the one below it for a dereference; calculate takes the popped one.
close ==
  /\ At({")"})
  /\ CASE Top(ops) = "(" ->
            ops' = Pop(ops) /\ i' = i + 1 /\ UNCHANGED <<tree, tokens, nums, result, at>>
       [] Top(ops) # "(" /\ Top(Pop(ops)) = "#" -> Read(nums, Pop(ops))
       [] Top(ops) # "(" /\ Top(Pop(ops)) # "#" -> Apply(Top(ops))

\* "*" is a dereference, "#" on the stack, at the start or after an operator
\* (a parenthesis is none).
unary == tok.c = "*" /\ (IF i = 0 THEN TRUE ELSE is_not_num(tokens[i]))
times == /\ At({"*", "/"})
         /\ CASE unary -> Shift("#") /\ UNCHANGED at
              [] ~unary /\ ops = <<>> -> Shift(tok.c) /\ UNCHANGED at
              [] ~unary /\ ops # <<>> -> End("reduce")
plus == /\ At({"+", "-"})
        /\ IF Top(<<"(">> \o ops) \in {"(", "+", "-"}
           THEN Shift(tok.c) /\ UNCHANGED at ELSE End("reduce")

\* The loops of "*" and "/", which push the operator when they end, and of
\* "+" and "-", which do not.  A "#" is read from memory again and again,
\* the numbers growing past num_stack.  Below an empty op_stack is any byte.
binding_Products == IF tok.c \in {"+", "-"} THEN {"*"} ELSE {"*", "#"}
binding == IF tok.c \in {"+", "-"} THEN {"*", "/"} ELSE {"*", "/", "#"}
after_reduce == /\ at' = "token"
                /\ IF tok.c \in {"*", "/"} THEN Shift(tok.c)
                   ELSE i' = i + 1 /\ UNCHANGED <<tree, tokens, nums, ops, result>>
reduce ==
  /\ at = "reduce"
  /\ CASE ops = <<>> -> after_reduce \/ End("undefined")
       [] ops # <<>> /\ Top(ops) \notin binding -> after_reduce
       [] ops # <<>> /\ Top(ops) \in binding /\ Top(ops) # "#" -> Apply(Top(ops))
       [] ops # <<>> /\ Top(ops) \in binding /\ Top(ops) = "#" ->
            IF Len(nums) = NR_TOKENS THEN End("undefined") ELSE Read(nums, ops)

\* The last loop, from the right end of the text, and the value.
finish ==
  /\ at = "token" /\ i = Len(tokens) /\ ops # <<>> /\ nums # <<>>
  /\ CASE Top(ops) = "#" /\ Top(nums) = 0 -> End("abort")
       [] Top(ops) = "#" /\ Top(nums) # 0 -> Read(Pop(nums), Pop(ops))
       [] Top(ops) # "#" /\ Len(nums) > 1 -> Apply(Top(ops))
       [] Top(ops) # "#" /\ Len(nums) = 1 ->
            nums' = Append(nums, result) /\ UNCHANGED <<tree, tokens, i, ops, result, at>>
answer == /\ at = "token" /\ i = Len(tokens) /\ (ops = <<>> \/ nums = <<>>)
          /\ End(IF nums = <<>> THEN "undefined" ELSE "done")

tokens_calculation == operand \/ open \/ equal \/ close \/ times \/ plus \/ reduce \/ finish \/ answer
Next == make_token \/ tokens_calculation
Spec == Init /\ [][Next]_vars
-----------------------------------------------------------------------------
IsLeaf(t) == t.k \in {"num", "reg"}
IsSum(t) == t.k \in {"+", "-"}

\* What may stand before a + or -: one number, or a sum of numbers.
RECURSIVE LeftOfSum(_)
LeftOfSum(t) == IsLeaf(t) \/ (t.k = "+" /\ LeftOfSum(t.l) /\ (IsLeaf(t.r) \/ IsSum(t.r)))

\* Expressions without a dereference whose sums begin that way ...
RECURSIVE Plain(_)
Plain(t) == \/ IsLeaf(t)
            \/ /\ t.k \in {"+", "-", "*", "/"} /\ Plain(t.l) /\ Plain(t.r)
               /\ IsSum(t) => LeftOfSum(t.l)

\* ... and those with dereferences at the right end, outside parentheses.
RECURSIVE Supported(_)
Supported(t) ==
  \/ Plain(t)
  \/ t.k = "deref" /\ (Plain(t.l) \/ (t.l.k = "deref" /\ Supported(t.l)))
  \/ /\ t.k \in {"+", "-", "*", "/"} /\ Plain(t.l) /\ (IsSum(t) => LeftOfSum(t.l))
     /\ t.r.k = "deref" \/ (IsSum(t) /\ t.r.k \in {"*", "/"})
     /\ Supported(t.r)

(* "Print value of expression EXP" (sdb.c:97), as C gives it               *)
(* (tools/gen-expr/gen-expr.c:26): p does so for an expression in which no *)
(* product and no difference comes before a + or -, and * as a dereference *)
(* stands only at the right end.  Parentheses, precedence and the two      *)
(* meanings of * are right there, in whatever order the operators come     *)
(* (expr.c:209).                                                           *)
SupportedValueIsC ==
  at = "done" /\ tree.k # "typo" /\ CValue(tree) # NONE /\ Supported(tree) =>
    nums[1] = CValue(tree)
=============================================================================
