------------------------------- MODULE KSymbol ------------------------------
(* The values of the symbols (tools/kconfig/symbol.c).  The tables K of    *)
(* KMenu do not change any more; what changes is one record st:            *)
(*   valid, write, has, need   the symbols with SYMBOL_VALID, _WRITE,      *)
(*                             _DEF_USER and _NEED_SET_CHOICE_VALUES       *)
(*   utri, uval   the user's value, def[S_DEF_USER]                        *)
(*   tri, val     the current value, curr                                  *)
(*   vis, dir, rev, imp   visible, dir_dep.tri, rev_dep.tri, implied.tri   *)
(*   pvis         visible.tri of every property                            *)
(*   modules_val, change                                                   *)
(* SYMBOL_CHANGED only tells a display what to redraw and is left out.     *)
EXTENDS KMenu

NoVal == ""      \* an empty string, and the NULL of an unset value

InitSyms(K) ==
  LET all(v) == [s \in SymbolsOf(K) |-> v]
  IN  [valid |-> {}, write |-> {}, has |-> {}, need |-> {}, utri |-> all(no), uval |-> all(NoVal),
       tri |-> all(no), val |-> all(NoVal), vis |-> all(no), dir |-> all(no), rev |-> all(no),
       imp |-> all(no), pvis |-> [i \in DOMAIN K.prop |-> no], modules_val |-> no, change |-> TRUE]

sym_has_value(st, s) == s \in st.has
sym_is_changeable(st, s) == st.vis[s] > st.rev[s]

\* A tristate acts as a bool without modules, and in a choice set to y.
sym_get_type(K, st, s) ==
  IF /\ K.type[s] = "tristate"
     /\ (sym_is_choice_value(K, s) /\ st.vis[s] = yes) \/ st.modules_val = no
  THEN "bool" ELSE K.type[s]

ToBool(K, st, s, tri) == IF tri = mod /\ sym_get_type(K, st, s) = "bool" THEN yes ELSE tri

TriString(tri) == CASE tri = no -> "n" [] tri = mod -> "m" [] tri = yes -> "y"
ModulesTri(K, st) == IF K.modules \in SymbolsOf(K) THEN st.tri[K.modules] ELSE no

sym_get_string_value(K, st, s) ==
  IF K.type[s] \in {"bool", "tristate"}
  THEN IF st.tri[s] = mod /\ ModulesTri(K, st) = no THEN "n" ELSE TriString(st.tri[s])
  ELSE st.val[s]

Valuation(K, st) ==
  [tri |-> st.tri, str |-> [s \in SymbolsOf(K) |-> sym_get_string_value(K, st, s)]]

PropsWith(K, s, types) ==
  SelectSeq([i \in DOMAIN K.prop |-> i], LAMBDA i : K.prop[i].sym = s /\ K.prop[i].type \in types)

\* strtoll of a value, and the value written for a number.
ToNum(str) == IF str \in DOMAIN Num THEN Num[str] ELSE 0
NumString(n) == CHOOSE str \in DOMAIN Num : Num[str] = n

\* Setting the not yet assigned values of a choice to n.
set_all_choice_values(K, st, cs) ==
  [st EXCEPT !.utri = [s \in DOMAIN @ |-> IF s \in Range(K.values[cs]) \ st.has THEN no ELSE @[s]],
             !.has = @ \cup {cs}, !.valid = @ \ {cs}, !.need = @ \ {cs}]

----------------------------------------------------------------------------

RECURSIVE sym_calc_value(_, _, _)

Valued(K, st, e) == [st |-> st, v |-> expr_calc_value(Valuation(K, st), e)]

\* A variant that reads whatever value a symbol happens to have.
Eval_Stale(K, st, e) == Valued(K, st, e)

\* An expression, after the symbols in it have been calculated.
Eval(K, st, e) == Valued(K, FoldLeft(LAMBDA w, s : sym_calc_value(K, w, s), st, SymsOf(e)), e)

SetPvis(r, i) == [r.st EXCEPT !.pvis[i] = r.v]
EvalProp(K, st, i) == SetPvis(Eval(K, st, K.prop[i].vis), i)

\* The first of properties ps whose condition holds, 0 if there is none.
RECURSIVE FirstVisible(_, _, _)
FirstOr(K, st, ps) ==
  IF st.pvis[Head(ps)] # no THEN [st |-> st, i |-> Head(ps)] ELSE FirstVisible(K, st, Tail(ps))
FirstVisible(K, st, ps) ==
  IF ps = <<>> THEN [st |-> st, i |-> 0] ELSE FirstOr(K, EvalProp(K, st, Head(ps)), ps)

sym_get_default_prop(K, st, s) == FirstVisible(K, st, PropsWith(K, s, {"DEFAULT"}))
sym_get_range_prop(K, st, s) == FirstVisible(K, st, PropsWith(K, s, {"RANGE"}))

\* The value of the symbol or constant a range or a default names.
NumberOf(K, st, s) == [st |-> st, v |-> ToNum(IF s \in SymbolsOf(K) THEN st.val[s] ELSE s)]
sym_get_range_val(K, st, s) == NumberOf(K, sym_calc_value(K, st, s), s)

\* The number v of symbol s, forced into the range e.
AtMost(hi, s, v) == IF v > hi.v THEN [hi.st EXCEPT !.val[s] = NumString(hi.v)] ELSE hi.st
AtLeast(K, lo, e, s, v) ==
  IF v < lo.v THEN [lo.st EXCEPT !.val[s] = NumString(lo.v)]
  ELSE AtMost(sym_get_range_val(K, lo.st, e.b), s, v)
Clamp(K, r, s) ==
  IF r.i = 0 THEN r.st
  ELSE AtLeast(K, sym_get_range_val(K, r.st, K.prop[r.i].expr.a), K.prop[r.i].expr, s, ToNum(r.st.val[s]))
sym_validate_range(K, st, s) ==
  IF K.type[s] \in {"int", "hex"} THEN Clamp(K, sym_get_range_prop(K, st, s), s) ELSE st

\* In a tristate choice set to y a value that can only be m is not seen.
HideMod(K, st, s, i) ==
  IF /\ sym_is_choice_value(K, s) /\ K.type[s] = "tristate"
     /\ st.pvis[i] = mod /\ st.tri[K.choice[s]] = yes
  THEN [st EXCEPT !.pvis[i] = no] ELSE st

SeenAs(K, st, s, tri) ==
  IF tri = mod /\ (K.type[s] # "tristate" \/ st.modules_val = no) THEN yes ELSE tri
SetVisible(K, st, s, ps) ==
  [st EXCEPT !.vis[s] = SeenAs(K, st, s, FoldLeft(LAMBDA t, i : EXPR_OR(t, st.pvis[i]), no, ps))]
CalcPrompts(K, st, s, ps) ==
  SetVisible(K, FoldLeft(LAMBDA w, i : HideMod(K, EvalProp(K, w, i), s, i), st, ps), s, ps)

\* One of dir_dep, rev_dep and implied, default when the symbol has none.
SetDep(K, r, s, field) == [r.st EXCEPT ![field][s] = ToBool(K, r.st, s, r.v)]
CalcDep(K, st, s, field, e, default) ==
  SetDep(K, IF e = NULL THEN [st |-> st, v |-> default] ELSE Eval(K, st, e), s, field)
CalcDir(K, st, s) == CalcDep(K, st, s, "dir", Get(K.dir_dep, s, NULL), yes)
CalcRev(K, st, s) == CalcDep(K, st, s, "rev", Get(K.rev_dep, s, NULL), no)
CalcImp(K, st, s) == CalcDep(K, st, s, "imp", Get(K.implied, s, NULL), no)
CalcDeps(K, st, s) ==
  IF sym_is_choice_value(K, s) THEN st ELSE CalcImp(K, CalcRev(K, CalcDir(K, st, s), s), s)

sym_calc_visibility(K, st, s) ==
  CalcDeps(K, CalcPrompts(K, st, s, PropsWith(K, s, {"PROMPT", "MENU"})), s)

\* The value a choice takes when the user's is not visible.
RECURSIVE ChoiceDefault(_, _, _, _)
FirstSeen(K, st, cs) ==
  LET values == SelectSeq(K.values[cs], LAMBDA s : st.vis[s] # no)
  IN  IF values = <<>> THEN NoVal ELSE Head(values)
DefaultOr(K, r, cs, ps) ==
  IF r.i = 0 THEN [st |-> r.st, s |-> FirstSeen(K, r.st, cs)]
  ELSE IF r.st.vis[K.prop[r.i].expr.s] # no THEN [st |-> r.st, s |-> K.prop[r.i].expr.s]
  ELSE ChoiceDefault(K, r.st, cs, SelectSeq(ps, LAMBDA j : j > r.i))
ChoiceDefault(K, st, cs, ps) == DefaultOr(K, FirstVisible(K, st, ps), cs, ps)
sym_choice_default(K, st, cs) == ChoiceDefault(K, st, cs, PropsWith(K, cs, {"DEFAULT"}))

SeenValues(K, st, cs) == {s \in Range(K.values[cs]) : st.vis[s] # no}
TakeDefault(d, cs) ==
  IF d.s # NoVal THEN [d.st EXCEPT !.val[cs] = d.s] ELSE [d.st EXCEPT !.val[cs] = NoVal, !.tri[cs] = no]

\* A variant that keeps the value the user picked when it is not visible.
UserOrDefault_KeepsHidden(K, st, cs) ==
  IF st.uval[cs] # NoVal THEN [st EXCEPT !.val[cs] = st.uval[cs]]
  ELSE TakeDefault(sym_choice_default(K, st, cs), cs)
UserOrDefault(K, st, cs) ==
  IF st.uval[cs] \in SeenValues(K, st, cs) THEN [st EXCEPT !.val[cs] = st.uval[cs]]
  ELSE TakeDefault(sym_choice_default(K, st, cs), cs)

\* The choice stays "set by the user" only if all its visible values are.
CheckSet(K, st, cs) == IF SeenValues(K, st, cs) \subseteq st.has THEN st ELSE [st EXCEPT !.has = @ \ {cs}]
sym_calc_choice(K, st, cs) ==
  UserOrDefault(K, CheckSet(K, FoldLeft(LAMBDA w, s : sym_calc_visibility(K, w, s), st, K.values[cs]), cs), cs)

\* The new value of a bool or tristate outside a choice set to y.
WriteIf(c, st, s) == IF c THEN [st EXCEPT !.write = @ \cup {s}] ELSE st
AndVisible(e, i) == EXPR_AND(e.v, e.st.pvis[i])
WriteDefault(e, i, s) == [st |-> WriteIf(AndVisible(e, i) # no, e.st, s), v |-> AndVisible(e, i)]
DefaultTri(K, d, s) ==
  IF d.i = 0 THEN [st |-> d.st, v |-> no] ELSE WriteDefault(Eval(K, d.st, K.prop[d.i].expr), d.i, s)
Imply(w, s) ==
  IF w.st.imp[s] = no THEN w
  ELSE [st |-> WriteIf(TRUE, w.st, s), v |-> EXPR_AND(EXPR_OR(w.v, w.st.imp[s]), w.st.dir[s])]
Select(w, s) == [w EXCEPT !.v = EXPR_OR(@, w.st.rev[s])]
UserSets(st, s) == st.vis[s] # no /\ sym_has_value(st, s)

CalcTri(K, st, s) ==
  Select(CASE UserSets(st, s) -> [st |-> st, v |-> EXPR_AND(st.utri[s], st.vis[s])]
           [] ~UserSets(st, s) /\ sym_is_choice(K, s) -> [st |-> WriteIf(st.rev[s] # no, st, s), v |-> no]
           [] OTHER -> Imply(DefaultTri(K, sym_get_default_prop(K, WriteIf(st.rev[s] # no, st, s), s), s), s),
         s)

\* The new value of a number or string.
CopyVal(K, st, s, from) == [st EXCEPT !.val[s] = IF from \in SymbolsOf(K) THEN st.val[from] ELSE from]
DefaultVal(K, d, s) ==
  IF d.i = 0 THEN d.st
  ELSE CopyVal(K, sym_calc_value(K, WriteIf(TRUE, d.st, s), K.prop[d.i].expr.s), s, K.prop[d.i].expr.s)
CalcVal(K, st, s) ==
  IF UserSets(st, s) THEN [st EXCEPT !.val[s] = st.uval[s]]
  ELSE DefaultVal(K, sym_get_default_prop(K, st, s), s)

\* After a choice: its visible values are written with it, it never is.
FinishChoice(K, st, s) ==
  LET x == [st EXCEPT !.write = (IF s \in st.write THEN @ \cup SeenValues(K, st, s) ELSE @) \ {s}]
  IN  IF s \in x.need THEN set_all_choice_values(K, x, s) ELSE x

Start(st, s) ==
  [st EXCEPT !.write = IF st.vis[s] # no THEN @ \cup {s} ELSE @, !.tri[s] = no, !.val[s] = NoVal]
SetTri(K, r, s) == [r.st EXCEPT !.tri[s] = ToBool(K, r.st, s, r.v)]
CalcByType(K, st, s) ==
  IF K.type[s] \notin {"bool", "tristate"} THEN CalcVal(K, st, s)
  ELSE SetTri(K, IF sym_is_choice_value(K, s) /\ st.vis[s] = yes
                 THEN [st |-> st, v |-> IF st.val[K.choice[s]] = s THEN yes ELSE no]
                 ELSE CalcTri(K, st, s), s)
CalcChoice(K, st, s) ==
  IF sym_is_choice(K, s) /\ st.tri[s] = yes THEN sym_calc_choice(K, st, s) ELSE st
NoteModules(K, st, s) == IF s = K.modules THEN [st EXCEPT !.modules_val = st.tri[s]] ELSE st
Finish(K, st, s) == IF sym_is_choice(K, s) THEN FinishChoice(K, st, s) ELSE st

CalcNow(K, st, s) ==
  Finish(K,
    NoteModules(K,
      sym_validate_range(K,
        CalcChoice(K,
          CalcByType(K,
            Start(sym_calc_visibility(K, [st EXCEPT !.valid = @ \cup {s}, !.write = @ \ {s}], s), s),
            s), s), s), s), s)

sym_calc_value(K, st, s) ==
  IF s \notin SymbolsOf(K) \/ s \in st.valid THEN st
  ELSE CalcNow(K, IF sym_is_choice_value(K, s) /\ s \in st.need
                  THEN sym_calc_value(K, [st EXCEPT !.need = @ \ {s}], K.choice[s]) ELSE st, s)

sym_clear_all_valid(K, st) ==
  sym_calc_value(K, [st EXCEPT !.valid = {}, !.change = TRUE], K.modules)

----------------------------------------------------------------------------
(* Setting values.  A setter returns whether it accepted the value.        *)

sym_tristate_within_range(K, st, s, tri) ==
  /\ st.vis[s] # no
  /\ sym_get_type(K, st, s) \in {"bool", "tristate"}
  /\ sym_get_type(K, st, s) = "bool" => tri # mod
  /\ st.vis[s] > st.rev[s]
  /\ IF sym_is_choice_value(K, s) /\ st.vis[s] = yes THEN tri = yes
     ELSE tri >= st.rev[s] /\ tri <= st.vis[s]

\* A variant that does not mark the symbol as set by the user.
sym_set_tristate_value_NotMarked(K, st, s, tri) ==
  LET y == [st EXCEPT !.utri[s] = tri]
  IN  IF st.tri[s] # tri /\ ~sym_tristate_within_range(K, st, s, tri) THEN [ok |-> FALSE, st |-> st]
      ELSE [ok |-> TRUE, st |-> IF st.tri[s] # tri THEN sym_clear_all_valid(K, y) ELSE y]

sym_set_tristate_value(K, st, s, tri) ==
  LET old == st.tri[s]
      cs == K.choice[s]
      w == [st EXCEPT !.has = @ \cup {s}]
      x == IF sym_is_choice_value(K, s) /\ tri = yes
           THEN [w EXCEPT !.uval[cs] = s,
                          !.has = @ \cup {cs} \cup {t \in Range(K.values[cs]) : st.vis[t] # no}]
           ELSE w
      y == [x EXCEPT !.utri[s] = tri]
  IN  IF old # tri /\ ~sym_tristate_within_range(K, st, s, tri) THEN [ok |-> FALSE, st |-> st]
      ELSE [ok |-> TRUE, st |-> IF old # tri THEN sym_clear_all_valid(K, y) ELSE y]

\* no, mod, yes, no, ... until a value is accepted.
RECURSIVE Toggle(_, _, _, _)
NextTri(tri) == CASE tri = no -> mod [] tri = mod -> yes [] tri = yes -> no
ToggleOn(K, r, st, s, tri) == IF r.ok \/ tri = st.tri[s] THEN r.st ELSE Toggle(K, st, s, tri)
Toggle(K, st, s, tri) == ToggleOn(K, sym_set_tristate_value(K, st, s, NextTri(tri)), st, s, NextTri(tri))
sym_toggle_tristate_value(K, st, s) == Toggle(K, st, s, st.tri[s])

sym_string_valid(K, s, str) ==
  CASE K.type[s] \in {"int", "hex"} -> str \in DOMAIN Num
    [] K.type[s] \in {"bool", "tristate"} -> str \in Consts
    [] K.type[s] = "string" -> TRUE

Between(K, lo, e, n) == n >= lo.v /\ n <= sym_get_range_val(K, lo.st, e.b).v
InRange(K, r, n) ==
  r.i # 0 => Between(K, sym_get_range_val(K, r.st, K.prop[r.i].expr.a), K.prop[r.i].expr, n)
StringInRange(K, st, s, str) ==
  /\ sym_string_valid(K, s, str)
  /\ K.type[s] \in {"int", "hex"} => InRange(K, sym_get_range_prop(K, st, s), ToNum(str))

sym_string_within_range(K, st, s, str) ==
  IF K.type[s] \in {"bool", "tristate"}
  THEN str \in Consts /\ sym_tristate_within_range(K, st, s, TriOf(<<>>, str))
  ELSE StringInRange(K, st, s, str)

sym_set_string_value(K, st, s, str) ==
  LET x == [st EXCEPT !.has = @ \cup {s}]
  IN  IF K.type[s] \in {"bool", "tristate"}
      THEN sym_set_tristate_value(K, st, s, TriOf(<<>>, str))
      ELSE IF ~sym_string_within_range(K, st, s, str) THEN [ok |-> FALSE, st |-> st]
      ELSE [ok |-> TRUE,
            st |-> IF x.uval[s] = str THEN x ELSE sym_clear_all_valid(K, [x EXCEPT !.uval[s] = str])]

\* What the value would be if the user had not set one: the default tri,
\* raised by what selects and implies the symbol.
Raised_AsIfAlone(K, st, s, tri) == tri
Raised(K, st, s, tri) ==
  LET v1 == EXPR_OR(tri, st.rev[s])
      v2 == IF v1 = mod /\ ((~sym_is_choice_value(K, s) /\ ModulesTri(K, st) = no) \/ K.type[s] = "bool")
            THEN yes ELSE v1
  IN  IF v2 < st.imp[s] THEN st.imp[s] ELSE v2
TriDefault(K, d) == IF d.i = 0 THEN no ELSE AndVisible(Eval(K, d.st, K.prop[d.i].expr), d.i)
ValDefault(K, d) ==
  IF d.i = 0 THEN NoVal
  ELSE LET from == K.prop[d.i].expr.s
       IN  IF from \in SymbolsOf(K) THEN sym_calc_value(K, d.st, from).val[from] ELSE from
DefaultNow(K, st, s) ==
  IF K.type[s] \in {"bool", "tristate"}
  THEN TriString(Raised(K, st, s, TriDefault(K, sym_get_default_prop(K, st, s))))
  ELSE ValDefault(K, sym_get_default_prop(K, st, s))
sym_get_string_default(K, st, s) ==
  DefaultNow(K, sym_calc_value(K, sym_calc_visibility(K, st, s), K.modules), s)

----------------------------------------------------------------------------
(* What the menus show (tools/kconfig/menu.c).                             *)

\* Whether an entry is shown; an invisible entry with a visible child is,
\* and counts as set.
RECURSIVE menu_is_visible(_, _, _), AnyVisible(_, _, _)
CountAsSet(r, s) == [st |-> IF r.v THEN [r.st EXCEPT !.has = @ \cup {s}] ELSE r.st, v |-> r.v]
PromptSeen(K, st, id, s) ==
  IF st.pvis[prompt(K, id)] # no THEN [st |-> st, v |-> TRUE]
  ELSE IF s = None \/ st.tri[s] = no THEN [st |-> st, v |-> FALSE]
  ELSE CountAsSet(AnyVisible(K, st, K.kids[id]), s)
CalcEntry(K, st, id, s) == IF s = None THEN EvalProp(K, st, prompt(K, id)) ELSE sym_calc_value(K, st, s)
VisibleIf(K, r, id, s) ==
  IF r.v = no THEN [st |-> r.st, v |-> FALSE] ELSE PromptSeen(K, CalcEntry(K, r.st, id, s), id, s)
menu_is_visible(K, st, id) ==
  IF prompt(K, id) = 0 THEN [st |-> st, v |-> FALSE]
  ELSE VisibleIf(K, Eval(K, st, K.node[id].vis), id, K.node[id].sym)

OrAny(K, r, ids) == IF r.v THEN r ELSE AnyVisible(K, r.st, ids)
AnyVisible(K, st, ids) ==
  IF ids = <<>> THEN [st |-> st, v |-> FALSE] ELSE OrAny(K, menu_is_visible(K, st, Head(ids)), Tail(ids))
=============================================================================
