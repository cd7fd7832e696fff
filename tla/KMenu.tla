-------------------------------- MODULE KMenu -------------------------------
(* How a Kconfig file becomes a menu tree and a table of symbols: the      *)
(* parser's actions (tools/kconfig/parser.y) and tools/kconfig/menu.c.     *)
(* A file is a sequence of statements.  The tables are one record K:       *)
(*   node    the menu entries, numbered as they are read (0 is the root)   *)
(*   kids    the list of children of each entry                            *)
(*   prop    the properties, in the order they are read                    *)
(*   type, dir_dep, rev_dep, implied, optional, ... of each symbol         *)
EXTENDS KExpr, FiniteSets

None == ""     \* the symbol of a menu, an if or a comment

Empty == [x \in {} |-> 0]
Get(f, x, default) == IF x \in DOMAIN f THEN f[x] ELSE default
Set(f, x, v) == (x :> v) @@ f

SymbolsOf(K) == DOMAIN K.type
sym_is_choice(K, s) == s \in DOMAIN K.values
sym_is_choice_value(K, s) == s \in DOMAIN K.choice

----------------------------------------------------------------------------
(* Reading: K.open is the stack of open menus, K.cur the current entry.    *)

_menu_init ==
  [node |-> [i \in {0} |-> [sym |-> None, dep |-> NULL, vis |-> NULL]],
   kids |-> [i \in {0} |-> <<>>],
   prop |-> <<[sym |-> None, menu |-> 0, type |-> "MENU", expr |-> NULL, vis |-> NULL]>>,
   type |-> Empty, optional |-> {}, allnoconfig_y |-> {}, modules |-> "n",
   values |-> Empty, choice |-> Empty,
   dir_dep |-> Empty, rev_dep |-> Empty, implied |-> Empty,
   open |-> <<0>>, cur |-> 0]

menu_add_prop(K, type, e, dep) ==
  [K EXCEPT !.prop = Append(@, [sym |-> K.node[K.cur].sym, menu |-> K.cur,
                                type |-> type, expr |-> e, vis |-> dep])]

menu_add_entry(K, s) ==
  LET id == Cardinality(DOMAIN K.node)
      L == [K EXCEPT !.node = Set(@, id, [sym |-> s, dep |-> NULL, vis |-> NULL]),
                     !.kids = Set([@ EXCEPT ![Last(K.open)] = Append(@, id)], id, <<>>),
                     !.type = IF s = None THEN @ ELSE Set(@, s, Get(@, s, "unknown")),
                     !.cur = id]
  IN  IF s = None THEN L ELSE menu_add_prop(L, "SYMBOL", expr_alloc_symbol(s), NULL)

menu_add_menu(K) == [K EXCEPT !.open = Append(@, K.cur)]
menu_end_menu(K) == [K EXCEPT !.open = Front(@)]
menu_add_dep(K, e) == [K EXCEPT !.node[K.cur].dep = expr_alloc_and(@, e)]
menu_add_visibility(K, e) == [K EXCEPT !.node[K.cur].vis = expr_alloc_and(@, e)]

\* The first type given to a symbol counts.
menu_set_type(K, s, type) == IF K.type[s] = "unknown" THEN [K EXCEPT !.type[s] = type] ELSE K

\* A prompt is also subject to the "visible if" of every menu around it.
menu_add_prompt(K, type, dep) ==
  menu_add_prop(K, type, NULL,
    IF type # "PROMPT" THEN dep
    ELSE FoldRight(LAMBDA m, d : expr_alloc_and(d, K.node[m].vis), K.open, dep))

Stmt(K, x) ==
  CASE x.op \in {"config", "menuconfig"} ->
         [menu_add_entry(K, x.s) EXCEPT !.optional = @ \cup {x.s}]
    [] x.op = "type" -> menu_set_type(K, K.node[K.cur].sym, x.type)
    [] x.op = "prompt" -> menu_add_prompt(K, x.type, x.dep)
    [] x.op \in {"DEFAULT", "SELECT", "IMPLY", "RANGE"} -> menu_add_prop(K, x.op, x.e, x.dep)
    [] x.op = "depends" -> menu_add_dep(K, x.e)
    [] x.op = "visible" -> menu_add_visibility(K, x.e)
    [] x.op = "modules" -> [K EXCEPT !.modules = K.node[K.cur].sym]
    [] x.op = "allnoconfig_y" -> [K EXCEPT !.allnoconfig_y = @ \cup {K.node[K.cur].sym}]
    [] x.op = "choice" -> [menu_add_entry(K, x.s) EXCEPT !.values = Set(@, x.s, <<>>)]
    [] x.op = "optional" -> [K EXCEPT !.optional = @ \cup {K.node[K.cur].sym}]
    [] x.op = "if" -> menu_add_menu(menu_add_dep(menu_add_entry(K, None), x.e))
    [] x.op \in {"menu", "comment"} -> menu_add_prompt(menu_add_entry(K, None), x.type, NULL)
    [] x.op = "begin" -> menu_add_menu(K)
    [] x.op = "end" -> menu_end_menu(K)

----------------------------------------------------------------------------
(* menu_finalize.                                                          *)

\* m stands for m && MODULES, which is n without modules.
RECURSIVE rewrite_m(_, _)
rewrite_m(K, e) ==
  CASE e.t = "NOT" -> [e EXCEPT !.l = rewrite_m(K, @)]
    [] e.t \in {"AND", "OR"} -> [e EXCEPT !.l = rewrite_m(K, @), !.r = rewrite_m(K, @)]
    [] e = SymM -> expr_alloc_and(e, expr_alloc_symbol(K.modules))
    [] OTHER -> e

PropsOf(K, id) == SelectSeq([i \in DOMAIN K.prop |-> i], LAMBDA i : K.prop[i].menu = id)
Prompts == {"PROMPT", "MENU", "COMMENT"}

\* The number of the prompt of entry id, 0 if it has none.
prompt(K, id) ==
  LET ps == SelectSeq(PropsOf(K, id), LAMBDA i : K.prop[i].type \in Prompts)
  IN  IF ps = <<>> THEN 0 ELSE Last(ps)

\* Dependencies of an entry and of its properties, with those of the parent.
SetPropVis(K, s, i, d) ==
  LET L == [K EXCEPT !.prop[i].vis = d]
      by == K.prop[i].expr.s
      add(deps) == Set(deps, by, expr_alloc_or(Get(deps, by, NULL), expr_alloc_and(expr_alloc_symbol(s), d)))
  IN  CASE K.prop[i].type = "SELECT" -> [L EXCEPT !.rev_dep = add(@)]
        [] K.prop[i].type = "IMPLY" -> [L EXCEPT !.implied = add(@)]
        [] OTHER -> L

TransBool(K, s, d) == IF s # None /\ K.type[s] # "tristate" THEN expr_trans_bool(d) ELSE d

\* The condition a dependency leaves once the one around it is added.
Within(K, around, e) == expr_eliminate_dups(expr_alloc_and(around, expr_transform(rewrite_m(K, e))))

InheritProp(K, id, i) ==
  SetPropVis(K, K.node[id].sym, i,
             TransBool(K, K.node[id].sym, Within(K, K.node[id].dep, K.prop[i].vis)))

Inherit(K, parentdep, id) ==
  FoldLeft(LAMBDA L, i : InheritProp(L, id, i),
           [K EXCEPT !.node[id].dep = Within(K, parentdep, @)], PropsOf(K, id))

\* A choice without a type takes the type of its first value, and the other
\* way round.
ChoiceTypes(K, id) ==
  LET s == K.node[id].sym
      typed == SelectSeq(K.kids[id], LAMBDA m : K.node[m].sym # None /\ K.type[K.node[m].sym] # "unknown")
      L == IF typed = <<>> THEN K ELSE menu_set_type(K, s, K.type[K.node[typed[1]].sym])
  IN  FoldLeft(LAMBDA M, m : IF M.node[m].sym = None THEN M ELSE menu_set_type(M, M.node[m].sym, M.type[s]),
               L, K.kids[id])

\* e != n, in the form the dependencies are compared in.
NotN(e) == expr_eliminate_dups(expr_transform(expr_trans_compare(e, "UNEQUAL", "n")))

PromptDep(K, id, default) == IF prompt(K, id) # 0 THEN K.prop[prompt(K, id)].vis ELSE default

\* Does the entry after a symbol belong in the symbol's submenu?
DependsOn(s, base, dep) ==
  /\ expr_contains_symbol(dep, s)
  /\ expr_depends_symbol(dep, s) \/ expr_is_yes(expr_eliminate_eq(NotN(dep), base)[2])
InSubmenu(K, s, base, id) == DependsOn(s, base, PromptDep(K, id, K.node[id].dep))

\* An entry of a choice becomes one of its values.
AddChoiceValue(K, cs, id) ==
  LET s == K.node[id].sym
      isy == expr_alloc_comp("EQUAL", cs, "y")
      L == IF K.type[cs] = "tristate" /\ K.type[s] # "tristate"
           THEN FoldLeft(LAMBDA M, i : [M EXCEPT !.prop[i].vis = expr_alloc_and(isy, @)],
                         [K EXCEPT !.node[id].dep = expr_alloc_and(isy, @)], PropsOf(K, id))
           ELSE K
  IN  [L EXCEPT !.choice = Set(@, s, cs), !.values[cs] = Append(@, s)]

\* Whether entry m, of the list of entry id, is a new value of a choice.
NewValueOf(K, id, m) ==
  /\ K.node[id].sym # None /\ sym_is_choice(K, K.node[id].sym)
  /\ K.node[m].sym # None /\ ~sym_is_choice_value(K, K.node[m].sym)
Collect(K, id, m) == IF NewValueOf(K, id, m) THEN AddChoiceValue(K, K.node[id].sym, m) ELSE K

\* Values of choices are collected and the children of promptless entries
\* moved up; todo is the part of the list of id still to do.
RECURSIVE Settle(_, _, _, _)
SettleRest(K, id, m, todo, done) ==
  IF prompt(K, m) = 0
  THEN Settle([K EXCEPT !.kids[m] = <<>>], id, K.kids[m] \o todo, Append(done, m))
  ELSE Settle(K, id, todo, Append(done, m))
Settle(K, id, todo, done) ==
  IF todo = <<>> THEN [K EXCEPT !.kids[id] = done]
  ELSE SettleRest(Collect(K, id, Head(todo)), id, Head(todo), Tail(todo), done)

\* A symbol that is not optional cannot be n while its prompt shows.
NotOptional(K, id) ==
  LET s == K.node[id].sym
  IN  IF s # None /\ s \notin K.optional /\ prompt(K, id) # 0
      THEN [K EXCEPT !.rev_dep = Set(@, s, expr_alloc_or(Get(@, s, NULL),
                                                         expr_alloc_and(PromptDep(K, id, NULL), SymM)))]
      ELSE K

IsChoice(K, id) == K.node[id].sym # None /\ sym_is_choice(K, K.node[id].sym)
Typed(K, id) == IF IsChoice(K, id) THEN ChoiceTypes(K, id) ELSE K
ParentDep(K, id) == IF IsChoice(K, id) THEN expr_alloc_symbol(K.node[id].sym) ELSE K.node[id].dep
InheritAll(K, id) == FoldLeft(LAMBDA L, m : Inherit(L, ParentDep(K, id), m), K, K.kids[id])

\* menu_finalize(id), where rest is what follows id in its list; the result
\* holds what still follows it when it has taken its submenu.
RECURSIVE menu_finalize(_, _, _), FinalizeList(_, _, _), Absorb(_, _, _, _, _)
KeepKids(f, id, rest) == [K |-> [f.K EXCEPT !.kids[id] = f.rest], rest |-> rest]
FinalizeKids(K, id, rest) == KeepKids(FinalizeList(K, K.kids[id], <<>>), id, rest)
AddDirDep(a, id, s) ==
  [a EXCEPT !.K.dir_dep = Set(@, s, expr_alloc_or(Get(@, s, NULL), a.K.node[id].dep))]
SettleKids(w, id) ==
  [K |-> NotOptional(Settle(w.K, id, w.K.kids[id], <<>>), id), rest |-> w.rest]

menu_finalize(K, id, rest) ==
  SettleKids(
    CASE K.kids[id] # <<>> -> FinalizeKids(InheritAll(Typed(K, id), id), id, rest)
      [] K.kids[id] = <<>> /\ K.node[id].sym = None -> [K |-> K, rest |-> rest]
      [] OTHER -> AddDirDep(Absorb(K, id, NotN(PromptDep(K, id, NULL)), rest, <<>>), id, K.node[id].sym),
    id)

\* Each entry of a list, an entry taking those of its submenu out of it.
FinalizeRest(f, m, done) == FinalizeList(f.K, f.rest, Append(done, m))
FinalizeList(K, todo, done) ==
  IF todo = <<>> THEN [K |-> K, rest |-> done]
  ELSE FinalizeRest(menu_finalize(K, Head(todo), Tail(todo)), Head(todo), done)

\* The submenu of symbol entry id: the entries of rest that depend on it.
AbsorbRest(f, id, base, m, got) == Absorb(f.K, id, base, f.rest, Append(got, m))
Absorb(K, id, base, rest, got) ==
  IF rest = <<>> \/ ~InSubmenu(K, K.node[id].sym, base, Head(rest))
  THEN [K |-> [K EXCEPT !.kids[id] = got], rest |-> rest]
  ELSE AbsorbRest(menu_finalize(K, Head(rest), Tail(rest)), id, base, Head(rest), got)

----------------------------------------------------------------------------
(* Dependency cycles.  w.check holds the symbols being visited, w.checked  *)
(* those visited, w.bad whether a symbol was met while being visited.      *)

RECURSIVE SymsOf(_)
SymsOf(e) ==
  CASE e.t = "NULL" -> <<>>
    [] e.t = "SYMBOL" -> <<e.s>>
    [] e.t = "NOT" -> SymsOf(e.l)
    [] e.t \in {"AND", "OR"} -> SymsOf(e.l) \o SymsOf(e.r)
    [] OTHER -> <<e.a, e.b>>

\* The expressions sym_check_sym_deps walks for a symbol, in order.
DepExprs(K, s) ==
  LET ps == SelectSeq(K.prop, LAMBDA p : p.sym = s /\ p.type \notin {"SELECT", "IMPLY"})
      of(p) == IF p.type = "DEFAULT" /\ ~sym_is_choice(K, s) THEN <<p.vis, p.expr>> ELSE <<p.vis>>
  IN  <<Get(K.dir_dep, s, NULL), Get(K.rev_dep, s, NULL), Get(K.implied, s, NULL)>>
      \o FlattenSeq([i \in DOMAIN ps |-> of(ps[i])])

RECURSIVE sym_check_deps(_, _, _), sym_check_sym_deps(_, _, _)
sym_check_sym_deps(K, w, s) ==
  LET deps == FlattenSeq([i \in DOMAIN DepExprs(K, s) |-> SymsOf(DepExprs(K, s)[i])])
  IN  FoldLeft(LAMBDA x, t : IF x.bad THEN x ELSE sym_check_deps(K, x, t), w, deps)

sym_check_choice_deps(K, w, s) ==
  LET mine == {s} \cup Range(K.values[s])
      w1 == sym_check_sym_deps(K, [w EXCEPT !.check = @ \cup mine, !.checked = @ \cup mine], s)
      w2 == [w1 EXCEPT !.check = @ \ {s}]
      w3 == FoldLeft(LAMBDA x, t : IF x.bad THEN x ELSE sym_check_sym_deps(K, x, t), w2, K.values[s])
  IN  [w3 EXCEPT !.check = @ \ mine]

sym_check_deps(K, w, s) ==
  CASE s \in w.check -> [w EXCEPT !.bad = TRUE]
    [] s \in w.checked \/ s \notin SymbolsOf(K) -> w
    [] sym_is_choice_value(K, s) -> sym_check_deps(K, w, K.choice[s])
    [] sym_is_choice(K, s) -> sym_check_choice_deps(K, w, s)
    [] OTHER -> LET x == sym_check_sym_deps(K, [w EXCEPT !.check = @ \cup {s}, !.checked = @ \cup {s}], s)
                IN  [x EXCEPT !.check = @ \ {s}]

----------------------------------------------------------------------------

\* The tables of a Kconfig file, and whether its dependencies are acyclic;
\* order is the order of the symbols in the hash table.
CheckAll(K, order) ==
  FoldLeft(LAMBDA x, s : sym_check_deps(K, [x EXCEPT !.check = {}], s),
           [check |-> {}, checked |-> {}, bad |-> FALSE], order)
Parsed(K, order) == [K |-> K, ok |-> ~CheckAll(K, order).bad]
conf_parse(file, order) == Parsed(menu_finalize(FoldLeft(Stmt, _menu_init, file), 0, <<>>).K, order)

\* The tree below an entry, in the order the code walks it.
RECURSIVE Walk(_, _)
Walk(K, id) == FlattenSeq([i \in DOMAIN K.kids[id] |-> <<K.kids[id][i]>> \o Walk(K, K.kids[id][i])])

parent(K, id) == CHOOSE q \in DOMAIN K.kids : id \in Range(K.kids[q])

RECURSIVE menu_get_parent_menu(_, _)
menu_get_parent_menu(K, id) ==
  LET p == prompt(K, id)
  IN  IF id = 0 \/ (p # 0 /\ K.prop[p].type = "MENU") THEN id ELSE menu_get_parent_menu(K, parent(K, id))
=============================================================================
