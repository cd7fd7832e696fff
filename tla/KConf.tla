-------------------------------- MODULE KConf -------------------------------
(* The conf program (tools/kconfig/conf.c) run again and again on the same *)
(* disk, with Kconfig files that may change in between.  The recursion of  *)
(* conf, check_conf and conf_choice is the stack todo of what is left to   *)
(* do; the user answers the questions it asks.                             *)
EXTENDS KConfData

CONSTANTS
  Files,      \* the versions of the Kconfig files, by name
  Source(_),  \* the statements of each
  Order(_),   \* the order of its symbols in the hash table
  Modes,      \* the modes the program is started in
  Draws,      \* what rand() may give: functions from symbols to tristates
  MaxRuns     \* bound on the number of runs

VARIABLES
  file,       \* the version of the Kconfig files last used
  tab,        \* what conf_parse made of it
  config,     \* .config on disk
  minimal,    \* the file savedefconfig writes
  phase,      \* "shell" between runs, "ask" while questions are asked
  mode,       \* input_mode
  st,         \* the symbols
  todo,       \* what is left to do, the next first
  asked,      \* conf_cnt # 0
  root,       \* rootEntry
  rounds,     \* how often this run has gone over all symbols
  runs

vars == <<file, tab, config, minimal, phase, mode, st, todo, asked, root, rounds, runs>>

Parse(f) == conf_parse(Source(f), Order(f)).K
NoSyms == [change |-> FALSE]

Interactive == {"oldaskconfig", "oldconfig", "syncconfig", "listnewconfig"}

Init ==
  /\ file \in Files /\ tab = Parse(file)
  /\ config = NoFile /\ minimal = NoFile
  /\ phase = "shell" /\ mode = "none" /\ st = NoSyms
  /\ todo = <<>> /\ asked = FALSE /\ root = 0 /\ rounds = 0
  /\ runs = 0

----------------------------------------------------------------------------
(* Runs without questions.                                                 *)

Tasks(op, ids) == [i \in DOMAIN ids |-> [op |-> op, id |-> ids[i], new |-> FALSE]]

\* main up to the first question; the configuration is read from .config,
\* or from the minimal file for --defconfig.
Read(k, f, m) == conf_read(k, InitSyms(k), IF m = "defconfig" THEN minimal ELSE config, Order(f))

start(f, m) ==
  /\ phase = "shell" /\ m \in Interactive
  /\ runs < MaxRuns
  /\ file' = f /\ tab' = Parse(f) /\ mode' = m
  /\ phase' = "ask" /\ st' = Read(tab', f, m)
  /\ todo' = Tasks(IF m = "oldaskconfig" THEN "conf" ELSE "check", <<0>>)
  /\ asked' = FALSE /\ root' = 0 /\ rounds' = 0 /\ runs' = runs + 1
  /\ UNCHANGED <<config, minimal>>

\* The symbols a mode that asks nothing ends with, x being those it read;
\* alldefconfig and its like start without a configuration.
Policy == [defconfig |-> "default", alldefconfig |-> "default", allyesconfig |-> "yes",
           allmodconfig |-> "mod", allnoconfig |-> "no"]
Batch(k, x, f, m) ==
  CASE m = "olddefconfig" -> x
    [] m \in DOMAIN Policy ->
         conf_set_all_new_symbols(k, IF m = "defconfig" THEN x ELSE InitSyms(k), Policy[m], Order(f))
    [] m = "yes2modconfig" -> conf_rewrite_mod_or_yes(k, x, yes, mod)
    [] m = "mod2yesconfig" -> conf_rewrite_mod_or_yes(k, x, mod, yes)

batch(f, m) ==
  /\ phase = "shell" /\ m \in Modes \ (Interactive \cup {"savedefconfig", "randconfig"})
  /\ runs < MaxRuns
  /\ m = "defconfig" => minimal # NoFile
  /\ file' = f /\ tab' = Parse(f) /\ mode' = m
  /\ config' = conf_write(tab', Batch(tab', Read(tab', f, m), f, m)).out
  /\ runs' = runs + 1
  /\ UNCHANGED <<minimal, phase, st, todo, asked, root, rounds>>

randconfig(f) ==
  /\ phase = "shell" /\ "randconfig" \in Modes
  /\ runs < MaxRuns
  /\ file' = f /\ tab' = Parse(f) /\ mode' = "randconfig" /\ runs' = runs + 1
  /\ \E r \in Draws, pick \in [ChoiceSyms(tab') -> SymbolsOf(tab')] :
       /\ \A cs \in ChoiceSyms(tab') : pick[cs] \in Range(tab'.values[cs])
       /\ config' = conf_write(tab', SetRandom(tab', InitSyms(tab'), r, pick, Order(f))).out
  /\ UNCHANGED <<minimal, phase, st, todo, asked, root, rounds>>

savedefconfig(f) ==
  /\ phase = "shell" /\ "savedefconfig" \in Modes
  /\ runs < MaxRuns
  /\ file' = f /\ tab' = Parse(f) /\ mode' = "savedefconfig" /\ runs' = runs + 1
  /\ minimal' = conf_write_defconfig(tab', Read(tab', f, "savedefconfig"))
  /\ UNCHANGED <<config, phase, st, todo, asked, root, rounds>>

----------------------------------------------------------------------------
(* Questions.  Each action does the first task of todo.                    *)

Asking(op) == phase = "ask" /\ todo # <<>> /\ Head(todo).op = op
Id == Head(todo).id
Sym == tab.node[Id].sym
Kids == tab.kids[Id]
Then(x, tasks) == st' = x /\ todo' = tasks \o Tail(todo)

\* A new symbol restarts the questions at the menu around it.
IsNew(x) ==
  /\ Sym # None /\ ~sym_has_value(x, Sym)
  /\ sym_is_changeable(x, Sym) \/ (sym_is_choice(tab, Sym) /\ x.tri[Sym] = yes)
  /\ mode # "listnewconfig"
Checked(r, menu) ==
  CASE ~r.v -> Then(r.st, <<>>) /\ UNCHANGED <<asked, root>>
    [] r.v /\ IsNew(r.st) -> /\ Then(r.st, Tasks("conf", <<menu>>) \o Tasks("check", Kids))
                            /\ asked' = TRUE /\ root' = menu
    [] OTHER -> Then(r.st, Tasks("check", Kids)) /\ UNCHANGED <<asked, root>>
check_conf ==
  /\ Asking("check")
  /\ Checked(menu_is_visible(tab, st, Id), menu_get_parent_menu(tab, Id))
  /\ UNCHANGED <<file, tab, config, minimal, phase, mode, rounds, runs>>

Submenu == tab.prop[prompt(tab, Id)].type = "MENU" /\ mode # "oldaskconfig" /\ root # Id
ConfTasks(visible) ==
  CASE ~visible -> <<>>
    [] visible /\ Submenu -> Tasks("check", <<Id>>)
    [] visible /\ ~Submenu /\ Sym = None -> Tasks("kids", <<Id>>)
    [] OTHER -> IF sym_is_choice(tab, Sym) THEN Tasks("choice", <<Id>>) \o Tasks("values", <<Id>>)
                ELSE Tasks("ask", <<Id>>) \o Tasks("kids", <<Id>>)
Confed(r) == Then(r.st, ConfTasks(r.v))
conf ==
  /\ Asking("conf")
  /\ Confed(menu_is_visible(tab, st, Id))
  /\ UNCHANGED <<file, tab, config, minimal, phase, mode, asked, root, rounds, runs>>

\* The children of an entry; those of a choice only if several may be set.
conf_childs ==
  /\ phase = "ask" /\ todo # <<>> /\ Head(todo).op \in {"kids", "values"}
  /\ Then(st, IF Head(todo).op = "values" /\ st.tri[Sym] # mod THEN <<>> ELSE Tasks("conf", Kids))
  /\ UNCHANGED <<file, tab, config, minimal, phase, mode, asked, root, rounds, runs>>

\* Nothing is asked about a symbol the user cannot change or, except in
\* oldaskconfig, has already set.
conf_askvalue(s) == sym_is_changeable(st, s) /\ (mode = "oldaskconfig" \/ ~sym_has_value(st, s))

\* conf_sym and conf_string: the empty answer keeps the value; an answer
\* that is not accepted is asked for again.
Answer(a) ==
  sym_set_string_value(tab, st, Sym,
    CASE a # "" -> a
      [] a = "" /\ IsTri(Sym) -> TriString(st.tri[Sym])
      [] OTHER -> sym_get_string_value(tab, st, Sym))
Accept(r) == r.ok /\ Then(r.st, <<>>)

answer(a) ==
  /\ Asking("ask") /\ conf_askvalue(Sym)
  /\ IsTri(Sym) => a \in Consts \cup {""}
  /\ ~IsTri(Sym) => a \notin Consts
  /\ Accept(Answer(a))
  /\ UNCHANGED <<file, tab, config, minimal, phase, mode, asked, root, rounds, runs>>

no_question ==
  /\ Asking("ask") /\ ~conf_askvalue(Sym)
  /\ Then(st, <<>>)
  /\ UNCHANGED <<file, tab, config, minimal, phase, mode, asked, root, rounds, runs>>

\* The mode of a choice is asked for before its value.
conf_choice ==
  LET pick == <<[op |-> "pick", id |-> Id, new |-> ~sym_has_value(st, Sym)]>>
  IN  /\ Asking("choice")
      /\ Then(st, IF sym_is_changeable(st, Sym) THEN Tasks("ask", <<Id>>) \o pick ELSE pick)
      /\ UNCHANGED <<file, tab, config, minimal, phase, mode, asked, root, rounds, runs>>

\* The values on offer, and the state once their visibility is known.
OfferIf(w, r, id) ==
  [st |-> r.st, ids |-> IF r.v /\ tab.node[id].sym # None THEN Append(w.ids, id) ELSE w.ids]
Offer ==
  FoldLeft(LAMBDA w, id : OfferIf(w, menu_is_visible(tab, w.st, id), id),
           [st |-> sym_calc_value(tab, st, Sym), ids |-> <<>>], Kids)

PickFrom(offer, id) ==
  LET value == tab.node[id].sym
  IN  /\ id \in Range(offer.ids)
      /\ \/ Len(offer.ids) = 1 \/ mode = "oldaskconfig" \/ Head(todo).new
         \/ value = offer.st.val[Sym]
      /\ Then(sym_set_tristate_value(tab, offer.st, value, yes).st, Tasks("conf", tab.kids[id]))
pick_value(id) ==
  /\ Asking("pick") /\ id \in Range(Kids)
  /\ sym_calc_value(tab, st, Sym).tri[Sym] = yes
  /\ PickFrom(Offer, id)
  /\ UNCHANGED <<file, tab, config, minimal, phase, mode, asked, root, rounds, runs>>

no_choice ==
  /\ Asking("pick") /\ sym_calc_value(tab, st, Sym).tri[Sym] # yes
  /\ Then(sym_calc_value(tab, st, Sym), <<>>)
  /\ UNCHANGED <<file, tab, config, minimal, phase, mode, asked, root, rounds, runs>>

\* Another round if anything was asked, else the configuration is written.
again ==
  /\ phase = "ask" /\ todo = <<>> /\ (asked \/ mode = "oldaskconfig")
  /\ todo' = Tasks("check", <<0>>) /\ asked' = FALSE /\ rounds' = rounds + 1
  /\ mode' = IF mode = "oldaskconfig" THEN "oldconfig" ELSE mode
  /\ UNCHANGED <<file, tab, config, minimal, phase, st, root, runs>>

finish ==
  /\ phase = "ask" /\ todo = <<>> /\ ~asked /\ mode # "oldaskconfig"
  /\ config' = IF mode = "listnewconfig" THEN config ELSE conf_write(tab, st).out
  /\ phase' = "shell" /\ st' = NoSyms /\ root' = 0 /\ rounds' = 0
  /\ UNCHANGED <<file, tab, minimal, mode, todo, asked, runs>>

Answers == {""} \cup Consts \cup DOMAIN Num

Next ==
  \/ \E f \in Files, m \in Modes : start(f, m) \/ batch(f, m)
  \/ \E f \in Files : randconfig(f) \/ savedefconfig(f)
  \/ check_conf \/ conf \/ conf_childs \/ conf_choice \/ no_question \/ no_choice
  \/ \E a \in Answers : answer(a)
  \/ phase = "ask" /\ \E id \in DOMAIN tab.node : pick_value(id)
  \/ again \/ finish

Spec == Init /\ [][Next]_vars

----------------------------------------------------------------------------

(* The values at the end of a round of questions, whatever was answered.   *)

AllCalculated(x, order) == FoldLeft(LAMBDA w, s : sym_calc_value(tab, w, s), x, order)
RoundEnds == phase = "ask" /\ todo = <<>>
ValuesOf(x) == [tri |-> x.tri, val |-> x.val, vis |-> x.vis]
SameInAnyOrder(x, order) == ValuesOf(AllCalculated(x, order)) = ValuesOf(AllCalculated(x, Reverse(order)))
OneValueEach(x) ==
  \A cs \in ChoiceSyms(tab) :
    x.tri[cs] = yes => Cardinality({s \in Range(tab.values[cs]) : x.tri[s] = yes}) = 1

\* The value of every symbol is a function of what the user set: sym_calc_value
\* calculates symbols on demand and remembers them, and whichever symbol is
\* asked for first, the values come out the same.
OrderDoesNotMatter == RoundEnds => SameInAnyOrder(sym_clear_all_valid(tab, st), Order(file))

\* A choice set to y has exactly one value set to y, also when answers, a new
\* version of the file or a select took away the value that was chosen, and
\* at whatever point of the questions the symbols are calculated.
OneValuePerChoice == phase = "ask" => OneValueEach(AllCalculated(st, Order(file)))

\* The loop "Update until a loop caused no more changes" ends: every round
\* that asks something leaves fewer symbols to ask for.
RoundsAreBounded == rounds <= Cardinality(SymbolsOf(tab))

\* What olddefconfig would write over configuration c, and what of a
\* configuration the build sees.
Olddefconfig(c) == conf_write(tab, conf_read(tab, InitSyms(tab), c, Order(file))).out
SetLines(c) == SelectSeq(c, LAMBDA l : l.v # "n")

\* Whatever mode wrote .config, reading it back with the same Kconfig files
\* and writing it again leaves every set symbol as it was: what a user chose
\* is not lost or altered by running the program again.
SavedConfigIsStable ==
  phase = "shell" /\ config # NoFile /\ mode \notin {"savedefconfig", "listnewconfig"} =>
    SetLines(Olddefconfig(config)) = SetLines(config)

\* The minimal file of savedefconfig leaves out everything that has its
\* default; defconfig rebuilds from it all the symbols of an up-to-date
\* configuration.
MinimalConfigRestores ==
  phase = "shell" /\ mode = "savedefconfig" /\ config # NoFile /\ Olddefconfig(config) = config =>
    SetLines(conf_write(tab, Batch(tab, Read(tab, file, "defconfig"), file, "defconfig")).out) = SetLines(config)
=============================================================================
