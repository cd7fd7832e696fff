------------------------------ MODULE MCKConf -------------------------------
(* Three versions of a Kconfig file: plain symbols with a submenu, a       *)
(* select and a number; a choice of bools below a menu; a tristate choice. *)
EXTENDS KConf

S(s) == expr_alloc_symbol(s)
cfg(s, type) == <<[op |-> "config", s |-> s], [op |-> "type", type |-> type]>>
ask == <<[op |-> "prompt", type |-> "PROMPT", dep |-> NULL]>>
askif(e) == <<[op |-> "prompt", type |-> "PROMPT", dep |-> e]>>
opt(o, e, dep) == <<[op |-> o, e |-> e, dep |-> dep]>>
on(e) == <<[op |-> "depends", e |-> e]>>
do(o) == <<[op |-> o]>>
menu(e) == <<[op |-> "menu", type |-> "MENU"], [op |-> "visible", e |-> e], [op |-> "begin"]>>

MCSymType == [M |-> "bool", A |-> "tristate", B |-> "bool", D |-> "tristate", N |-> "int",
              C |-> "bool", X |-> "bool", Y |-> "bool", T |-> "tristate", U |-> "tristate", V |-> "tristate"]
MCStrOrder == <<"", "1", "2", "3", "m", "n", "y">>
MCNum == [x \in {"1", "2", "3"} |-> CASE x = "1" -> 1 [] x = "2" -> 2 [] x = "3" -> 3]

MCSource(f) ==
  CASE f = "plain" ->
         cfg("M", "bool") \o ask \o do("modules")
         \o cfg("A", "tristate") \o ask \o opt("SELECT", S("D"), NULL)
         \o cfg("B", "bool") \o ask \o on(S("A")) \o opt("DEFAULT", S("y"), NULL)
         \o cfg("D", "tristate") \o askif(S("B"))
         \o cfg("N", "int") \o askif(expr_alloc_comp("UNEQUAL", "A", "n")) \o opt("RANGE", expr_alloc_comp("RANGE", "1", "2"), S("B"))
         \o opt("DEFAULT", S("3"), NULL)
    [] f = "choice" ->
         cfg("A", "tristate") \o ask \o opt("IMPLY", S("B"), NULL)
         \o cfg("B", "bool") \o askif(S("A")) \o do("allnoconfig_y")
         \o menu(S("A"))
         \o <<[op |-> "choice", s |-> "C"]>> \o ask \o opt("DEFAULT", S("Y"), S("B")) \o do("begin")
         \o cfg("X", "bool") \o ask
         \o cfg("Y", "bool") \o ask \o on(S("B"))
         \o do("end") \o do("end")
         \o <<[op |-> "if", e |-> S("X")]>> \o cfg("D", "tristate") \o ask \o do("end")
    [] f = "tristate" ->
         cfg("M", "bool") \o ask \o do("modules") \o opt("DEFAULT", S("y"), NULL)
         \o <<[op |-> "choice", s |-> "T"], [op |-> "type", type |-> "tristate"]>> \o ask \o do("optional") \o do("begin")
         \o cfg("U", "tristate") \o ask
         \o cfg("V", "tristate") \o ask
         \o cfg("X", "bool") \o ask
         \o do("end")
         \o <<[op |-> "comment", type |-> "COMMENT"]>> \o on(S("m"))
         \o cfg("D", "tristate") \o opt("DEFAULT", S("U"), S("m"))

MCOrder(f) == CASE f = "plain" -> <<"D", "N", "B", "A", "M">>
                [] f = "choice" -> <<"X", "C", "Y", "D", "A", "B">>
                [] f = "tristate" -> <<"V", "U", "X", "T", "D", "M">>

\* The types the files give are the ones KExpr compares by, and their
\* dependencies are acyclic.
ASSUME FilesAreWellTyped ==
  \A f \in Files : LET r == conf_parse(Source(f), Order(f))
                   IN  /\ r.ok
                       /\ \A s \in SymbolsOf(r.K) : r.K.type[s] = MCSymType[s]
                       /\ Range(MCOrder(f)) = SymbolsOf(r.K)

\* Draws in which a select and an imply meet a user's n.
MCDraws ==
  {[s \in DOMAIN MCSymType |-> IF s \in {"M", "A"} THEN yes ELSE no],
   [s \in DOMAIN MCSymType |-> IF MCSymType[s] = "tristate" THEN mod ELSE IF s \in {"M", "B"} THEN yes ELSE no]}
=============================================================================
