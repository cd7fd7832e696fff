------------------------------ MODULE KConfData -----------------------------
(* Reading and writing configuration files (tools/kconfig/confdata.c).     *)
(* A file is the sequence of its lines, [s |-> symbol, v |-> value]; the   *)
(* line "# CONFIG_s is not set" has the value "n".  Headings and comments  *)
(* are left out; NoFile is a file that does not exist.                     *)
EXTENDS KSymbol

NoFile == <<[s |-> "", v |-> "no such file"]>>

ChoiceSyms(K) == DOMAIN K.values

conf_set_sym_val(K, st, s, v) ==
  CASE K.type[s] \in {"bool", "tristate"} ->
         IF v \in {"y", "n"} \/ (v = "m" /\ K.type[s] = "tristate")
         THEN [ok |-> TRUE, st |-> [st EXCEPT !.utri[s] = TriOf(<<>>, v), !.has = @ \cup {s}]]
         ELSE [ok |-> FALSE, st |-> st]
    [] K.type[s] \in {"int", "hex", "string"} ->
         IF sym_string_valid(K, s, v) THEN [ok |-> TRUE, st |-> [st EXCEPT !.uval[s] = v, !.has = @ \cup {s}]]
         ELSE [ok |-> FALSE, st |-> st]
    [] OTHER -> [ok |-> TRUE, st |-> st]

\* A variant that does not tell the choice which of its values is set.
MarkChoice_Unset(w, r, s, cs) == [st |-> r.st, warn |-> w.warn \/ s \in w.st.has]

\* A value of choice cs was read: the choice takes the largest of them.
MarkChoice(w, r, s, cs) ==
  LET tri == r.st.utri[s]
      chosen == r.st.utri[cs]
  IN  [st |-> [r.st EXCEPT !.has = IF tri = mod /\ chosen = yes THEN @ \ {cs} ELSE @,
                           !.uval[cs] = IF tri = yes THEN s ELSE @,
                           !.utri[cs] = EXPR_OR(@, tri)],
       warn |-> \/ w.warn \/ s \in w.st.has
                \/ (tri = mod /\ chosen = yes) \/ (tri = yes /\ chosen # no)]

\* One line of the file: w.warn counts what conf_read calls warnings.
LineRead(K, w, r, s) ==
  CASE ~r.ok -> [w EXCEPT !.warn = TRUE]
    [] r.ok /\ sym_is_choice_value(K, s) -> MarkChoice(w, r, s, K.choice[s])
    [] OTHER -> [st |-> r.st, warn |-> w.warn \/ s \in w.st.has]
ReadLine(K, w, line) ==
  IF line.s \notin SymbolsOf(K) THEN [w EXCEPT !.st.change = TRUE]
  ELSE LineRead(K, w, conf_set_sym_val(K, w.st, line.s, line.v), line.s)

\* Every symbol forgets the user's value, then takes the one of the file.
conf_read_simple(K, st, file) ==
  LET clean == [st EXCEPT !.valid = {}, !.has = ChoiceSyms(K),
                          !.utri = [s \in SymbolsOf(K) |-> no], !.uval = [s \in SymbolsOf(K) |-> NoVal]]
  IN  IF file = NoFile THEN [st |-> [st EXCEPT !.change = TRUE], warn |-> FALSE, ok |-> FALSE]
      ELSE LET w == FoldLeft(LAMBDA x, line : ReadLine(K, x, line), [st |-> clean, warn |-> FALSE], file)
           IN  [st |-> w.st, warn |-> w.warn, ok |-> TRUE]

\* The file's value is not the one the symbol gets.
Unsaved(K, st, s) ==
  /\ ~sym_is_choice(K, s)
  /\ IF sym_has_value(st, s) /\ s \in st.write
     THEN IF K.type[s] \in {"bool", "tristate"} THEN st.utri[s] # st.tri[s] ELSE st.uval[s] # st.val[s]
     ELSE sym_has_value(st, s) \/ s \in st.write

\* Values that are out of range, or that nothing shows, are forgotten.
Forget(w, s, out) ==
  [st |-> [w.st EXCEPT !.has = IF out \/ (w.st.vis[s] = no /\ ~w.unsaved) THEN @ \ {s} ELSE @,
                       !.valid = IF out THEN @ \ {s} ELSE @],
   unsaved |-> w.unsaved \/ out]
ForgetUnused(K, w, s) ==
  IF ~sym_has_value(w.st, s) \/ sym_is_choice_value(K, s) THEN w
  ELSE Forget(w, s, /\ K.type[s] \in {"int", "hex", "string"}
                    /\ ~sym_string_within_range(K, w.st, s, w.st.uval[s]))

NoteUnsaved(K, st, s, unsaved) == [st |-> st, unsaved |-> unsaved \/ Unsaved(K, st, s)]
CalcAndNote(K, st, order) ==
  FoldLeft(LAMBDA w, s : NoteUnsaved(K, sym_calc_value(K, w.st, s), s, w.unsaved),
           [st |-> st, unsaved |-> FALSE], order)
Changed(r, w) == [w.st EXCEPT !.change = @ \/ r.warn \/ w.unsaved]
ReadDone(K, r, st, order) ==
  IF r.ok THEN Changed(r, FoldLeft(LAMBDA w, s : ForgetUnused(K, w, s), CalcAndNote(K, st, order), order))
  ELSE st
WithModules(K, r, order) == ReadDone(K, r, sym_calc_value(K, r.st, K.modules), order)

conf_read(K, st, file, order) ==
  WithModules(K, conf_read_simple(K, [st EXCEPT !.change = FALSE], file), order)

----------------------------------------------------------------------------

conf_write_symbol(K, st, s) == [s |-> s, v |-> sym_get_string_value(K, st, s)]

\* conf_write: what one entry of the tree adds to .config.
WriteSym(K, w, st, s) ==
  IF s \notin st.write THEN [w EXCEPT !.st = st]
  ELSE [st |-> st, written |-> w.written \cup {s}, out |-> Append(w.out, conf_write_symbol(K, st, s))]
WriteEntry(K, w, id) ==
  LET s == K.node[id].sym
  IN  IF s = None THEN [w EXCEPT !.st = menu_is_visible(K, w.st, id).st]
      ELSE IF sym_is_choice(K, s) \/ s \in w.written THEN w
      ELSE WriteSym(K, w, sym_calc_value(K, w.st, s), s)

Written(w) == [st |-> [w.st EXCEPT !.change = FALSE], out |-> w.out]
conf_write(K, st) ==
  Written(FoldLeft(LAMBDA w, id : WriteEntry(K, w, id),
                   [st |-> IF st.change THEN st ELSE sym_clear_all_valid(K, st), written |-> {}, out |-> <<>>],
                   Walk(K, 0)))

\* conf_write_defconfig: only what differs from the default.
Redundant(K, st, s) ==
  /\ sym_is_choice_value(K, s) /\ K.choice[s] \notin K.optional
  /\ K.type[s] = "bool" /\ st.tri[s] = yes
  /\ sym_choice_default(K, st, K.choice[s]).s = s
MinimalSym(K, w, st, s) ==
  IF \/ ~sym_is_changeable(st, s)
     \/ sym_get_string_value(K, st, s) = sym_get_string_default(K, st, s)
     \/ Redundant(K, st, s)
  THEN [w EXCEPT !.st = st]
  ELSE [st |-> st, out |-> Append(w.out, conf_write_symbol(K, st, s))]
Unwritten(K, w, st, s) ==
  IF s \in st.write THEN MinimalSym(K, w, [st EXCEPT !.write = @ \ {s}], s) ELSE [w EXCEPT !.st = st]
MinimalEntry(K, w, id) ==
  LET s == K.node[id].sym
  IN  IF s = None THEN [w EXCEPT !.st = menu_is_visible(K, w.st, id).st]
      ELSE IF sym_is_choice(K, s) THEN w
      ELSE Unwritten(K, w, sym_calc_value(K, w.st, s), s)

conf_write_defconfig(K, st) ==
  FoldLeft(LAMBDA w, id : MinimalEntry(K, w, id),
           [st |-> sym_clear_all_valid(K, st), out |-> <<>>], Walk(K, 0)).out

----------------------------------------------------------------------------
(* Setting everything at once.                                             *)

NewSyms(K, st) ==
  {s \in SymbolsOf(K) \ (st.has \cup st.valid) : sym_get_type(K, st, s) \in {"bool", "tristate"}}

\* Symbols the user has not set take the value of the mode.
NewValue(K, mode, s, tri) ==
  CASE mode = "yes" -> yes [] mode = "mod" -> mod
    [] mode = "no" -> IF s \in K.allnoconfig_y THEN yes ELSE no
    [] OTHER -> tri
AssignNew(K, st, mode) ==
  LET new == NewSyms(K, st)
  IN  IF mode = "default" THEN st
      ELSE [st EXCEPT !.utri = [s \in DOMAIN @ |-> IF s \in new THEN NewValue(K, mode, s, @[s]) ELSE @[s]],
                      !.has = @ \cup new]

SetChoice(K, st, s) ==
  IF s \in st.has \/ ~sym_is_choice(K, s) THEN st ELSE set_all_choice_values(K, sym_calc_value(K, st, s), s)
NeedChoices(K, st) == [st EXCEPT !.need = @ \cup (ChoiceSyms(K) \ st.has) \cup DOMAIN K.choice]
conf_set_all_new_symbols(K, st, mode, order) ==
  FoldLeft(LAMBDA w, s : SetChoice(K, w, s), NeedChoices(K, sym_clear_all_valid(K, AssignNew(K, st, mode))), order)

\* randconfig: any value, r[s], for a new symbol, though a choice only keeps
\* it if it comes out as y, with any of its values, pick[cs], as its value.
randomize_choice_values(K, st, cs, s) ==
  LET values == Range(K.values[cs])
  IN  IF st.tri[cs] # yes THEN st
      ELSE [st EXCEPT !.utri = [t \in DOMAIN @ |-> IF t = s THEN yes ELSE IF t \in values THEN no ELSE @[t]],
                      !.uval[cs] = s, !.has = @ \cup values \cup {cs}, !.valid = @ \ (values \cup {cs})]

\* Passes over the choices until none changes any more.
RECURSIVE RandomPasses(_, _, _, _)
RandomChoice(K, st, pick, s) ==
  IF s \in st.has \/ ~sym_is_choice(K, s) THEN st
  ELSE randomize_choice_values(K, sym_calc_value(K, st, s), s, pick[s])
PassAgain(K, st, had, pick, order) == IF st.has = had THEN st ELSE RandomPasses(K, st, pick, order)
RandomPasses(K, st, pick, order) ==
  PassAgain(K, FoldLeft(LAMBDA w, s : RandomChoice(K, w, pick, s), sym_clear_all_valid(K, st), order),
            st.has, pick, order)

SetRandom(K, st, r, pick, order) ==
  LET new == NewSyms(K, st)
  IN  RandomPasses(K, [st EXCEPT !.utri = [s \in DOMAIN @ |-> IF s \in new THEN r[s] ELSE @[s]],
                                 !.has = @ \cup (new \ ChoiceSyms(K))], pick, order)

\* yes2modconfig and mod2yesconfig
conf_rewrite_mod_or_yes(K, st, old, new) ==
  sym_clear_all_valid(K,
    [st EXCEPT !.utri = [s \in DOMAIN @ |->
       IF sym_get_type(K, st, s) = "tristate" /\ @[s] = old THEN new ELSE @[s]]])
=============================================================================
