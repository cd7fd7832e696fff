---------------------------- MODULE KBuildProofs ----------------------------
(* For every set of symbols, files and objects: a finished make leaves no  *)
(* object stale, and no crash loses the saved configuration.               *)
EXTENDS KBuild, TLAPS

MaybeConfig == Configs \cup {NoFile}
Things == Files \cup Syms \cup {AutoHeader}
ConfSteps == {"write", "renamed", "written", "touch", "header"}

\* An object that exists, and the words it was compiled from.
Exists(o) == obj[o] # NoObj
BuiltWords(o) == UNION {obj[o].text[f] : f \in SourceFiles(o)}

TypeOK ==
  /\ config \in MaybeConfig /\ old \in MaybeConfig /\ tmp \in MaybeConfig
  /\ auto \in MaybeConfig /\ header \in MaybeConfig /\ cur \in MaybeConfig
  /\ text \in [Files -> Texts]
  /\ newer \in [Objs -> SUBSET Things]
  /\ pc \in ConfSteps \cup {"shell", "make"}
  /\ pc \in ConfSteps => cur \in Configs
  /\ pc = "make" => header \in Configs
  /\ left \in SUBSET Syms
  /\ early \in BOOLEAN
  /\ work \in [Objs -> {"idle", "cc", "fixdep"}]
  /\ DOMAIN obj = Objs /\ DOMAIN dep = Objs
  /\ \A o \in Objs : work[o] # "idle" => pc = "make"

\* Where the saved configuration is.
SavedIsKept == config = saved \/ (config = NoFile /\ old = saved)

\* What an object is, and that whatever it no longer agrees with is newer.
TextIsNewer(o) ==
  /\ obj[o] = [text |-> obj[o].text, macros |-> obj[o].macros]
  /\ obj[o].text \in [SourceFiles(o) -> Texts]
  /\ obj[o].macros \subseteq {w \in BuiltWords(o) : ~w.inner}
  /\ \A f \in SourceFiles(o) : obj[o].text[f] = text[f] \/ f \in newer[o]

Defined(c, w) == c[w.sym] = IF w.module THEN "m" ELSE "y"
AgreesWith(o, c, w) == (w \in obj[o].macros) <=> Defined(c, w)

HeaderIsNewer(o) ==
  /\ header \in Configs
  /\ AutoHeader \in newer[o] \/ \A w \in BuiltWords(o) : w.inner \/ AgreesWith(o, header, w)

\* The .d file covers what the object was compiled from.
DepCovers(o) ==
  /\ SourceFiles(o) \subseteq Prerequisites(o)
  /\ \/ AutoHeader \in Prerequisites(o)
     \/ \A w \in BuiltWords(o) : w.inner \/ w.sym \in dep[o].syms
Recipe(o) ==
  /\ work[o] # "idle" => dep[o] = RawDep(o)
  /\ work[o] = "fixdep" => Exists(o) /\ \A f \in SourceFiles(o) : obj[o].text[f] = text[f]

\* Symbols are touched by comparison with auto.conf, so it is auto.conf that
\* objects are compared with.
SymIsNewer(o) ==
  /\ auto \in Configs
  /\ \A w \in BuiltWords(o) : w.inner \/ AgreesWith(o, auto, w) \/ w.sym \in newer[o]
Touched ==
  pc \in {"touch", "header"} =>
    /\ \A s \in Syms : cur[s] = AutoValue(s) \/ s \in left \/ \A o \in Objs : s \in newer[o]
    /\ pc = "header" => header = cur /\ left = {}
NotEarly == pc = "make" /\ ~early => auto = header

ObjInv(o) ==
  /\ Exists(o) => TextIsNewer(o) /\ HeaderIsNewer(o) /\ DepCovers(o)
  /\ Exists(o) /\ ~early => SymIsNewer(o)
  /\ Recipe(o)

IInv == TypeOK /\ SavedIsKept /\ Touched /\ NotEarly /\ \A o \in Objs : ObjInv(o)

----------------------------------------------------------------------------
(* What the rules read.                                                    *)

LEMMA SourceFilesType == \A o \in Objs : /\ SourceFiles(o) \subseteq Files
                                         /\ AutoHeader \in ReadSet(o)
                                         /\ ReadSet(o) = SourceFiles(o) \cup {AutoHeader}
                                         /\ Reads[o][1] \in SourceFiles(o)
  BY ReadsAssumption, FilesAssumption DEF SourceFiles, ReadSet

\* What fixdep keeps of a dependency file: the headers, and the symbols of
\* everything the compiler read.
LEMMA FixdepCovers ==
  ASSUME NEW o \in Objs
  PROVE  LET d == parse_dep_file(DepFile(o))
         IN  /\ SourceFiles(o) \subseteq {Reads[o][1]} \cup d.files
             /\ \A f \in SourceFiles(o) : parse_config_file(text[f]) \subseteq d.syms
<1> DEFINE toks == DepFile(o)
           n == Len(Reads[o])
<1>1. n \in Nat /\ n > 0 /\ Reads[o] \in Seq(Files \cup {AutoHeader}) /\ n = Len(Reads[o])
  BY ReadsAssumption
<1>2. Len(toks) = n + 1 /\ toks[1].target
      /\ \A i \in 1..n : toks[i + 1].name = Reads[o][i] /\ ~toks[i + 1].target
  BY <1>1 DEF DepFile
<1> HIDE DEF toks, n
<1>3. \A i \in 1..n : Reads[o][i] # AutoHeader => IsDep(toks, i + 1)
  BY <1>2 DEF IsDep, is_ignored_file
<1>4. IsDep(toks, 2)
  BY <1>1, <1>3, ReadsAssumption, FilesAssumption
<1>5. ASSUME NEW i \in 2..n, IsFirstDep(toks, i + 1)
      PROVE  FALSE
  <2>1. PICK j \in 1..i : toks[j].target /\ \A k \in (j + 1)..i : ~IsDep(toks, k)
    BY <1>1, <1>5 DEF IsFirstDep
  <2>2. j = 1
    <3>1. SUFFICES ASSUME j # 1 PROVE FALSE
      OBVIOUS
    <3>2. j - 1 \in 1..n
      BY <3>1, <1>1
    <3>3. ~toks[(j - 1) + 1].target
      BY <3>2, <1>2
    <3> QED
      BY <3>3, <2>1, <1>1
  <2>3. 2 \in (j + 1)..i
    BY <2>2, <1>1
  <2> QED
    BY <2>1, <2>3, <1>4
<1>6. ASSUME NEW f \in SourceFiles(o)
      PROVE  /\ f \in {Reads[o][1]} \cup parse_dep_file(toks).files
             /\ parse_config_file(text[f]) \subseteq parse_dep_file(toks).syms
  <2>1. PICK i \in 1..n : Reads[o][i] = f /\ f # AutoHeader
    BY <1>1 DEF SourceFiles, ReadSet
  <2>2. i + 1 \in 1..Len(toks) /\ IsDep(toks, i + 1) /\ toks[i + 1].name = f
    BY <2>1, <1>1, <1>2, <1>3
  <2>3. parse_config_file(text[f]) \subseteq parse_dep_file(toks).syms
    <3>1. parse_dep_file(toks).syms
            = UNION {parse_config_file(text[toks[k].name]) : k \in {j \in 1..Len(toks) : IsDep(toks, j)}}
      BY DEF parse_dep_file
    <3> QED
      BY <2>2, <3>1, Zenon
  <2>4. f \in {Reads[o][1]} \cup parse_dep_file(toks).files
    <3>1. parse_dep_file(toks).files
            = {toks[k].name : k \in {j \in 1..Len(toks) : IsDep(toks, j) /\ ~IsFirstDep(toks, j)}}
      BY DEF parse_dep_file
    <3>2. CASE i = 1
      BY <3>2, <2>1
    <3>3. CASE i # 1
      <4>1. ~IsFirstDep(toks, i + 1)
        BY <3>3, <1>1, <1>5
      <4> QED
        BY <4>1, <3>1, <2>2
    <3> QED
      BY <3>2, <3>3
  <2> QED
    BY <2>3, <2>4
<1> QED
  BY <1>6 DEF toks

----------------------------------------------------------------------------
(* Steps that leave an object and everything it depends on alone.          *)

LEMMA ObjSame ==
  ASSUME NEW o \in Objs, ObjInv(o), UNCHANGED <<obj, text, newer, header, dep, early, auto, work>>
  PROVE  ObjInv(o)'
BY DEF ObjInv, Exists, TextIsNewer, HeaderIsNewer, DepCovers, SymIsNewer, Recipe, BuiltWords, AgreesWith,
       Defined, Prerequisites, RawDep

LEMMA InitInv == Init => IInv
BY ConfigsAssumption DEF Init, IInv, TypeOK, MaybeConfig, ConfSteps, SavedIsKept, Touched, NotEarly, ObjInv, Exists, Recipe

----------------------------------------------------------------------------
(* Type correctness, and the saved configuration.                          *)

LEMMA TypeStep == TypeOK /\ [Next]_vars => TypeOK'
<1> SUFFICES ASSUME TypeOK, [Next]_vars PROVE TypeOK'
  OBVIOUS
<1> USE ConfigsAssumption DEF TypeOK, MaybeConfig, ConfSteps
<1>1. ASSUME NEW c \in Configs, NEW s \in BOOLEAN, conf(c, s) PROVE TypeOK'
  BY <1>1 DEF conf, buildvars
<1>2. CASE conf_write_same
  BY <1>2 DEF conf_write_same, buildvars
<1>3. CASE conf_write_old
  BY <1>3 DEF conf_write_old, buildvars
<1>4. CASE conf_write_new
  BY <1>4 DEF conf_write_new, buildvars
<1>5. CASE conf_write_autoconf
  BY <1>5 DEF conf_write_autoconf, Exit, Changed, buildvars
<1>6. ASSUME NEW s \in Syms, conf_touch_dep(s) PROVE TypeOK'
  BY <1>6 DEF conf_touch_dep, Touch, Things, buildvars
<1>7. CASE rename_header
  BY <1>7 DEF rename_header, Touch, Things, buildvars
<1>8. CASE rename_auto
  BY <1>8 DEF rename_auto, Exit, buildvars
<1>9. CASE make
  BY <1>9 DEF make, confvars
<1>10. CASE make_done
  BY <1>10 DEF make_done, confvars, buildvars
<1>11. CASE clean
  BY <1>11 DEF clean, confvars
<1>12. CASE crash
  BY <1>12 DEF crash, Exit
<1>13. ASSUME NEW o \in Objs, cc_dep(o) PROVE TypeOK'
  BY <1>13 DEF cc_dep, confvars
<1>14. ASSUME NEW o \in Objs, cc_obj(o) PROVE TypeOK'
  BY <1>14 DEF cc_obj, confvars
<1>15. ASSUME NEW o \in Objs, fixdep(o) PROVE TypeOK'
  BY <1>15 DEF fixdep, confvars
<1>16. ASSUME NEW f \in Files, NEW t \in Texts, edit(f, t) PROVE TypeOK'
  BY <1>16 DEF edit, Touch, Things, confvars
<1>17. CASE UNCHANGED vars
  BY <1>17 DEF vars
<1> QED
  BY <1>1, <1>2, <1>3, <1>4, <1>5, <1>6, <1>7, <1>8, <1>9, <1>10, <1>11, <1>12, <1>13, <1>14, <1>15,
     <1>16, <1>17 DEF Next

LEMMA SavedStep == SavedIsKept /\ [Next]_vars => SavedIsKept'
<1> SUFFICES ASSUME SavedIsKept, [Next]_vars PROVE SavedIsKept'
  OBVIOUS
<1>1. CASE conf_write_old
  BY <1>1 DEF conf_write_old, SavedIsKept
<1>2. CASE conf_write_new
  BY <1>2 DEF conf_write_new, SavedIsKept
<1>3. CASE UNCHANGED <<config, old, saved>>
  BY <1>3 DEF SavedIsKept
<1> QED
  BY <1>1, <1>2, <1>3 DEF Next, vars, confvars, conf, conf_write_same, conf_write_autoconf, conf_touch_dep,
     rename_header, rename_auto, make, make_done, clean, crash, cc_dep, cc_obj, fixdep, edit

----------------------------------------------------------------------------
(* conf touches what changed since auto.conf was written.                  *)

LEMMA TouchedStep == TypeOK /\ Touched /\ NotEarly /\ [Next]_vars => Touched' /\ NotEarly'
<1> SUFFICES ASSUME TypeOK, Touched, NotEarly, [Next]_vars PROVE Touched' /\ NotEarly'
  OBVIOUS
<1> USE DEF Touched, NotEarly, AutoValue
<1>1. CASE conf_write_autoconf
  BY <1>1 DEF conf_write_autoconf, Exit, Changed, buildvars
<1>2. ASSUME NEW s \in Syms, conf_touch_dep(s) PROVE Touched' /\ NotEarly'
  BY <1>2 DEF conf_touch_dep, Touch, buildvars, TypeOK
<1>3. CASE rename_header
  BY <1>3 DEF rename_header, Touch, buildvars, TypeOK
<1>4. CASE rename_auto
  BY <1>4 DEF rename_auto, Exit
<1>5. CASE make
  BY <1>5 DEF make, confvars
<1>6. ASSUME NEW o \in Objs, cc_dep(o) \/ cc_obj(o) \/ fixdep(o) PROVE Touched' /\ NotEarly'
  BY <1>6 DEF cc_dep, cc_obj, fixdep, confvars
<1>7. CASE make_done \/ clean \/ crash \/ \E f \in Files, t \in Texts : edit(f, t)
  BY <1>7 DEF make_done, clean, crash, Exit, edit, confvars, buildvars
<1>8. CASE conf_write_same \/ conf_write_old \/ conf_write_new \/ \E c \in Configs, s \in BOOLEAN : conf(c, s)
  BY <1>8 DEF conf_write_same, conf_write_old, conf_write_new, conf
<1>9. CASE UNCHANGED vars
  BY <1>9 DEF vars
<1> QED
  BY <1>1, <1>2, <1>3, <1>4, <1>5, <1>6, <1>7, <1>8, <1>9 DEF Next

----------------------------------------------------------------------------
(* Objects.                                                                *)

\* A step that makes more things newer, and leaves alone what it compares.
LEMMA ObjOlder ==
  ASSUME NEW o \in Objs, ObjInv(o), newer[o] \subseteq newer'[o],
         UNCHANGED <<obj, text, header, dep, early, auto, work>>
  PROVE  ObjInv(o)'
BY DEF ObjInv, Exists, TextIsNewer, HeaderIsNewer, DepCovers, SymIsNewer, Recipe, BuiltWords, AgreesWith,
       Defined, Prerequisites, RawDep

LEMMA RenameHeaderStep ==
  ASSUME IInv, rename_header, NEW o \in Objs
  PROVE  ObjInv(o)'
<1>1. UNCHANGED <<obj, text, dep, early, auto, work>> /\ header' = cur /\ cur \in Configs
  BY DEF rename_header, buildvars, IInv, TypeOK, ConfSteps
<1>2. newer'[o] = newer[o] \cup {AutoHeader}
  BY DEF rename_header, Touch
<1> QED
  BY <1>1, <1>2 DEF IInv, ObjInv, Exists, TextIsNewer, HeaderIsNewer, DepCovers, SymIsNewer, Recipe, BuiltWords,
       AgreesWith, Defined, Prerequisites, RawDep

LEMMA WordSyms ==
  ASSUME TypeOK, NEW o \in Objs, TextIsNewer(o), NEW w \in BuiltWords(o)
  PROVE  w.sym \in Syms
BY FilesAssumption DEF TextIsNewer, BuiltWords, Word

LEMMA RenameAutoStep ==
  ASSUME IInv, rename_auto, NEW o \in Objs
  PROVE  ObjInv(o)'
<1>1. UNCHANGED <<obj, text, dep, early, header, work, newer>> /\ auto' = cur /\ cur \in Configs
  BY DEF rename_auto, buildvars, IInv, TypeOK, ConfSteps
<1>2. ASSUME Exists(o), ~early
      PROVE  SymIsNewer(o)'
  <2>1. TextIsNewer(o) /\ SymIsNewer(o) /\ Touched /\ TypeOK
    BY <1>2 DEF IInv, ObjInv
  <2>2. \A s \in Syms : cur[s] = auto[s] \/ s \in newer[o]
    BY <2>1, ConfigsAssumption DEF rename_auto, Touched, AutoValue, SymIsNewer
  <2>3. BuiltWords(o)' = BuiltWords(o)
    BY <1>1 DEF BuiltWords
  <2>4. ASSUME NEW w \in BuiltWords(o), ~w.inner, w.sym \notin newer[o]
        PROVE  AgreesWith(o, auto, w)'
    BY <1>1, <2>1, <2>2, <2>4, WordSyms DEF SymIsNewer, AgreesWith, Defined
  <2> QED
    BY <1>1, <2>3, <2>4 DEF SymIsNewer
<1>3. Exists(o) => (TextIsNewer(o) /\ HeaderIsNewer(o) /\ DepCovers(o))'
  BY <1>1 DEF IInv, ObjInv, Exists, TextIsNewer, HeaderIsNewer, DepCovers, BuiltWords, AgreesWith,
       Defined, Prerequisites, RawDep
<1> QED
  BY <1>1, <1>2, <1>3 DEF IInv, ObjInv, Exists, Recipe, RawDep

LEMMA CcDepStep ==
  ASSUME IInv, NEW p \in Objs, cc_dep(p), NEW o \in Objs
  PROVE  ObjInv(o)'
<1>1. UNCHANGED <<obj, text, header, early, auto, newer>>
  BY DEF cc_dep, confvars
<1>2. CASE o # p
  <2>1. dep'[o] = dep[o] /\ work'[o] = work[o]
    BY <1>2 DEF cc_dep, IInv, TypeOK
  <2> QED
    BY <1>1, <2>1 DEF IInv, ObjInv, Exists, TextIsNewer, HeaderIsNewer, DepCovers, SymIsNewer, Recipe, BuiltWords,
       AgreesWith, Defined, Prerequisites, RawDep
<1>3. CASE o = p
  <2>1. dep'[o] = RawDep(o) /\ work'[o] = "cc"
    BY <1>3 DEF cc_dep, IInv, TypeOK
  <2>2. DepCovers(o)'
    BY <2>1, SourceFilesType DEF DepCovers, Prerequisites, RawDep
  <2>3. Recipe(o)'
    BY <2>1 DEF Recipe, RawDep
  <2> QED
    BY <1>1, <2>2, <2>3 DEF IInv, ObjInv, Exists, TextIsNewer, HeaderIsNewer, SymIsNewer, BuiltWords,
       AgreesWith, Defined
<1> QED
  BY <1>2, <1>3

LEMMA CcObjStep ==
  ASSUME IInv, NEW p \in Objs, cc_obj(p), NEW o \in Objs
  PROVE  ObjInv(o)'
<1>1. UNCHANGED <<dep, text, header, early, auto>>
  BY DEF cc_obj, confvars
<1>2. CASE o # p
  <2>1. obj'[o] = obj[o] /\ work'[o] = work[o] /\ newer'[o] = newer[o]
    BY <1>2 DEF cc_obj, IInv, TypeOK
  <2> QED
    BY <1>1, <2>1 DEF IInv, ObjInv, Exists, TextIsNewer, HeaderIsNewer, DepCovers, SymIsNewer, Recipe, BuiltWords,
       AgreesWith, Defined, Prerequisites, RawDep
<1>3. CASE o = p
  <2>1. obj'[o] = Compiled(o) /\ work'[o] = "fixdep" /\ newer'[o] = {} /\ dep[o] = RawDep(o)
    BY <1>3 DEF cc_obj, IInv, TypeOK, ObjInv, Recipe
  <2>2. SourceFiles(o) \subseteq Files /\ AutoHeader \in ReadSet(o) /\ SourceFiles(o) \subseteq ReadSet(o)
    BY SourceFilesType
  <2>3. obj'[o].text = [f \in SourceFiles(o) |-> text[f]]
        /\ obj'[o].macros = {w \in Words(o) : ~w.inner /\ IsDefined(w)}
        /\ obj'[o] = [text |-> obj'[o].text, macros |-> obj'[o].macros]
    BY <2>1 DEF Compiled
  <2>4. BuiltWords(o)' = Words(o)
    <3>1. BuiltWords(o)' = UNION {obj'[o].text[f] : f \in SourceFiles(o)}
      BY DEF BuiltWords
    <3> QED
      BY <3>1, <2>3 DEF Words
  <2>5. header \in Configs /\ text \in [Files -> Texts] /\ (~early => auto = header)
    BY DEF cc_obj, IInv, TypeOK, NotEarly
  <2>6. TextIsNewer(o)'
    BY <1>1, <2>2, <2>3, <2>4, <2>5 DEF TextIsNewer
  <2>7. \A w \in Words(o) : w.inner \/ AgreesWith(o, header, w)'
    BY <1>1, <2>3 DEF AgreesWith, Defined, IsDefined
  <2>8. HeaderIsNewer(o)'
    BY <1>1, <2>4, <2>5, <2>7 DEF HeaderIsNewer
  <2>9. ~early => SymIsNewer(o)'
    BY <1>1, <2>4, <2>5, <2>7 DEF SymIsNewer, AgreesWith, Defined
  <2>10. DepCovers(o)'
    BY <1>1, <2>1, <2>2 DEF DepCovers, Prerequisites, RawDep
  <2>11. Recipe(o)'
    <3>1. \A f \in SourceFiles(o) : obj'[o].text[f] = text'[f]
      BY <1>1, <2>3
    <3>2. obj'[o] # NoObj
      <4>1. obj'[o].macros \subseteq Word
        BY <2>2, <2>3, <2>5, FilesAssumption DEF Words
      <4>2. obj'[o] \in [text : [SourceFiles(o) -> Texts], macros : SUBSET Word]
        BY <2>2, <2>3, <2>5, <4>1
      <4> QED
        BY <2>2, <4>2, NoObjAssumption
    <3> QED
      BY <1>1, <2>1, <3>1, <3>2 DEF Recipe, Exists, RawDep
  <2> QED
    BY <1>1, <2>6, <2>8, <2>9, <2>10, <2>11 DEF ObjInv
<1> QED
  BY <1>2, <1>3

LEMMA FixdepStep ==
  ASSUME IInv, NEW p \in Objs, fixdep(p), NEW o \in Objs
  PROVE  ObjInv(o)'
<1>1. UNCHANGED <<obj, text, header, early, auto, newer>>
  BY DEF fixdep, confvars
<1>2. CASE o # p
  <2>1. dep'[o] = dep[o] /\ work'[o] = work[o]
    BY <1>2 DEF fixdep, IInv, TypeOK
  <2> QED
    BY <1>1, <2>1 DEF IInv, ObjInv, Exists, TextIsNewer, HeaderIsNewer, DepCovers, SymIsNewer, Recipe, BuiltWords,
       AgreesWith, Defined, Prerequisites, RawDep
<1>3. CASE o = p
  <2>1. dep'[o] = parse_dep_file(DepFile(o)) /\ work'[o] = "idle"
    BY <1>3 DEF fixdep, IInv, TypeOK
  <2>2. Exists(o) /\ TextIsNewer(o) /\ \A f \in SourceFiles(o) : obj[o].text[f] = text[f]
    BY <1>3 DEF fixdep, IInv, ObjInv, Recipe
  <2>3. ASSUME NEW w \in BuiltWords(o), ~w.inner
        PROVE  w.sym \in dep'[o].syms
    <3>1. PICK f \in SourceFiles(o) : w \in text[f]
      BY <2>2 DEF BuiltWords
    <3>2. w.sym \in parse_config_file(text[f])
      BY <2>3, <3>1 DEF parse_config_file
    <3> QED
      BY <3>2, <2>1, FixdepCovers
  <2>4. SourceFiles(o) \subseteq {Reads[o][1]} \cup dep'[o].files
    BY <2>1, FixdepCovers
  <2>5. DepCovers(o)'
    <3>1. BuiltWords(o)' = BuiltWords(o)
      BY <1>1 DEF BuiltWords
    <3> QED
      BY <2>3, <2>4, <3>1 DEF DepCovers, Prerequisites
  <2>6. Recipe(o)'
    BY <2>1 DEF Recipe
  <2> QED
    BY <1>1, <2>5, <2>6 DEF IInv, ObjInv, Exists, TextIsNewer, HeaderIsNewer, SymIsNewer, BuiltWords,
       AgreesWith, Defined
<1> QED
  BY <1>2, <1>3

LEMMA EditStep ==
  ASSUME IInv, NEW g \in Files, NEW t \in Texts, edit(g, t), NEW o \in Objs
  PROVE  ObjInv(o)'
<1>1. UNCHANGED <<obj, dep, header, early, auto, work>> /\ work[o] = "idle"
  BY DEF edit, confvars, IInv, TypeOK
<1>2. newer'[o] = newer[o] \cup {g} /\ \A f \in Files : f # g => text'[f] = text[f]
  BY DEF edit, Touch, IInv, TypeOK
<1>3. SourceFiles(o) \subseteq Files
  BY SourceFilesType
<1> QED
  BY <1>1, <1>2, <1>3 DEF IInv, ObjInv, Exists, TextIsNewer, HeaderIsNewer, DepCovers, SymIsNewer, Recipe, BuiltWords,
       AgreesWith, Defined, Prerequisites

----------------------------------------------------------------------------

LEMMA ObjStep == IInv /\ [Next]_vars => (\A o \in Objs : ObjInv(o))'
<1> SUFFICES ASSUME IInv, [Next]_vars, NEW o \in Objs PROVE ObjInv(o)'
  OBVIOUS
<1>1. ObjInv(o)
  BY DEF IInv
<1>2. CASE rename_header
  BY <1>2, RenameHeaderStep
<1>3. CASE rename_auto
  BY <1>3, RenameAutoStep
<1>4. ASSUME NEW p \in Objs, cc_dep(p) \/ cc_obj(p) \/ fixdep(p) PROVE ObjInv(o)'
  BY <1>4, CcDepStep, CcObjStep, FixdepStep
<1>5. ASSUME NEW f \in Files, NEW t \in Texts, edit(f, t) PROVE ObjInv(o)'
  BY <1>5, EditStep
<1>6. ASSUME NEW s \in Syms, conf_touch_dep(s) PROVE ObjInv(o)'
  <2>1. newer[o] \subseteq newer'[o]
    BY <1>6 DEF conf_touch_dep, Touch
  <2> QED
    BY <1>1, <1>6, <2>1, ObjOlder DEF conf_touch_dep, buildvars
<1>7. CASE make
  <2>1. UNCHANGED <<obj, text, newer, header, dep, auto, work>> /\ (early => early')
    BY <1>7 DEF make, confvars
  <2>2. early' \/ UNCHANGED early
    <3>1. early \in BOOLEAN /\ early' = (early \/ auto # header)
      BY <1>7 DEF make, IInv, TypeOK
    <3> QED
      BY <3>1
  <2> QED
    BY <1>1, <2>1, <2>2, ObjSame DEF ObjInv, Exists, TextIsNewer, HeaderIsNewer, DepCovers, Recipe, BuiltWords,
       AgreesWith, Defined, Prerequisites, RawDep
<1>8. CASE clean
  <2>1. obj'[o] = NoObj /\ work'[o] = "idle"
    BY <1>8 DEF clean, IInv, TypeOK
  <2> QED
    BY <2>1 DEF ObjInv, Exists, Recipe
<1>9. CASE crash
  <2>1. work'[o] = "idle" /\ UNCHANGED <<obj, text, newer, header, dep, auto, early>>
    BY <1>9 DEF crash
  <2> QED
    BY <1>1, <2>1 DEF ObjInv, Exists, TextIsNewer, HeaderIsNewer, DepCovers, Recipe, BuiltWords, SymIsNewer,
       AgreesWith, Defined, Prerequisites
<1>10. CASE UNCHANGED <<obj, text, newer, header, dep, early, auto, work>>
  BY <1>1, <1>10, ObjSame
<1> QED
  BY <1>2, <1>3, <1>4, <1>5, <1>6, <1>7, <1>8, <1>9, <1>10 DEF Next, vars, confvars, buildvars, conf,
     conf_write_same, conf_write_old, conf_write_new, conf_write_autoconf, make_done

\* The invariant everything below rests on.
THEOREM Invariance == Spec => []IInv
<1>1. IInv /\ [Next]_vars => IInv'
  BY TypeStep, SavedStep, TouchedStep, ObjStep DEF IInv
<1> QED
  BY <1>1, InitInv, PTL DEF Spec

\* At every moment .config or .config.old holds the configuration saved last
\* (conf_write), for any configurations and any number of crashes.
THEOREM SavedConfigNeverLost == Spec => []SavedConfigSurvives
<1>1. IInv => SavedConfigSurvives
  BY DEF IInv, SavedIsKept, SavedConfigSurvives
<1> QED
  BY <1>1, Invariance, PTL

\* An object none of whose prerequisites is newer is what a compilation would
\* give.
LEMMA NotNeededIsCurrent ==
  ASSUME IInv, pc = "make", ~early, NEW o \in Objs, ~NeedsBuild(o)
  PROVE  obj[o] = Compiled(o)
<1>1. Exists(o) /\ newer[o] \cap Prerequisites(o) = {} /\ auto = header
  BY DEF NeedsBuild, Exists, IInv, NotEarly
<1>2. TextIsNewer(o) /\ HeaderIsNewer(o) /\ DepCovers(o) /\ SymIsNewer(o)
  BY <1>1 DEF IInv, ObjInv
<1>3. \A f \in SourceFiles(o) : obj[o].text[f] = text[f]
  BY <1>1, <1>2 DEF TextIsNewer, DepCovers
<1>4. obj[o].text = [f \in SourceFiles(o) |-> text[f]]
  BY <1>2, <1>3 DEF TextIsNewer
<1>5. BuiltWords(o) = Words(o)
  BY <1>3 DEF BuiltWords, Words
<1>6. \A w \in BuiltWords(o) : w.inner \/ AgreesWith(o, header, w)
  <2>1. CASE AutoHeader \in Prerequisites(o)
    BY <2>1, <1>1, <1>2 DEF HeaderIsNewer
  <2>2. CASE \A w \in BuiltWords(o) : w.inner \/ w.sym \in dep[o].syms
    BY <2>2, <1>1, <1>2 DEF SymIsNewer, Prerequisites
  <2> QED
    BY <2>1, <2>2, <1>2 DEF DepCovers
<1>7. obj[o].macros = {w \in Words(o) : ~w.inner /\ IsDefined(w)}
  BY <1>2, <1>5, <1>6 DEF TextIsNewer, AgreesWith, Defined, IsDefined
<1> QED
  BY <1>2, <1>4, <1>7 DEF TextIsNewer, Compiled

\* A make that ends leaves every object as its sources and autoconf.h say
\* (fixdep, conf_touch_deps and the rules of build.mk together), for any
\* symbols, files and objects, after any crashes.
THEOREM BuildsAreCurrent == Spec => BuildIsCurrent
<1>1. IInv /\ [Next]_vars => [make_done /\ ~early => \A o \in Objs : obj[o] = Compiled(o)]_vars
  BY NotNeededIsCurrent DEF make_done
<1> QED
  BY <1>1, Invariance, PTL DEF Spec, BuildIsCurrent
=============================================================================
