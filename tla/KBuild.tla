------------------------------- MODULE KBuild -------------------------------
(* Configuration files and incremental builds: what conf leaves on disk    *)
(* (conf_write and conf_write_autoconf of tools/kconfig/confdata.c), what  *)
(* fixdep makes of a compiler's dependency file (tools/fixdep/fixdep.c),   *)
(* and which objects make rebuilds (scripts/build.mk).  Any program may be *)
(* killed, or fail, between two steps.                                     *)
(*                                                                         *)
(* Time stamps are kept as the set of things newer than each object.       *)
EXTENDS Naturals, Sequences

CONSTANTS
  Syms,        \* the symbols of the Kconfig files
  Configs,     \* the configurations: functions from Syms to "n", "m", "y"
  Files,       \* sources and headers, all but autoconf.h
  Texts,       \* what a file may hold: sets of words [sym, module, inner]
  Objs,        \* the objects make builds
  Reads,       \* what the compiler reads for each: its source, then headers
  NoFile,      \* in place of a configuration: the file does not exist
  NoObj        \* in place of an object

AutoHeader == "include/generated/autoconf.h"

\* A .d file: none, as the compiler wrote it, or as fixdep did.
NoDep == [kind |-> "none", files |-> {}, syms |-> {}]

\* What a word of a source file is: CONFIG_sym or CONFIG_sym_MODULE, or, when
\* inner, the tail of another identifier.
Word == [sym : Syms, module : BOOLEAN, inner : BOOLEAN]

ASSUME ConfigsAssumption ==
  /\ Configs \subseteq [Syms -> {"n", "m", "y"}]
  /\ NoFile \notin Configs
ASSUME FilesAssumption ==
  /\ AutoHeader \notin Files
  /\ Syms \cap (Files \cup {AutoHeader}) = {}
  /\ Texts \subseteq SUBSET Word
ASSUME ReadsAssumption ==
  /\ Reads \in [Objs -> Seq(Files \cup {AutoHeader})]
  /\ \A o \in Objs : /\ Len(Reads[o]) > 0 /\ Reads[o][1] \in Files
                     /\ \E i \in 1..Len(Reads[o]) : Reads[o][i] = AutoHeader

ASSUME NoObjAssumption ==
  \A F \in SUBSET Files : NoObj \notin [text : [F -> Texts], macros : SUBSET Word]

VARIABLES
  config,      \* .config
  old,         \* .config.old
  tmp,         \* .config.<pid>.tmp
  auto,        \* include/config/auto.conf
  header,      \* include/generated/autoconf.h
  text,        \* the contents of every file
  obj,         \* what every object was compiled from
  dep,         \* the .d file of every object
  newer,       \* the files and symbols (include/config/sym.h) newer than it
  pc,          \* what runs: nothing ("shell"), a step of conf, or make
  cur,         \* the values conf holds
  sync,        \* conf was started with --syncconfig
  left,        \* symbols conf_touch_deps has still to touch
  work,        \* the step of its recipe each object is at
  saved,       \* the configuration last saved
  early        \* make ran after an unfinished sync, with no clean since

vars == <<config, old, tmp, auto, header, text, obj, dep, newer, pc, cur, sync, left, work, saved, early>>
confvars == <<config, old, tmp, auto, header, cur, sync, left, saved>>
buildvars == <<text, obj, dep, work, early>>

Init ==
  /\ config = NoFile /\ old = NoFile /\ tmp = NoFile
  /\ auto = NoFile /\ header = NoFile
  /\ text \in [Files -> Texts]
  /\ obj = [o \in Objs |-> NoObj] /\ dep = [o \in Objs |-> NoDep]
  /\ newer = [o \in Objs |-> {}]
  /\ pc = "shell" /\ cur = NoFile /\ sync = FALSE /\ left = {}
  /\ work = [o \in Objs |-> "idle"]
  /\ saved = NoFile /\ early = FALSE

Touch(things) == newer' = [o \in Objs |-> newer[o] \cup things]

----------------------------------------------------------------------------
(* conf                                                                    *)

\* Up to the first write: the values are the user's, or those of .config.
conf(c, s) ==
  /\ pc = "shell"
  /\ cur' = c /\ sync' = s /\ tmp' = c /\ pc' = "write"
  /\ UNCHANGED <<config, old, auto, header, left, newer, saved, buildvars>>

is_same == config = tmp

conf_write_same ==
  /\ pc = "write" /\ is_same
  /\ tmp' = NoFile /\ pc' = "written"
  /\ UNCHANGED <<config, old, auto, header, cur, sync, left, newer, saved, buildvars>>

\* A variant that removes .config instead of renaming it.
conf_write_old_Unlinks ==
  /\ pc = "write" /\ ~is_same
  /\ config' = NoFile /\ pc' = "renamed"
  /\ UNCHANGED <<old, tmp, auto, header, cur, sync, left, newer, saved, buildvars>>

\* The first rename fails if there is no .config, which is not looked at.
conf_write_old ==
  /\ pc = "write" /\ ~is_same
  /\ old' = IF config = NoFile THEN old ELSE config
  /\ config' = NoFile /\ pc' = "renamed"
  /\ UNCHANGED <<tmp, auto, header, cur, sync, left, newer, saved, buildvars>>

conf_write_new ==
  /\ pc = "renamed"
  /\ config' = tmp /\ tmp' = NoFile /\ saved' = tmp /\ pc' = "written"
  /\ UNCHANGED <<old, auto, header, cur, sync, left, newer, buildvars>>

\* Values that auto.conf does not have: n is never written to it.
AutoValue(s) == IF auto = NoFile THEN "n" ELSE auto[s]

Changed == {s \in Syms : cur[s] # AutoValue(s)}

Exit == pc' = "shell" /\ cur' = NoFile /\ sync' = FALSE

\* Without --syncconfig an auto.conf that is there stays.
conf_write_autoconf ==
  /\ pc = "written"
  /\ IF ~sync /\ auto # NoFile THEN Exit /\ left' = {}
     ELSE pc' = "touch" /\ left' = Changed /\ UNCHANGED <<cur, sync>>
  /\ UNCHANGED <<config, old, tmp, auto, header, newer, saved, buildvars>>

conf_touch_dep(s) ==
  /\ pc = "touch" /\ s \in left
  /\ Touch({s}) /\ left' = left \ {s}
  /\ UNCHANGED <<config, old, tmp, auto, header, cur, sync, pc, saved, buildvars>>

\* autoconf.h is renamed into place, and auto.conf last.
rename_header ==
  /\ pc = "touch" /\ left = {}
  /\ header' = cur /\ Touch({AutoHeader}) /\ pc' = "header"
  /\ UNCHANGED <<config, old, tmp, auto, cur, sync, left, saved, buildvars>>

rename_auto ==
  /\ pc = "header"
  /\ auto' = cur /\ Exit
  /\ UNCHANGED <<config, old, tmp, header, left, newer, saved, buildvars>>

----------------------------------------------------------------------------
(* fixdep                                                                  *)

\* A variant that takes CONFIG_sym_MODULE for a symbol of its own.
parse_config_file_KeepsModule(t) == {w.sym : w \in {x \in t : ~x.inner /\ ~x.module}}

\* The symbols a file mentions; _MODULE is cut off.
parse_config_file(t) == {w.sym : w \in {x \in t : ~x.inner}}

is_ignored_file(f) == f = AutoHeader

\* The .d file of the compiler: the target, then what was read.
DepFile(o) == <<[name |-> o, target |-> TRUE]>>
              \o [i \in 1..Len(Reads[o]) |-> [name |-> Reads[o][i], target |-> FALSE]]

\* The next file after a target, ignored ones apart, is the source: it is
\* searched for symbols but not listed.
IsDep(toks, i) == ~toks[i].target /\ ~is_ignored_file(toks[i].name)
IsFirstDep(toks, i) ==
  /\ IsDep(toks, i)
  /\ \E j \in 1..(i - 1) : toks[j].target /\ \A k \in (j + 1)..(i - 1) : ~IsDep(toks, k)

parse_dep_file(toks) ==
  [kind |-> "fixed",
   files |-> {toks[i].name : i \in {j \in 1..Len(toks) : IsDep(toks, j) /\ ~IsFirstDep(toks, j)}},
   syms |-> UNION {parse_config_file(text[toks[i].name]) : i \in {j \in 1..Len(toks) : IsDep(toks, j)}}]

----------------------------------------------------------------------------
(* make                                                                    *)

ReadSet(o) == {Reads[o][i] : i \in 1..Len(Reads[o])}

RawDep(o) == [kind |-> "raw", files |-> ReadSet(o), syms |-> {}]

\* What the rules say an object depends on: its source by the pattern rule,
\* the rest by its .d file.
Prerequisites(o) ==
  {Reads[o][1]} \cup dep[o].files \cup dep[o].syms

NeedsBuild(o) == obj[o] = NoObj \/ newer[o] \cap Prerequisites(o) # {}

\* What the preprocessor makes of a word, and an object of what it reads.
IsDefined(w) == header[w.sym] = IF w.module THEN "m" ELSE "y"
SourceFiles(o) == ReadSet(o) \ {AutoHeader}
Words(o) == UNION {text[f] : f \in SourceFiles(o)}
Compiled(o) ==
  [text |-> [f \in SourceFiles(o) |-> text[f]],
   macros |-> {w \in Words(o) : ~w.inner /\ IsDefined(w)}]

make ==
  /\ pc = "shell" /\ header # NoFile
  /\ pc' = "make" /\ early' = (early \/ auto # header)
  /\ UNCHANGED <<confvars, text, obj, dep, newer, work>>

\* The recipe of an object, several at a time with -j: the compiler writes
\* the .d file, then the object; fixdep replaces the .d file.
cc_dep(o) ==
  /\ pc = "make" /\ work[o] = "idle" /\ NeedsBuild(o)
  /\ dep' = [dep EXCEPT ![o] = RawDep(o)] /\ work' = [work EXCEPT ![o] = "cc"]
  /\ UNCHANGED <<confvars, text, obj, newer, pc, early>>

cc_obj(o) ==
  /\ pc = "make" /\ work[o] = "cc"
  /\ obj' = [obj EXCEPT ![o] = Compiled(o)]
  /\ newer' = [newer EXCEPT ![o] = {}] /\ work' = [work EXCEPT ![o] = "fixdep"]
  /\ UNCHANGED <<confvars, text, dep, pc, early>>

fixdep(o) ==
  /\ pc = "make" /\ work[o] = "fixdep"
  /\ dep' = [dep EXCEPT ![o] = parse_dep_file(DepFile(o))]
  /\ work' = [work EXCEPT ![o] = "idle"]
  /\ UNCHANGED <<confvars, text, obj, newer, pc, early>>

make_done ==
  /\ pc = "make" /\ \A o \in Objs : work[o] = "idle" /\ ~NeedsBuild(o)
  /\ pc' = "shell"
  /\ UNCHANGED <<confvars, buildvars, newer>>

clean ==
  /\ pc = "shell"
  /\ obj' = [o \in Objs |-> NoObj] /\ dep' = [o \in Objs |-> NoDep]
  /\ early' = FALSE
  /\ UNCHANGED <<confvars, text, newer, pc, work>>

----------------------------------------------------------------------------

edit(f, t) ==
  /\ pc = "shell"
  /\ text' = [text EXCEPT ![f] = t] /\ Touch({f})
  /\ UNCHANGED <<confvars, obj, dep, pc, work, early>>

\* Whatever runs is killed or fails; the temporary file is never read again.
crash ==
  /\ pc # "shell"
  /\ Exit /\ tmp' = NoFile /\ left' = {}
  /\ work' = [o \in Objs |-> "idle"]
  /\ UNCHANGED <<config, old, auto, header, text, obj, dep, newer, saved, early>>

Next ==
  \/ \E c \in Configs, s \in BOOLEAN : conf(c, s)
  \/ conf_write_same \/ conf_write_old \/ conf_write_new \/ conf_write_autoconf
  \/ \E s \in Syms : conf_touch_dep(s)
  \/ rename_header \/ rename_auto
  \/ make \/ make_done \/ clean \/ crash
  \/ \E o \in Objs : cc_dep(o) \/ cc_obj(o) \/ fixdep(o)
  \/ \E f \in Files, t \in Texts : edit(f, t)

Spec == Init /\ [][Next]_vars

----------------------------------------------------------------------------

\* When make is done every object is what its sources and the configuration
\* header now say, though only the objects that mention a changed symbol were
\* rebuilt, whatever was killed before: unless make ran while autoconf.h and
\* auto.conf disagreed, and nothing was cleaned since.
BuildIsCurrent ==
  [][make_done /\ ~early => \A o \in Objs : obj[o] = Compiled(o)]_vars

\* The configuration saved last is in .config or in .config.old, also when
\* conf is killed between its two renames, or when the next one is.
SavedConfigSurvives == saved \in {config, old}

=============================================================================
