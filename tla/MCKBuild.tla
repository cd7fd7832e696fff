------------------------------ MODULE MCKBuild ------------------------------
(* Two symbols, and an object of a source and a header whose words change; *)
(* objects have nothing to do with each other but what they all read.      *)
EXTENDS KBuild

MCSyms == {"X", "Y"}
MCConfigs == {[X |-> "y", Y |-> "n"], [X |-> "m", Y |-> "n"], [X |-> "m", Y |-> "y"]}
word(s, mod, in) == [sym |-> s, module |-> mod, inner |-> in]
MCTexts == {{word("X", TRUE, FALSE)}, {word("Y", FALSE, FALSE), word("X", FALSE, TRUE)}}
MCReads == [o \in {"a.o"} |-> <<"a.c", AutoHeader, "h.h">>]
=============================================================================
