---------------------------- MODULE MCKeyboard ----------------------------
(* Keyboard on a ring of four slots: two mapped keys and one unmapped      *)
(* scan code, so that filling, wrapping, draining and overflowing happen.  *)
EXTENDS Keyboard

CONSTANTS sA, sB, sX, kA, kB

MCScancodes == {sA, sB, sX}
MCKeys == {kA, kB}
MCkeymap == [s \in MCScancodes |-> IF s = sA THEN kA ELSE IF s = sB THEN kB ELSE NONE]
=============================================================================
