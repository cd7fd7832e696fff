----------------------------- MODULE MCMonitor -----------------------------
(* The debugger with words of two bits, and the numbers -1 to 5 typed at   *)
(* its prompt: refused (0 and 4), accepted (1 to 3), and cut to a word (-1 *)
(* runs as 3, 5 runs as 1).                                                *)
EXTENDS Monitor

MCArgs == -1 .. 5
=============================================================================
