----------------------------- MODULE MCDifftest -----------------------------
(* Registers of three bits, a tolerance of one, and instructions that are  *)
(* one or four (half the range) off.                                       *)
EXTENDS Difftest

MCErrors == {-1, 0, 1, 4}
=============================================================================
