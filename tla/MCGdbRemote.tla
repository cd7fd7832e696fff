---------------------------- MODULE MCGdbRemote -----------------------------
(***************************************************************************)
(* Calls of each kind: two steps, buffers of one packet, of exactly two,   *)
(* of two and a bit and one that does not fit in memory.                   *)
(***************************************************************************)
EXTENDS GdbRemote

Calls_ == {[op |-> "exec", n |-> 0], [op |-> "exec", n |-> 1], [op |-> "exec", n |-> 2],
           [op |-> "to_dut"], [op |-> "to_ref", pc |-> 4097],
           [op |-> "memcpy", addr |-> 0, buf |-> <<1, 2>>],
           [op |-> "memcpy", addr |-> 1, buf |-> <<3, 4, 5, 6>>],
           [op |-> "memcpy", addr |-> 0, buf |-> <<7, 8, 9, 10, 171>>],
           [op |-> "memcpy", addr |-> 4, buf |-> <<1, 2>>]}
NoCall_ == [op |-> "none"]
=============================================================================
